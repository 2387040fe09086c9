-------------------------- MODULE ToolsContextProofs --------------------------
(***************************************************************************)
(* ToolSources: for any number of runs, contexts, pages and catalogs, no   *)
(* session is orphaned, a listed tool stays routed to the source that      *)
(* listed it, and a cached catalog is not older than its lifetime.         *)
(* Context: for any agents, contents and prompts and any bounds, reasoning *)
(* goes out only where it came from, and what a tool returned stays within *)
(* reach through every spill, cap, clear and resume.                       *)
(***************************************************************************)
EXTENDS ToolSources, Context, Sums, SequenceTheorems, TLAPS

RunPlaces ==
  {"start", "session", "connecting", "page", "catalog", "fetching", "fetched", "merge", "ready",
   "asking", "executing", "vendor", "polling", "checking", "ended"}

\* One run connects at a time, under the lock and while no session is held; a
\* session that is being connected or held is not being closed.
SessionInv ==
  /\ connects \in Nat /\ session \in 0..connects /\ closing \subseteq 1..connects
  /\ mine \in [Runs -> 0..connects] /\ pc \in [Runs -> RunPlaces]
  /\ lock \in Runs \cup {NoOne}
  /\ \A r \in Runs : pc[r] = "connecting" <=> lock = r
  /\ lock # NoOne => session = 0 /\ mine[lock] # 0 /\ mine[lock] \notin closing
  /\ session \notin closing
  /\ SessionsAccounted

\* What is cached was offered between the start of its fetch and now.
CatalogInv ==
  /\ now \in Nat /\ cache.at \in Nat /\ cache.expires \in Nat
  /\ cache.expires <= cache.at + TTL
  /\ fetch \in [Runs -> [began : Nat, names : SUBSET UNION Catalogs, at : Nat]]
  /\ \A r \in Runs :
       /\ pc[r] = "fetching" => fetch[r].began <= now
       /\ pc[r] = "fetched" => fetch[r].began <= fetch[r].at
  /\ cache.names \subseteq UNION Catalogs /\ vendor \in Catalogs

McpNames == UNION Range(McpTools)
Names == McpNames \cup (UNION Catalogs) \cup WorkspaceNames

\* The listing of r so far: all of the server's pages before the page it is at,
\* and nothing that was not offered.
ListingInv ==
  /\ page \in [Runs -> 1..Len(McpTools)]
  /\ tools \in [Runs -> SUBSET (Names \X {"mcp", "composio", "workspace"})]
  /\ \A r \in Runs :
       /\ pc[r] # "page" => page[r] = 1
       /\ pc[r] = "page" =>
            \A i \in 1..(page[r] - 1) : From("mcp", McpTools[i]) \subseteq tools[r]
       /\ pc[r] \in {"catalog", "fetching", "fetched", "merge"} =>
            From("mcp", McpNames) \subseteq tools[r]
       /\ pc[r] # "ready" =>
            tools[r] \subseteq From("mcp", McpNames) \cup From("composio", UNION Catalogs)

\* The source that may list the name n: the server offers the same names to all,
\* so the others have n only where it does not.
Owns(source, n) ==
  \/ source = "mcp" /\ n \in McpNames
  \/ source = "composio" /\ n \in (UNION Catalogs) \ McpNames
     /\ (HasWorkspace = Runs => n \notin WorkspaceNames)
  \/ source = "workspace" /\ n \in WorkspaceNames \ McpNames /\ HasWorkspace # {}

\* Routes are those of complete listings in which no two names collide.
RouteInv ==
  /\ \A n \in DOMAIN routes : Owns(routes[n], n)
  /\ \A r \in Runs : pc[r] = "ready" =>
       \A t \in tools[r] : Owns(t[2], t[1]) /\ t[1] \in DOMAIN routes
-----------------------------------------------------------------------------
(* The session *)

\* What all the steps that do not touch the connection do.
LEMMA SessionFrame ==
  ASSUME SessionInv, NEW r \in Runs, pc[r] # "connecting",
         NEW to \in RunPlaces, to # "connecting", pc' = [pc EXCEPT ![r] = to],
         UNCHANGED <<lock, session, open, closing, connects>>,
         NEW x \in 0..connects, mine' = mine \/ mine' = [mine EXCEPT ![r] = x]
  PROVE  SessionInv'
<1>1. \A q \in Runs : (pc'[q] = "connecting" <=> pc[q] = "connecting")
                     /\ (pc[q] = "connecting" => mine'[q] = mine[q])
  BY DEF SessionInv
<1>2. {mine'[q] : q \in {y \in Runs : pc'[y] = "connecting"}}
        = {mine[q] : q \in {y \in Runs : pc[y] = "connecting"}}
  BY <1>1
<1>3. SessionsAccounted'
  BY <1>2 DEF SessionInv, SessionsAccounted
<1>4. \A q \in Runs : lock = q => pc[q] = "connecting"
  BY DEF SessionInv
<1>5. lock # NoOne => mine'[lock] = mine[lock]
  BY <1>4, <1>1 DEF SessionInv
<1> QED
  BY <1>1, <1>3, <1>5 DEF SessionInv

\* While somebody connects, nobody else does.
LEMMA Connecting ==
  ASSUME SessionInv, NEW r \in Runs, lock \in {r, NoOne}
  PROVE  {mine[q] : q \in {y \in Runs : pc[y] = "connecting"}}
           = IF pc[r] = "connecting" THEN {mine[r]} ELSE {}
<1>1. {y \in Runs : pc[y] = "connecting"} = IF pc[r] = "connecting" THEN {r} ELSE {}
  BY SourcesAssumption DEF SessionInv
<1> QED
  BY <1>1

LEMMA SessionStep == SessionInv /\ [Next]_vars => SessionInv'
<1> SUFFICES ASSUME SessionInv, [Next]_vars PROVE SessionInv'
  OBVIOUS
<1> USE SourcesAssumption DEF runVars, mcpVars
<1> DEFINE Connects(m, p) == {m[q] : q \in {y \in Runs : p[y] = "connecting"}}
<1>0. 0 \in 0..connects /\ session \in 0..connects
  BY DEF SessionInv
<1>1. ASSUME NEW r \in Runs, Connect(r) PROVE SessionInv'
  <2>1. pc[r] # "connecting" /\ lock = NoOne /\ session = 0
    BY <1>1 DEF Connect, MayConnect
  <2>2. Connects(mine, pc) = {}
    BY <2>1, Connecting
  <2>3. pc' = [pc EXCEPT ![r] = "connecting"] /\ mine' = [mine EXCEPT ![r] = connects + 1]
        /\ lock' = r /\ open' = open \cup {connects + 1} /\ connects' = connects + 1
        /\ UNCHANGED <<session, closing>>
    BY <1>1 DEF Connect, Go
  <2>4. \A q \in Runs : pc'[q] = "connecting" <=> r = q
    BY <2>1, <2>3 DEF SessionInv
  <2>5. {y \in Runs : pc'[y] = "connecting"} = {r} /\ mine'[r] = connects + 1
    BY <2>3, <2>4 DEF SessionInv
  <2>6. Connects(mine', pc') = {connects + 1}
    BY <2>5
  <2>7. SessionsAccounted'
    BY <2>1, <2>2, <2>3, <2>6 DEF SessionsAccounted, SessionInv
  <2>8. mine' \in [Runs -> 0..connects'] /\ pc' \in [Runs -> RunPlaces]
    BY <2>3 DEF SessionInv, RunPlaces
  <2> QED
    BY <2>1, <2>3, <2>4, <2>5, <2>7, <2>8 DEF SessionInv
<1>2. ASSUME NEW r \in Runs, Connected(r) PROVE SessionInv'
  <2>1. pc[r] = "connecting" /\ lock = r /\ session = 0 /\ mine[r] # 0 /\ mine[r] \notin closing
    BY <1>2 DEF Connected, SessionInv
  <2>2. PICK to \in {"page", "asking"} : pc' = [pc EXCEPT ![r] = to]
    BY <1>2 DEF Connected, Work, Go
  <2>3. lock' = NoOne /\ session' = mine[r] /\ UNCHANGED <<mine, open, closing, connects>>
    BY <1>2 DEF Connected
  <2>4. \A q \in Runs : pc'[q] # "connecting"
    BY <2>1, <2>2 DEF SessionInv
  <2>5. Connects(mine', pc') = {} /\ Connects(mine, pc) = {mine[r]}
    BY <2>1, <2>4, Connecting
  <2>6. SessionsAccounted'
    BY <2>1, <2>3, <2>5 DEF SessionsAccounted, SessionInv
  <2> QED
    BY <2>1, <2>2, <2>3, <2>4, <2>6 DEF SessionInv, RunPlaces
<1>3. ASSUME NEW r \in Runs, ConnectFails(r) PROVE SessionInv'
  <2>1. pc[r] = "connecting" /\ lock = r /\ session = 0 /\ mine[r] # 0 /\ mine[r] \notin closing
    BY <1>3 DEF ConnectFails, SessionInv
  <2>2. pc' = [pc EXCEPT ![r] = "ended"] /\ mine' = [mine EXCEPT ![r] = 0]
        /\ lock' = NoOne /\ open' = open \ {mine[r]} /\ UNCHANGED <<session, closing, connects>>
    BY <1>3 DEF ConnectFails, End, Drop, Released
  <2>3. \A q \in Runs : pc'[q] # "connecting"
    BY <2>1, <2>2 DEF SessionInv
  <2>4. Connects(mine', pc') = {} /\ Connects(mine, pc) = {mine[r]}
    BY <2>1, <2>3, Connecting
  <2>5. SessionsAccounted'
    BY <2>1, <2>2, <2>4 DEF SessionsAccounted, SessionInv
  <2> QED
    BY <2>1, <2>2, <2>3, <2>5 DEF SessionInv, RunPlaces
<1>4. CASE Close
  <2>1. session # 0 /\ lock = NoOne
    BY <1>4 DEF Close, SessionInv
  <2>2. session' = 0 /\ closing' = closing \cup {session}
        /\ UNCHANGED <<pc, lock, mine, open, connects>>
    BY <1>4 DEF Close
  <2>3. SessionsAccounted'
    BY <2>1, <2>2 DEF SessionsAccounted, SessionInv
  <2> QED
    BY <2>1, <2>2, <2>3 DEF SessionInv
<1>5. ASSUME NEW s \in closing, Closed(s) PROVE SessionInv'
  <2>1. closing' = closing \ {s} /\ open' = open \ {s}
        /\ UNCHANGED <<pc, lock, session, mine, connects>>
    BY <1>5 DEF Closed
  <2>2. s # session /\ s # 0
    BY DEF SessionInv
  <2>3. s \notin Connects(mine, pc)
    BY DEF SessionInv
  <2>4. SessionsAccounted'
    BY <2>1, <2>2, <2>3 DEF SessionsAccounted, SessionInv
  <2> QED
    BY <2>1, <2>4 DEF SessionInv
<1>6. ASSUME NEW r \in Runs, UseSession(r) \/ ListPage(r) \/ AskServer(r) PROVE SessionInv'
  <2>1. pc[r] # "connecting" /\ UNCHANGED <<lock, session, open, closing, connects>>
    BY <1>6 DEF UseSession, ListPage, AskServer
  <2>2. pc' = pc \/ \E to \in RunPlaces \ {"connecting"} : pc' = [pc EXCEPT ![r] = to]
    BY <1>6 DEF UseSession, ListPage, AskServer, Work, Go, End, RunPlaces
  <2>3. pc' = [pc EXCEPT ![r] = pc[r]] \/ \E to \in RunPlaces \ {"connecting"} : pc' = [pc EXCEPT ![r] = to]
    BY <2>2 DEF SessionInv
  <2>4. PICK to \in RunPlaces : to # "connecting" /\ pc' = [pc EXCEPT ![r] = to]
    BY <2>1, <2>3 DEF SessionInv
  <2>5. mine' = mine \/ \E x \in {0, session} : mine' = [mine EXCEPT ![r] = x]
    BY <1>6 DEF UseSession, ListPage, AskServer, Drop
  <2>6. PICK x \in 0..connects : mine' = mine \/ mine' = [mine EXCEPT ![r] = x]
    BY <2>5, <1>0
  <2> QED
    BY <2>1, <2>4, <2>6, SessionFrame
<1>7. ASSUME NEW r \in Runs, UNCHANGED mcpVars, pc[r] # "connecting",
             NEW to \in RunPlaces, to # "connecting", pc' = [pc EXCEPT ![r] = to]
      PROVE SessionInv'
  BY <1>0, <1>7, SessionFrame
<1>8. ASSUME NEW r \in Runs,
             \/ List(r) \/ ListCatalog(r) \/ VendorAnswers(r) \/ VendorFails(r) \/ FetchReturns(r)
             \/ AskVendor(r) \/ VendorExecutes(r)
             \/ Initiate(r) \/ ReadAccount(r) \/ CheckedStatus(r)
      PROVE SessionInv'
  <2>1. UNCHANGED mcpVars /\ pc[r] # "connecting"
    BY <1>8 DEF List, ListCatalog, VendorAnswers, VendorFails, FetchReturns, AskVendor, VendorExecutes,
                Initiate, ReadAccount, CheckedStatus
  <2>2. \E to \in RunPlaces \ {"connecting"} : pc' = [pc EXCEPT ![r] = to]
    BY <1>8 DEF List, ListCatalog, VendorAnswers, VendorFails, FetchReturns, AskVendor, VendorExecutes,
                Initiate, ReadAccount, CheckedStatus, Go, End, RunPlaces
  <2> QED
    BY <2>1, <2>2, <1>7
<1>9. ASSUME NEW r \in Runs, EndListing(r) \/ (\E name : Call(r, name))
                             \/ (\E owner, status : Adopt(r, owner, status))
      PROVE SessionInv'
  <2>1. UNCHANGED mcpVars /\ pc[r] # "connecting"
    BY <1>9 DEF EndListing, Call, Adopt
  <2>2. \E to \in RunPlaces \ {"connecting"} : pc' = [pc EXCEPT ![r] = to]
    BY <1>9 DEF EndListing, Call, Adopt, Dispatch, Go, End, RunPlaces
  <2> QED
    BY <2>1, <2>2, <1>7
<1>10. CASE VendorChanges \/ Tick \/ (\E r \in Runs : Settles(r)) \/ UNCHANGED vars
  <2>1. UNCHANGED mcpVars /\ UNCHANGED pc
    BY <1>10 DEF VendorChanges, Tick, Settles, vars
  <2> QED
    BY <2>1 DEF SessionInv, SessionsAccounted
<1> QED
  BY <1>1, <1>2, <1>3, <1>4, <1>5, <1>6, <1>8, <1>9, <1>10 DEF Next, RunStep

LEMMA SessionInit == Init => SessionInv
<1> SUFFICES ASSUME Init PROVE SessionInv
  OBVIOUS
<1>1. {r \in Runs : pc[r] = "connecting"} = {}
  BY DEF Init
<1>2. {mine[r] : r \in {x \in Runs : pc[x] = "connecting"}} = {}
  BY <1>1
<1>3. SessionsAccounted
  BY <1>2 DEF Init, SessionsAccounted
<1>4. /\ pc = [r \in Runs |-> "start"] /\ mine = [r \in Runs |-> 0]
      /\ lock = NoOne /\ session = 0 /\ closing = {} /\ connects = 0
  BY DEF Init
<1> QED
  BY <1>3, <1>4, SourcesAssumption DEF SessionInv, RunPlaces

\* No session that a first use, a failed connect or a close leaves behind stays
\* open (tools/mcp.py, _connect_lock).
THEOREM SessionsAccountedAlways == Spec => []SessionsAccounted
<1>1. SessionInv => SessionsAccounted
  BY DEF SessionInv
<1> QED
  BY <1>1, SessionInit, SessionStep, PTL DEF Spec

-----------------------------------------------------------------------------
(* The catalog *)

\* A step of r that is not at the catalog.
LEMMA CatalogFrame ==
  ASSUME SessionInv, CatalogInv, UNCHANGED catalogVars, NEW r \in Runs,
         NEW to, to \notin {"fetching", "fetched"}, pc' = [pc EXCEPT ![r] = to]
  PROVE  CatalogInv'
BY DEF SessionInv, CatalogInv, catalogVars

LEMMA CatalogStep == SessionInv /\ CatalogInv /\ [Next]_vars => CatalogInv'
<1> SUFFICES ASSUME SessionInv, CatalogInv, [Next]_vars PROVE CatalogInv'
  OBVIOUS
<1> USE SourcesAssumption DEF runVars, mcpVars
<1>1. ASSUME NEW r \in Runs, ListCatalog(r) PROVE CatalogInv'
  <2>1. UNCHANGED <<vendor, now, cache>>
    BY <1>1 DEF ListCatalog
  <2>2. CASE Warm
    BY <1>1, <2>2, CatalogFrame DEF ListCatalog, Go, catalogVars
  <2>3. CASE ~Warm
    <3>1. fetch' = [fetch EXCEPT ![r] = [began |-> now, names |-> {}, at |-> 0]]
          /\ pc' = [pc EXCEPT ![r] = "fetching"]
      BY <1>1, <2>3 DEF ListCatalog, Go, NoFetch
    <3>2. fetch' \in [Runs -> [began : Nat, names : SUBSET UNION Catalogs, at : Nat]]
      BY <3>1 DEF CatalogInv
    <3>3. fetch'[r].began = now /\ \A q \in Runs \ {r} : fetch'[q] = fetch[q] /\ pc'[q] = pc[q]
      BY <3>1 DEF CatalogInv, SessionInv
    <3> QED
      BY <2>1, <3>1, <3>2, <3>3 DEF CatalogInv, SessionInv
  <2> QED
    BY <2>2, <2>3
<1>2. ASSUME NEW r \in Runs, VendorAnswers(r) PROVE CatalogInv'
  <2>1. pc[r] = "fetching" /\ pc' = [pc EXCEPT ![r] = "fetched"] /\ UNCHANGED <<vendor, now, cache>>
        /\ fetch' = [fetch EXCEPT ![r] = [began |-> fetch[r].began, names |-> vendor, at |-> now]]
    BY <1>2 DEF VendorAnswers, Go, CatalogInv
  <2>2. fetch' \in [Runs -> [began : Nat, names : SUBSET UNION Catalogs, at : Nat]]
    BY <2>1 DEF CatalogInv
  <2>3. fetch'[r].began <= fetch'[r].at
        /\ \A q \in Runs \ {r} : fetch'[q] = fetch[q] /\ pc'[q] = pc[q]
    BY <2>1 DEF CatalogInv, SessionInv
  <2> QED
    BY <2>1, <2>2, <2>3 DEF CatalogInv, SessionInv
<1>3. ASSUME NEW r \in Runs, VendorFails(r) \/ FetchReturns(r) PROVE CatalogInv'
  <2>1. fetch' = [fetch EXCEPT ![r] = NoFetch] /\ UNCHANGED <<vendor, now>>
        /\ \E to \in {"ended", "merge"} : pc' = [pc EXCEPT ![r] = to]
    BY <1>3 DEF VendorFails, FetchReturns, Go, End, Drop
  <2>2. fetch' \in [Runs -> [began : Nat, names : SUBSET UNION Catalogs, at : Nat]]
        /\ pc'[r] \notin {"fetching", "fetched"}
        /\ \A q \in Runs \ {r} : fetch'[q] = fetch[q] /\ pc'[q] = pc[q]
    BY <2>1 DEF CatalogInv, SessionInv, NoFetch
  <2>3. CASE VendorFails(r)
    BY <2>1, <2>2, <2>3 DEF VendorFails, CatalogInv
  <2>4. CASE FetchReturns(r)
    <3>1. pc[r] = "fetched"
          /\ cache' = [names |-> fetch[r].names, at |-> fetch[r].at, expires |-> fetch[r].began + TTL]
      BY <2>4 DEF FetchReturns, Expiry
    <3>2. fetch[r].began <= fetch[r].at /\ fetch[r].began \in Nat /\ fetch[r].at \in Nat
          /\ fetch[r].names \subseteq UNION Catalogs
      BY <3>1 DEF CatalogInv
    <3>3. /\ cache'.at \in Nat /\ cache'.expires \in Nat /\ cache'.expires <= cache'.at + TTL
          /\ cache'.names \subseteq UNION Catalogs
      BY <3>1, <3>2
    <3> QED
      BY <2>1, <2>2, <3>3 DEF CatalogInv
  <2> QED
    BY <1>3, <2>3, <2>4
<1>4. ASSUME NEW r \in Runs, UseSession(r) \/ ListPage(r) \/ AskServer(r) PROVE CatalogInv'
  <2>1. UNCHANGED catalogVars
    BY <1>4 DEF UseSession, ListPage, AskServer
  <2>2. pc' = pc \/ \E to \in {"page", "asking", "catalog", "ended"} : pc' = [pc EXCEPT ![r] = to]
    BY <1>4 DEF UseSession, ListPage, AskServer, Work, Go, End
  <2>3. CASE pc' = pc
    BY <2>1, <2>3 DEF CatalogInv, catalogVars
  <2> QED
    BY <2>1, <2>2, <2>3, CatalogFrame
<1>5. ASSUME NEW r \in Runs,
             \/ List(r) \/ Connect(r) \/ Connected(r) \/ ConnectFails(r) \/ AskVendor(r) \/ VendorExecutes(r)
             \/ Initiate(r) \/ ReadAccount(r) \/ CheckedStatus(r)
      PROVE CatalogInv'
  <2>1. UNCHANGED catalogVars
    BY <1>5 DEF List, Connect, Connected, ConnectFails, AskVendor, VendorExecutes,
                Initiate, ReadAccount, CheckedStatus
  <2>2. \E to \in RunPlaces \ {"fetching", "fetched"} : pc' = [pc EXCEPT ![r] = to]
    BY <1>5 DEF List, Connect, Connected, ConnectFails, AskVendor, VendorExecutes,
                Initiate, ReadAccount, CheckedStatus, Work, Go, End, RunPlaces
  <2> QED
    BY <2>1, <2>2, CatalogFrame
<1>6. ASSUME NEW r \in Runs, EndListing(r) \/ (\E name : Call(r, name))
                             \/ (\E owner, status : Adopt(r, owner, status))
      PROVE CatalogInv'
  <2>1. UNCHANGED catalogVars
    BY <1>6 DEF EndListing, Call, Adopt
  <2>2. \E to \in RunPlaces \ {"fetching", "fetched"} : pc' = [pc EXCEPT ![r] = to]
    BY <1>6 DEF EndListing, Call, Adopt, Dispatch, Go, End, RunPlaces
  <2> QED
    BY <2>1, <2>2, CatalogFrame
<1>7. CASE VendorChanges
  BY <1>7 DEF VendorChanges, CatalogInv
<1>8. CASE Tick
  BY <1>8 DEF Tick, CatalogInv
<1>9. CASE Close \/ (\E s \in closing : Closed(s)) \/ (\E r \in Runs : Settles(r)) \/ UNCHANGED vars
  <2>1. UNCHANGED catalogVars /\ UNCHANGED pc
    BY <1>9 DEF Close, Closed, Settles, vars
  <2> QED
    BY <2>1 DEF CatalogInv, catalogVars
<1> QED
  BY <1>1, <1>2, <1>3, <1>4, <1>5, <1>6, <1>7, <1>8, <1>9 DEF Next, RunStep

LEMMA CatalogInit == Init => CatalogInv
<1> SUFFICES ASSUME Init PROVE CatalogInv
  OBVIOUS
<1>1. /\ pc = [r \in Runs |-> "start"] /\ vendor \in Catalogs /\ now = 0
      /\ cache = [names |-> {}, at |-> 0, expires |-> 0]
      /\ fetch = [r \in Runs |-> [began |-> 0, names |-> {}, at |-> 0]]
  BY DEF Init, NoFetch
<1> QED
  BY <1>1, SourcesAssumption DEF CatalogInv

\* A cached catalog answers for no longer than the lifetime after it was the
\* toolkit's, whatever order the fetches of the runs return in (composio.py).
THEOREM CatalogIsFreshAlways == Spec => []CatalogIsFresh
<1>1. CatalogInv => CatalogIsFresh
  BY SourcesAssumption DEF CatalogInv, CatalogIsFresh, Warm
<1> QED
  BY <1>1, SessionInit, SessionStep, CatalogInit, CatalogStep, PTL DEF Spec

-----------------------------------------------------------------------------
(* The routes *)

Complete == {"catalog", "fetching", "fetched", "merge"}

\* A step of r that leaves its listing alone or gives it up.
LEMMA ListingFrame ==
  ASSUME SessionInv, ListingInv, NEW r \in Runs,
         (tools' = tools /\ pc[r] # "ready") \/ tools' = [tools EXCEPT ![r] = {}],
         (page' = page /\ pc[r] # "page") \/ page' = [page EXCEPT ![r] = 1],
         NEW to, to \notin Complete, pc' = [pc EXCEPT ![r] = to]
  PROVE  ListingInv'
<1>0. 1 \in 1..Len(McpTools)
  BY SourcesAssumption
<1>1. /\ page' \in [Runs -> 1..Len(McpTools)]
      /\ tools' \in [Runs -> SUBSET (Names \X {"mcp", "composio", "workspace"})]
  BY <1>0 DEF ListingInv
<1>2. \A q \in Runs \ {r} : pc'[q] = pc[q] /\ tools'[q] = tools[q] /\ page'[q] = page[q]
  BY DEF ListingInv, SessionInv
<1>3. pc'[r] = to /\ page'[r] = 1
      /\ tools'[r] \subseteq From("mcp", McpNames) \cup From("composio", UNION Catalogs)
  BY DEF ListingInv, SessionInv
<1>4. \A i \in 1..(page'[r] - 1) : FALSE
  BY <1>3
<1> QED
  BY <1>1, <1>2, <1>3, <1>4 DEF ListingInv, Complete

\* A step of r that adds to its listing what a source offers.
LEMMA ListingGrows ==
  ASSUME SessionInv, ListingInv, NEW r \in Runs, pc[r] \in Complete, UNCHANGED page,
         NEW more \in SUBSET From("composio", UNION Catalogs),
         tools' = [tools EXCEPT ![r] = @ \cup more],
         NEW to \in Complete, pc' = [pc EXCEPT ![r] = to]
  PROVE  ListingInv'
<1>1. more \subseteq Names \X {"mcp", "composio", "workspace"}
  BY DEF From, Names
<1>2. tools' \in [Runs -> SUBSET (Names \X {"mcp", "composio", "workspace"})]
  BY <1>1 DEF ListingInv
<1>3. \A q \in Runs \ {r} : pc'[q] = pc[q] /\ tools'[q] = tools[q]
  BY DEF ListingInv, SessionInv
<1>4. pc'[r] = to /\ tools'[r] = tools[r] \cup more
  BY DEF ListingInv, SessionInv
<1> QED
  BY <1>2, <1>3, <1>4 DEF ListingInv, Complete

LEMMA McpPages ==
  /\ \A i \in 1..Len(McpTools) : From("mcp", McpTools[i]) \subseteq From("mcp", McpNames)
  /\ \A p \in From("mcp", McpNames) : \E i \in 1..Len(McpTools) : p \in From("mcp", McpTools[i])
BY SourcesAssumption DEF From, McpNames, Range

LEMMA ListPageStep ==
  ASSUME SessionInv, ListingInv, NEW r \in Runs, ListPage(r)
  PROVE  ListingInv'
<1>1. pc[r] = "page"
  BY DEF ListPage
<1>2. CASE mine[r] \notin open \ closing
  BY <1>1, <1>2, ListingFrame DEF ListPage, End, Drop, Complete
<1>3. CASE mine[r] \in open \ closing
  <2> DEFINE new == From("mcp", McpTools[page[r]])
  <2>1. tools' = [tools EXCEPT ![r] = @ \cup new]
    BY <1>3 DEF ListPage
  <2>2. page[r] \in 1..Len(McpTools) /\ Len(McpTools) \in Nat
    BY SourcesAssumption DEF ListingInv
  <2>3. new \subseteq From("mcp", McpNames)
    BY <2>2, McpPages
  <2>4. new \subseteq Names \X {"mcp", "composio", "workspace"}
    BY <2>3 DEF From, Names
  <2> HIDE DEF new
  <2>5. tools' \in [Runs -> SUBSET (Names \X {"mcp", "composio", "workspace"})]
    BY <2>1, <2>4 DEF ListingInv
  <2>6. tools'[r] = tools[r] \cup new /\ \A q \in Runs \ {r} : tools'[q] = tools[q]
    BY <2>1 DEF ListingInv
  <2>7. tools'[r] \subseteq From("mcp", McpNames) \cup From("composio", UNION Catalogs)
    BY <1>1, <2>3, <2>6 DEF ListingInv
  <2>8. \A i \in 1..page[r] : From("mcp", McpTools[i]) \subseteq tools'[r]
    <3> SUFFICES ASSUME NEW i \in 1..page[r] PROVE From("mcp", McpTools[i]) \subseteq tools'[r]
      OBVIOUS
    <3>1. CASE i = page[r]
      BY <3>1, <2>6 DEF new
    <3>2. CASE i # page[r]
      BY <1>1, <3>2, <2>2, <2>6 DEF ListingInv
    <3> QED
      BY <3>1, <3>2
  <2>9. CASE page[r] < Len(McpTools)
    <3>1. page' = [page EXCEPT ![r] = @ + 1] /\ UNCHANGED pc
      BY <1>3, <2>9 DEF ListPage
    <3>2. page' \in [Runs -> 1..Len(McpTools)] /\ page'[r] = page[r] + 1
          /\ \A q \in Runs \ {r} : page'[q] = page[q]
      BY <3>1, <2>2, <2>9 DEF ListingInv
    <3>3. \A i \in 1..(page'[r] - 1) : From("mcp", McpTools[i]) \subseteq tools'[r]
      BY <2>2, <2>8, <3>2
    <3> QED
      BY <1>1, <2>5, <2>6, <2>7, <3>1, <3>2, <3>3 DEF ListingInv
  <2>10. CASE ~(page[r] < Len(McpTools))
    <3>1. page' = [page EXCEPT ![r] = 1] /\ pc' = [pc EXCEPT ![r] = "catalog"]
      BY <1>3, <2>10 DEF ListPage, Drop, Go
    <3>2. page' \in [Runs -> 1..Len(McpTools)] /\ page'[r] = 1 /\ pc'[r] = "catalog"
          /\ \A q \in Runs \ {r} : page'[q] = page[q] /\ pc'[q] = pc[q]
      BY <3>1, <2>2 DEF ListingInv, SessionInv
    <3>3. page[r] = Len(McpTools)
      BY <2>2, <2>10
    <3>4. From("mcp", McpNames) \subseteq tools'[r]
      BY <2>8, <3>3, McpPages
    <3> QED
      BY <2>5, <2>6, <2>7, <3>2, <3>4 DEF ListingInv
  <2> QED
    BY <2>9, <2>10
<1> QED
  BY <1>2, <1>3

\* What the end of a listing merges.
All(r) == tools[r] \cup From("workspace", IF r \in HasWorkspace THEN WorkspaceNames ELSE {})
Collides(r) == \E p, q \in All(r) : p[1] = q[1] /\ p # q

LEMMA EndListingStep ==
  ASSUME SessionInv, ListingInv, NEW r \in Runs, EndListing(r)
  PROVE  ListingInv'
<1>1. pc[r] = "merge" /\ UNCHANGED page
  BY DEF EndListing, mcpVars
<1>2. CASE Collides(r) \/ called[r] # ""
  <2> DEFINE all == All(r)
  <2>0. IF \E p, q \in all : p[1] = q[1] /\ p # q THEN End(r)
        ELSE IF called[r] # "" THEN Dispatch(r, called[r], Merged(all))
        ELSE Go(r, "ready") /\ tools' = [tools EXCEPT ![r] = all] /\ UNCHANGED <<doing, called>>
    BY DEF EndListing, All
  <2> HIDE DEF all
  <2>1. End(r) \/ Dispatch(r, called[r], Merged(all))
    BY <1>2, <2>0 DEF all, Collides
  <2>2. tools' = [tools EXCEPT ![r] = {}]
        /\ \E to \in {"ended", "session", "executing"} : pc' = [pc EXCEPT ![r] = to]
    BY <2>1 DEF Dispatch, End, Go, Drop
  <2> QED
    BY <1>1, <2>2, ListingFrame DEF Complete
<1>3. CASE ~(Collides(r) \/ called[r] # "")
  <2>1. pc' = [pc EXCEPT ![r] = "ready"] /\ tools' = [tools EXCEPT ![r] = All(r)]
    BY <1>3 DEF EndListing, Go, All, Collides
  <2>2. All(r) \subseteq Names \X {"mcp", "composio", "workspace"}
    <3>1. tools[r] \subseteq Names \X {"mcp", "composio", "workspace"}
      BY DEF ListingInv
    <3>2. ASSUME NEW names \in SUBSET WorkspaceNames
          PROVE  From("workspace", names) \subseteq Names \X {"mcp", "composio", "workspace"}
      <4>1. \A n \in names : n \in Names
        BY DEF Names
      <4> QED
        BY <4>1 DEF From
    <3> QED
      BY <3>1, <3>2 DEF All
  <2>3. tools' \in [Runs -> SUBSET (Names \X {"mcp", "composio", "workspace"})]
    BY <2>1, <2>2 DEF ListingInv
  <2>4. pc'[r] = "ready" /\ \A q \in Runs \ {r} : tools'[q] = tools[q] /\ pc'[q] = pc[q]
    BY <2>1 DEF ListingInv, SessionInv
  <2> QED
    BY <1>1, <2>3, <2>4 DEF ListingInv
<1> QED
  BY <1>2, <1>3

LEMMA ListingStep == SessionInv /\ CatalogInv /\ ListingInv /\ [Next]_vars => ListingInv'
<1> SUFFICES ASSUME SessionInv, CatalogInv, ListingInv, [Next]_vars PROVE ListingInv'
  OBVIOUS
<1> USE DEF runVars, mcpVars
<1>1. ASSUME NEW r \in Runs, ListPage(r) \/ EndListing(r) PROVE ListingInv'
  BY <1>1, ListPageStep, EndListingStep
<1>2. ASSUME NEW r \in Runs, ListCatalog(r) \/ FetchReturns(r) PROVE ListingInv'
  <2>1. pc[r] \in {"catalog", "fetched"} /\ UNCHANGED page
    BY <1>2 DEF ListCatalog, FetchReturns
  <2>2. cache.names \subseteq UNION Catalogs /\ fetch[r].names \subseteq UNION Catalogs
    BY DEF CatalogInv
  <2>3. \A names \in SUBSET UNION Catalogs :
          From("composio", names) \subseteq From("composio", UNION Catalogs)
    BY DEF From
  <2>4. CASE ListCatalog(r) /\ ~Warm
    <3>1. pc' = [pc EXCEPT ![r] = "fetching"] /\ UNCHANGED tools
      BY <2>4 DEF ListCatalog, Go
    <3>2. \E more \in SUBSET From("composio", UNION Catalogs) : tools' = [tools EXCEPT ![r] = @ \cup more]
      <4>1. tools' = [tools EXCEPT ![r] = @ \cup {}]
        BY <3>1 DEF ListingInv
      <4> QED
        BY <4>1
    <3> QED
      BY <2>1, <3>1, <3>2, ListingGrows DEF Complete
  <2>5. CASE ListCatalog(r) /\ Warm
    <3>1. pc' = [pc EXCEPT ![r] = "merge"]
          /\ tools' = [tools EXCEPT ![r] = @ \cup From("composio", cache.names)]
      BY <2>5 DEF ListCatalog, Go
    <3> QED
      BY <2>1, <2>2, <2>3, <3>1, ListingGrows DEF Complete
  <2>6. CASE FetchReturns(r)
    <3>1. pc' = [pc EXCEPT ![r] = "merge"]
          /\ tools' = [tools EXCEPT ![r] = @ \cup From("composio", fetch[r].names)]
      BY <2>6 DEF FetchReturns, Go
    <3> QED
      BY <2>1, <2>2, <2>3, <3>1, ListingGrows DEF Complete
  <2> QED
    BY <1>2, <2>4, <2>5, <2>6
<1>3. ASSUME NEW r \in Runs, VendorAnswers(r) PROVE ListingInv'
  <2>1. pc[r] = "fetching" /\ pc' = [pc EXCEPT ![r] = "fetched"] /\ UNCHANGED <<page, tools>>
    BY <1>3 DEF VendorAnswers, Go
  <2>2. \E more \in SUBSET From("composio", UNION Catalogs) : tools' = [tools EXCEPT ![r] = @ \cup more]
    <3>1. tools' = [tools EXCEPT ![r] = @ \cup {}]
      BY <2>1 DEF ListingInv
    <3> QED
      BY <3>1
  <2> QED
    BY <2>1, <2>2, ListingGrows DEF Complete
<1>4. ASSUME NEW r \in Runs,
             \/ List(r) \/ Connect(r) \/ Connected(r) \/ UseSession(r) \/ ConnectFails(r) \/ VendorFails(r)
             \/ AskServer(r) \/ AskVendor(r) \/ VendorExecutes(r)
             \/ Initiate(r) \/ ReadAccount(r) \/ CheckedStatus(r)
      PROVE ListingInv'
  <2>1. UNCHANGED page /\ pc[r] \notin {"page", "ready"}
    BY <1>4 DEF List, Connect, Connected, UseSession, ConnectFails, VendorFails, AskServer, AskVendor,
                VendorExecutes, Initiate, ReadAccount, CheckedStatus
  <2>2. UNCHANGED tools \/ tools' = [tools EXCEPT ![r] = {}]
    BY <1>4 DEF List, Connect, Connected, UseSession, ConnectFails, VendorFails, AskServer, AskVendor,
                VendorExecutes, Initiate, ReadAccount, CheckedStatus, End, Drop
  <2>3. \E to \in RunPlaces \ Complete : pc' = [pc EXCEPT ![r] = to]
    BY <1>4 DEF List, Connect, Connected, UseSession, ConnectFails, VendorFails, AskServer, AskVendor,
                VendorExecutes, Initiate, ReadAccount, CheckedStatus, Work, Go, End, RunPlaces, Complete
  <2> QED
    BY <2>1, <2>2, <2>3, ListingFrame
<1>5. ASSUME NEW r \in Runs, NEW name, Call(r, name) PROVE ListingInv'
  <2>1. UNCHANGED page /\ pc[r] # "page" /\ tools' = [tools EXCEPT ![r] = {}]
    BY <1>5 DEF Call, Dispatch, End, Drop
  <2>2. \E to \in RunPlaces \ Complete : pc' = [pc EXCEPT ![r] = to]
    BY <1>5 DEF Call, Dispatch, End, Go, RunPlaces, Complete
  <2> QED
    BY <2>1, <2>2, ListingFrame
<1>6. ASSUME NEW r \in Runs, NEW owner, NEW status, Adopt(r, owner, status) PROVE ListingInv'
  <2>1. UNCHANGED <<page, tools>> /\ pc[r] = "start" /\ pc' = [pc EXCEPT ![r] = "polling"]
    BY <1>6 DEF Adopt, Go
  <2> QED
    BY <2>1, ListingFrame DEF Complete
<1>7. CASE \/ Close \/ (\E s \in closing : Closed(s)) \/ (\E r \in Runs : Settles(r))
           \/ VendorChanges \/ Tick \/ UNCHANGED vars
  <2>1. UNCHANGED <<pc, tools, page>>
    BY <1>7 DEF Close, Closed, Settles, VendorChanges, Tick, vars
  <2> QED
    BY <2>1 DEF ListingInv
<1> QED
  BY <1>1, <1>2, <1>3, <1>4, <1>5, <1>6, <1>7 DEF Next, RunStep

LEMMA ListingInit == Init => ListingInv
<1> SUFFICES ASSUME Init PROVE ListingInv
  OBVIOUS
<1>1. /\ pc = [r \in Runs |-> "start"] /\ tools = [r \in Runs |-> {}] /\ page = [r \in Runs |-> 1]
  BY DEF Init
<1>2. 1 \in 1..Len(McpTools)
  BY SourcesAssumption
<1> QED
  BY <1>1, <1>2 DEF ListingInv

\* A listing with no collision gives each name the source that owns it.
LEMMA AllOwned ==
  ASSUME ListingInv, NEW r \in Runs, pc[r] = "merge", ~Collides(r)
  PROVE  \A p \in All(r) : Owns(p[2], p[1])
<1>1. From("mcp", McpNames) \subseteq All(r)
  BY DEF ListingInv, All
<1>2. \A n \in McpNames : <<n, "mcp">> \in All(r)
  BY <1>1 DEF From
<1>3. r \in HasWorkspace => \A n \in WorkspaceNames : <<n, "workspace">> \in All(r)
  BY DEF From, All
<1>4. \A p, q \in All(r) : p[1] = q[1] => p = q
  BY DEF Collides
<1> HIDE DEF All
<1>5. ASSUME NEW p \in From("mcp", McpNames) PROVE Owns(p[2], p[1])
  BY DEF From, Owns
<1>6. ASSUME NEW p \in From("composio", UNION Catalogs), p \in All(r) PROVE Owns(p[2], p[1])
  <2>1. PICK n \in UNION Catalogs : p = <<n, "composio">>
    BY DEF From
  <2>2. n \notin McpNames
    BY <1>2, <1>4, <1>6, <2>1
  <2>3. r \in HasWorkspace => n \notin WorkspaceNames
    BY <1>3, <1>4, <1>6, <2>1
  <2> QED
    BY <2>1, <2>2, <2>3 DEF Owns
<1>7. ASSUME NEW p \in From("workspace", WorkspaceNames), p \in All(r), r \in HasWorkspace
      PROVE Owns(p[2], p[1])
  <2>1. PICK n \in WorkspaceNames : p = <<n, "workspace">>
    BY DEF From
  <2>2. n \notin McpNames
    BY <1>2, <1>4, <1>7, <2>1
  <2> QED
    BY <2>1, <2>2, <1>7 DEF Owns
<1>8. \A p \in All(r) :
        \/ p \in From("mcp", McpNames)
        \/ p \in From("composio", UNION Catalogs)
        \/ r \in HasWorkspace /\ p \in From("workspace", WorkspaceNames)
  <2>1. tools[r] \subseteq From("mcp", McpNames) \cup From("composio", UNION Catalogs)
    BY DEF ListingInv
  <2>2. From("workspace", {}) = {}
    BY DEF From
  <2> QED
    BY <2>1, <2>2 DEF All
<1> QED
  BY <1>5, <1>6, <1>7, <1>8

\* Merging gives the names of a listing their owners, and keeps the others'.
LEMMA MergedOwned ==
  ASSUME RouteInv, NEW r \in Runs, \A p \in All(r) : Owns(p[2], p[1])
  PROVE  /\ DOMAIN Merged(All(r)) = {p[1] : p \in All(r)} \cup DOMAIN routes
         /\ \A n \in DOMAIN Merged(All(r)) : Owns(Merged(All(r))[n], n)
<1> DEFINE all == All(r)
           owned == Owned(all)
<1>1. DOMAIN owned = {p[1] : p \in all}
  BY DEF Owned
<1>2. ASSUME NEW n \in DOMAIN owned PROVE Owns(owned[n], n)
  <2>1. PICK p \in all : p[1] = n
    BY <1>1
  <2> DEFINE c == CHOOSE q \in all : q[1] = n
  <2>2. c \in all /\ c[1] = n
    BY <2>1
  <2>3. owned[n] = c[2]
    BY <1>1 DEF Owned
  <2> QED
    BY <2>2, <2>3
<1>3. Merged(all) = [n \in DOMAIN owned \cup DOMAIN routes |-> IF n \in DOMAIN owned THEN owned[n] ELSE routes[n]]
  BY DEF Merged
<1> HIDE DEF owned, all
<1>4. DOMAIN Merged(all) = DOMAIN owned \cup DOMAIN routes
  BY <1>3
<1>5. ASSUME NEW n \in DOMAIN Merged(all) PROVE Owns(Merged(all)[n], n)
  <2>1. Merged(all)[n] = IF n \in DOMAIN owned THEN owned[n] ELSE routes[n]
    BY <1>3, <1>4, <1>5
  <2> QED
    BY <1>2, <1>4, <2>1 DEF RouteInv
<1>6. \A n \in DOMAIN Merged(all) : Owns(Merged(all)[n], n)
  BY <1>5
<1>7. DOMAIN Merged(all) = {p[1] : p \in all} \cup DOMAIN routes
  BY <1>1, <1>4
<1> QED
  BY <1>6, <1>7 DEF all

\* A step of r that lets no tool be called that was not before.
LEMMA RouteFrame ==
  ASSUME RouteInv, SessionInv, ListingInv, UNCHANGED routes, NEW r \in Runs,
         tools' = tools \/ \E t : tools' = [tools EXCEPT ![r] = t],
         (pc' = pc /\ pc[r] # "ready") \/ \E to : to # "ready" /\ pc' = [pc EXCEPT ![r] = to]
  PROVE  RouteInv'
<1>1. \A q \in Runs : pc'[q] = "ready" => pc[q] = "ready" /\ tools'[q] = tools[q]
  BY DEF SessionInv, ListingInv
<1> QED
  BY <1>1 DEF RouteInv

LEMMA RouteStep == SessionInv /\ ListingInv /\ RouteInv /\ [Next]_vars => RouteInv'
<1> SUFFICES ASSUME SessionInv, ListingInv, RouteInv, [Next]_vars PROVE RouteInv'
  OBVIOUS
<1> USE DEF runVars, mcpVars
<1>1. ASSUME NEW r \in Runs, EndListing(r) PROVE RouteInv'
  <2> DEFINE all == All(r)
  <2>1. pc[r] = "merge"
    BY <1>1 DEF EndListing
  <2>2. /\ routes' = IF \E p, q \in all : p[1] = q[1] /\ p # q THEN routes ELSE Merged(all)
        /\ IF \E p, q \in all : p[1] = q[1] /\ p # q THEN End(r)
           ELSE IF called[r] # "" THEN Dispatch(r, called[r], Merged(all))
           ELSE Go(r, "ready") /\ tools' = [tools EXCEPT ![r] = all] /\ UNCHANGED <<doing, called>>
    BY <1>1 DEF EndListing, All
  <2> HIDE DEF all
  <2>3. CASE Collides(r)
    <3>1. UNCHANGED routes /\ End(r)
      BY <2>2, <2>3 DEF Collides, all
    <3>2. tools' = [tools EXCEPT ![r] = {}] /\ pc' = [pc EXCEPT ![r] = "ended"]
      BY <3>1 DEF End, Drop
    <3>3. "ended" # "ready"
      OBVIOUS
    <3> QED
      BY <3>1, <3>2, <3>3, RouteFrame
  <2>4. CASE ~Collides(r)
    <3>1. routes' = Merged(all)
      BY <2>2, <2>4 DEF Collides, all
    <3>2. \A p \in all : Owns(p[2], p[1])
      BY <2>1, <2>4, AllOwned DEF all
    <3>3. /\ DOMAIN routes' = {p[1] : p \in all} \cup DOMAIN routes
          /\ \A n \in DOMAIN routes' : Owns(routes'[n], n)
      BY <3>1, <3>2, MergedOwned DEF all
    <3>4. \E to, t : /\ pc' = [pc EXCEPT ![r] = to] /\ tools' = [tools EXCEPT ![r] = t]
                     /\ to = "ready" => t = all
      <4>1. CASE called[r] # ""
        <5>1. Dispatch(r, called[r], Merged(all))
          BY <2>2, <2>4, <4>1 DEF Collides, all
        <5>2. tools' = [tools EXCEPT ![r] = {}]
              /\ \E to \in {"ended", "session", "executing"} : pc' = [pc EXCEPT ![r] = to]
          BY <5>1 DEF Dispatch, End, Go, Drop
        <5> QED
          BY <5>2
      <4>2. CASE called[r] = ""
        BY <2>2, <2>4, <4>2 DEF Collides, all, Go
      <4> QED
        BY <4>1, <4>2
    <3>5. \A q \in Runs \ {r} : pc'[q] = pc[q] /\ tools'[q] = tools[q]
      BY <3>4 DEF SessionInv, ListingInv
    <3>6. pc'[r] = "ready" => tools'[r] = all
      BY <3>4 DEF SessionInv, ListingInv
    <3> QED
      BY <3>2, <3>3, <3>5, <3>6 DEF RouteInv
  <2> QED
    BY <2>3, <2>4
<1>2. ASSUME NEW r \in Runs,
             \/ List(r) \/ Connect(r) \/ Connected(r) \/ UseSession(r) \/ ConnectFails(r)
             \/ VendorAnswers(r) \/ VendorFails(r) \/ FetchReturns(r)
             \/ AskServer(r) \/ AskVendor(r) \/ VendorExecutes(r)
             \/ Initiate(r) \/ ReadAccount(r) \/ CheckedStatus(r)
      PROVE RouteInv'
  <2>1. UNCHANGED routes
    BY <1>2 DEF List, Connect, Connected, UseSession, ConnectFails, VendorAnswers, VendorFails, FetchReturns,
                AskServer, AskVendor, VendorExecutes, Initiate, ReadAccount, CheckedStatus
  <2>2. UNCHANGED tools \/ \E t : tools' = [tools EXCEPT ![r] = t]
    BY <1>2 DEF List, Connect, Connected, UseSession, ConnectFails, VendorAnswers, VendorFails, FetchReturns,
                AskServer, AskVendor, VendorExecutes, Initiate, ReadAccount, CheckedStatus, End, Drop
  <2>3. \E to \in RunPlaces \ {"ready"} : pc' = [pc EXCEPT ![r] = to]
    BY <1>2 DEF List, Connect, Connected, UseSession, ConnectFails, VendorAnswers, VendorFails, FetchReturns,
                AskServer, AskVendor, VendorExecutes, Initiate, ReadAccount, CheckedStatus, Work, Go, End, RunPlaces
  <2> QED
    BY <2>1, <2>2, <2>3, RouteFrame
<1>3. ASSUME NEW r \in Runs, ListPage(r) \/ ListCatalog(r) PROVE RouteInv'
  <2>1. UNCHANGED routes /\ pc[r] # "ready"
    BY <1>3 DEF ListPage, ListCatalog
  <2>2. UNCHANGED tools \/ \E t : tools' = [tools EXCEPT ![r] = t]
    BY <1>3 DEF ListPage, ListCatalog, End, Drop
  <2>3. UNCHANGED pc \/ \E to \in RunPlaces \ {"ready"} : pc' = [pc EXCEPT ![r] = to]
    BY <1>3 DEF ListPage, ListCatalog, Go, End, RunPlaces
  <2> QED
    BY <2>1, <2>2, <2>3, RouteFrame
<1>4. ASSUME NEW r \in Runs, NEW name, Call(r, name) PROVE RouteInv'
  <2>1. UNCHANGED routes /\ tools' = [tools EXCEPT ![r] = {}]
    BY <1>4 DEF Call, Dispatch, End, Drop
  <2>2. \E to \in RunPlaces \ {"ready"} : pc' = [pc EXCEPT ![r] = to]
    BY <1>4 DEF Call, Dispatch, End, Go, RunPlaces
  <2> QED
    BY <2>1, <2>2, RouteFrame
<1>5. ASSUME NEW r \in Runs, NEW owner, NEW status, Adopt(r, owner, status) PROVE RouteInv'
  <2>1. UNCHANGED <<routes, tools>> /\ pc' = [pc EXCEPT ![r] = "polling"]
    BY <1>5 DEF Adopt, Go
  <2> QED
    BY <2>1, RouteFrame
<1>6. CASE \/ Close \/ (\E s \in closing : Closed(s)) \/ (\E r \in Runs : Settles(r))
           \/ VendorChanges \/ Tick \/ UNCHANGED vars
  <2>1. UNCHANGED <<pc, tools, routes>>
    BY <1>6 DEF Close, Closed, Settles, VendorChanges, Tick, vars
  <2> QED
    BY <2>1 DEF RouteInv
<1> QED
  BY <1>1, <1>2, <1>3, <1>4, <1>5, <1>6 DEF Next, RunStep

\* No toolkit offers, to a context without a workspace, a name that another
\* context has from its workspace.
OwnershipIsStable == HasWorkspace \in {{}, Runs} \/ WorkspaceNames \cap (UNION Catalogs) = {}

\* "Name->source ownership is stable for a fixed source set, so merging is safe"
\* (tools/aggregate.py:45): while ownership is stable, what a run was listed
\* stays routed to the source that listed it. The server and the toolkit may
\* offer one name; a listing refuses it.
THEOREM RoutesStayAlways == ASSUME OwnershipIsStable PROVE Spec => []RoutesStay
<1>1. Init => RouteInv
  BY DEF Init, RouteInv
<1>2. ASSUME NEW n, NEW s, NEW o, Owns(s, n), Owns(o, n) PROVE s = o
  BY <1>2, OwnershipIsStable DEF Owns, OwnershipIsStable
<1>3. RouteInv => RoutesStay
  BY <1>2 DEF RouteInv, RoutesStay
<1> QED
  BY <1>1, <1>3, SessionInit, SessionStep, CatalogInit, CatalogStep, ListingInit, ListingStep, RouteStep, PTL
  DEF Spec

\* Every member of a finite set of numbers has a rank of its own, from 1 to
\* their count, in their order.
LEMMA Ranks ==
  ASSUME NEW S, S \subseteq Nat, IsFiniteSet(S)
  PROVE  /\ \A x \in S : Cardinality({y \in S : y <= x}) \in 1..Cardinality(S)
         /\ \A x, z \in S : x < z => Cardinality({y \in S : y <= x}) < Cardinality({y \in S : y <= z})
         /\ \A i \in 1..Cardinality(S) : \E x \in S : Cardinality({y \in S : y <= x}) = i
<1> DEFINE Below(x) == {y \in S : y <= x}
           rank == [x \in S |-> Cardinality(Below(x))]
           n == Cardinality(S)
<1>1. n \in Nat
  BY FS_CardinalityType
<1>2. \A x \in S : IsFiniteSet(Below(x)) /\ rank[x] \in 1..n
  <2> TAKE x \in S
  <2>1. Below(x) \in SUBSET S
    OBVIOUS
  <2>2. IsFiniteSet(Below(x)) /\ Cardinality(Below(x)) <= n
    BY <2>1, FS_Subset
  <2>3. x \in Below(x)
    OBVIOUS
  <2>4. Cardinality(Below(x)) \in Nat
    BY <2>2, FS_CardinalityType
  <2>5. Cardinality(Below(x)) # 0
    BY <2>2, <2>3, FS_EmptySet
  <2> HIDE DEF Below
  <2> QED
    BY <2>2, <2>4, <2>5, <1>1
<1>3. \A x, z \in S : x < z => rank[x] < rank[z]
  <2> SUFFICES ASSUME NEW x \in S, NEW z \in S, x < z PROVE rank[x] < rank[z]
    OBVIOUS
  <2>1. x \in Nat /\ z \in Nat
    OBVIOUS
  <2>2. z \in Below(z) /\ Below(x) \in SUBSET (Below(z) \ {z})
    <3>1. \A y \in S : y \in Nat
      OBVIOUS
    <3>2. \A y \in Below(x) : y \in S /\ y < z
      BY <3>1, <2>1
    <3>3. \A y \in Below(x) : y \in Below(z) /\ y # z
      BY <3>1, <3>2, <2>1
    <3>4. z \in Below(z)
      BY <2>1
    <3> HIDE DEF Below
    <3> QED
      BY <3>3, <3>4
  <2>3. IsFiniteSet(Below(z) \ {z}) /\ Cardinality(Below(z) \ {z}) = Cardinality(Below(z)) - 1
    <3> HIDE DEF Below
    <3> QED
      BY <2>2, <1>2, FS_RemoveElement
  <2>4. Cardinality(Below(x)) <= Cardinality(Below(z) \ {z})
    <3> HIDE DEF Below
    <3> QED
      BY <2>2, <2>3, FS_Subset
  <2> HIDE DEF Below
  <2>5. Cardinality(Below(x)) \in Nat /\ Cardinality(Below(z)) \in Nat
    BY <1>2, FS_CardinalityType
  <2> QED
    BY <2>3, <2>4, <2>5
<1>4. rank \in Injection(S, 1..n)
  <2>1. \A x, z \in S : rank[x] = rank[z] => x = z
    <3> SUFFICES ASSUME NEW x \in S, NEW z \in S, x # z PROVE rank[x] # rank[z]
      OBVIOUS
    <3>1. x < z \/ z < x
      OBVIOUS
    <3>2. rank[x] < rank[z] \/ rank[z] < rank[x]
      BY <3>1, <1>3
    <3>3. rank[x] \in Nat /\ rank[z] \in Nat
      <4> HIDE DEF rank, n, Below
      <4> QED
        BY <1>1, <1>2
    <3> HIDE DEF rank
    <3> QED
      BY <3>2, <3>3
  <2>2. rank \in [S -> 1..n]
    BY <1>2
  <2> HIDE DEF rank
  <2> QED
    BY <2>1, <2>2 DEF Injection, IsInjective
<1>5. IsFiniteSet(1..n) /\ Cardinality(1..n) = n
  BY <1>1, FS_Interval
<1>6. rank \in Surjection(S, 1..n)
  BY <1>4, <1>5, FS_Injection
<1>7. \A i \in 1..n : \E x \in S : rank[x] = i
  <2> HIDE DEF rank
  <2> QED
    BY <1>6 DEF Surjection
<1> QED
  BY <1>2, <1>3, <1>7

\* Ascending lists each member of a finite set of numbers once, in order.
LEMMA AscendingLists ==
  ASSUME NEW S, S \subseteq Nat, IsFiniteSet(S)
  PROVE  LET A == Ascending(S) IN
         /\ A \in Seq(S) /\ Len(A) = Cardinality(S)
         /\ \A i \in 1..Len(A) : Cardinality({y \in S : y <= A[i]}) = i
         /\ \A i, j \in 1..Len(A) : i < j => A[i] < A[j]
         /\ \A x \in S : \E i \in 1..Len(A) : A[i] = x
<1> DEFINE A == Ascending(S)
           n == Cardinality(S)
           Rank(x) == Cardinality({y \in S : y <= x})
<1>1. n \in Nat
  BY FS_CardinalityType
<1>2. /\ \A x \in S : Rank(x) \in 1..n
      /\ \A x, z \in S : x < z => Rank(x) < Rank(z)
      /\ \A i \in 1..n : \E x \in S : Rank(x) = i
  BY Ranks
<1>3. A = [i \in 1..n |-> CHOOSE x \in S : Rank(x) = i]
  BY DEF Ascending
<1> HIDE DEF A, Rank
<1>4. \A i \in 1..n : A[i] \in S /\ Rank(A[i]) = i
  BY <1>2, <1>3
<1>5. A \in Seq(S) /\ Len(A) = n
  BY <1>1, <1>3, <1>4
<1>6. \A i, j \in 1..n : i < j => A[i] < A[j]
  <2> SUFFICES ASSUME NEW i \in 1..n, NEW j \in 1..n, i < j PROVE A[i] < A[j]
    OBVIOUS
  <2>1. A[i] \in S /\ A[j] \in S /\ Rank(A[i]) = i /\ Rank(A[j]) = j
    BY <1>4
  <2>2. A[i] \in Nat /\ A[j] \in Nat
    BY <2>1
  <2>3. A[j] < A[i] => j < i
    BY <2>1, <1>2
  <2>4. A[i] # A[j]
    BY <2>1
  <2>5. i \in Nat /\ j \in Nat
    BY <1>1
  <2> QED
    BY <2>2, <2>3, <2>4, <2>5
<1>7. \A x \in S : \E i \in 1..n : A[i] = x
  <2> TAKE x \in S
  <2>1. Rank(x) \in 1..n
    BY <1>2
  <2>2. A[Rank(x)] \in S /\ Rank(A[Rank(x)]) = Rank(x)
    BY <2>1, <1>4
  <2>3. A[Rank(x)] \in Nat /\ x \in Nat
    BY <2>2
  <2>4. ~(A[Rank(x)] < x) /\ ~(x < A[Rank(x)])
    <3>1. ~(Rank(x) < Rank(x))
      BY <2>1, <1>1
    <3> QED
      BY <3>1, <2>2, <1>2
  <2>5. A[Rank(x)] = x
    BY <2>3, <2>4
  <2> QED
    BY <2>1, <2>5
<1> QED
  BY <1>4, <1>5, <1>6, <1>7 DEF A, Rank
\* f lists what s has at the places P, in their order.
PicksOut(s, P, f) ==
  /\ Len(f) = Cardinality(P) /\ Len(Ascending(P)) = Len(f) /\ IsFiniteSet(P)
  /\ \A k \in 1..Len(f) : Ascending(P)[k] \in P /\ f[k] = s[Ascending(P)[k]]
  /\ \A k, l \in 1..Len(f) : k < l => Ascending(P)[k] < Ascending(P)[l]
  /\ \A i \in P : \E k \in 1..Len(f) : Ascending(P)[k] = i

\* Picked keeps the members at the places it is given, in their order.
LEMMA PickedLists ==
  ASSUME NEW S, NEW s \in Seq(S), NEW P, P \subseteq 1..Len(s)
  PROVE  Picked(s, P) \in Seq(S) /\ PicksOut(s, P, Picked(s, P))
<1> DEFINE A == Ascending(P)
           f == Picked(s, P)
<1>1. P \subseteq Nat /\ IsFiniteSet(P)
  <2>1. IsFiniteSet(1..Len(s)) /\ 1..Len(s) \subseteq Nat
    BY FS_Interval
  <2> QED
    BY <2>1, FS_Subset
<1>2. /\ A \in Seq(P) /\ Len(A) = Cardinality(P)
      /\ \A i, j \in 1..Len(A) : i < j => A[i] < A[j]
      /\ \A x \in P : \E i \in 1..Len(A) : A[i] = x
  BY <1>1, AscendingLists
<1> HIDE DEF A
<1>3. f = [k \in 1..Len(A) |-> s[A[k]]]
  BY <1>2 DEF Picked, A
<1>4. \A k \in 1..Len(A) : A[k] \in P /\ s[A[k]] \in S
  <2> TAKE k \in 1..Len(A)
  <2>1. A[k] \in P
    BY <1>2, ElementOfSeq
  <2>2. A[k] \in 1..Len(s)
    BY <2>1
  <2> QED
    BY <2>1, <2>2
<1> HIDE DEF f
<1>5. f \in Seq(S) /\ Len(f) = Len(A)
  BY <1>2, <1>3, <1>4
<1>6. \A k \in 1..Len(f) : A[k] \in P /\ f[k] = s[A[k]]
  BY <1>3, <1>4, <1>5
<1> QED
  BY <1>1, <1>2, <1>5, <1>6 DEF A, f, PicksOut

\* What joining sequences yields piece by piece.
Joined(ss, g) == g = [i \in 1..Len(ss) |-> IF i = 1 THEN ss[i] ELSE g[i - 1] \o ss[i]]

\* A sequence of sequences has a concatenation.
LEMMA JoinedExists ==
  ASSUME NEW S, NEW ss \in Seq(Seq(S))
  PROVE  \E g : Joined(ss, g)
<1> DEFINE Fits(n, g) == g = [i \in 1..n |-> IF i = 1 THEN ss[i] ELSE g[i - 1] \o ss[i]]
           Bad == {n \in Nat : ~\E g : Fits(n, g)}
<1>1. Bad = {}
  <2> SUFFICES ASSUME Bad # {} PROVE FALSE
    OBVIOUS
  <2>1. Bad \subseteq Nat
    OBVIOUS
  <2>2. PICK n \in Bad : \A m \in Bad : n <= m
    <3> HIDE DEF Bad
    <3> QED
      BY <2>1, NatMin
  <2>3. CASE n = 0
    <3>1. Fits(0, [i \in 1..0 |-> ss])
      OBVIOUS
    <3> QED
      BY <2>3, <3>1
  <2>4. CASE n # 0
    <3>1. n \in Nat /\ n >= 1 /\ n - 1 \in Nat
      BY <2>4
    <3>2. n - 1 \notin Bad
      <4> HIDE DEF Bad
      <4> QED
        BY <2>2, <3>1
    <3>3. PICK g : Fits(n - 1, g)
      BY <3>1, <3>2
    <3> DEFINE h == [i \in 1..n |-> IF i = n THEN IF n = 1 THEN ss[n] ELSE g[n - 1] \o ss[n] ELSE g[i]]
    <3>4. \A i \in 1..n : h[i] = IF i = 1 THEN ss[i] ELSE h[i - 1] \o ss[i]
      <4> TAKE i \in 1..n
      <4>1. CASE i = n
        BY <4>1, <3>1
      <4>2. CASE i # n
        <5>1. i \in 1..(n - 1) /\ h[i] = g[i]
          BY <4>2, <3>1
        <5>2. g[i] = IF i = 1 THEN ss[i] ELSE g[i - 1] \o ss[i]
          BY <5>1, <3>3
        <5>3. i # 1 => h[i - 1] = g[i - 1]
          BY <5>1, <3>1
        <5> HIDE DEF h
        <5> QED
          BY <5>1, <5>2, <5>3
      <4> QED
        BY <4>1, <4>2
    <3>5. Fits(n, h)
      <4>1. h = [i \in 1..n |-> h[i]]
        OBVIOUS
      <4> HIDE DEF h
      <4> QED
        BY <3>4, <4>1
    <3> QED
      BY <3>5, <2>2
  <2> QED
    BY <2>3, <2>4
<1>2. Len(ss) \in Nat
  OBVIOUS
<1>3. \E g : Fits(Len(ss), g)
  BY <1>1, <1>2
<1> QED
  BY <1>3 DEF Joined

\* Where the pieces of joined sequences begin.
Begins(ss, start) ==
  /\ start \in [1..(Len(ss) + 1) -> Nat] /\ start[1] = 0
  /\ \A m \in 1..Len(ss) : start[m + 1] = start[m] + Len(ss[m])

\* FlattenSeq joins its sequences one after the other: each stands where the
\* ones before it end, and nothing else is there.
LEMMA FlattenLists ==
  ASSUME NEW S, NEW ss \in Seq(Seq(S))
  PROVE  LET F == FlattenSeq(ss) IN
         /\ F \in Seq(S)
         /\ \E start :
              /\ Begins(ss, start) /\ Len(F) = start[Len(ss) + 1]
              /\ \A m \in 1..Len(ss) : \A j \in 1..Len(ss[m]) :
                   start[m] + j \in 1..Len(F) /\ F[start[m] + j] = ss[m][j]
              /\ \A k \in 1..Len(F) : \E m \in 1..Len(ss) : \E j \in 1..Len(ss[m]) : k = start[m] + j
<1> DEFINE F == FlattenSeq(ss)
           g == CHOOSE h : Joined(ss, h)
           n == Len(ss)
           start == [i \in 1..(n + 1) |-> IF i = 1 THEN 0 ELSE Len(g[i - 1])]
<1>1. n \in Nat /\ \A i \in 1..n : ss[i] \in Seq(S)
  OBVIOUS
<1>2. Joined(ss, g)
  BY JoinedExists
<1>3. n # 0 => F = g[n]
  BY DEF FlattenSeq, Joined
<1>4. n = 0 => F = ss /\ ss = <<>>
  BY DEF FlattenSeq
<1> HIDE DEF g, F, n
<1>5. \A i \in 1..n : g[i] = IF i = 1 THEN ss[i] ELSE g[i - 1] \o ss[i]
  BY <1>2 DEF Joined, n
<1> DEFINE Good(i) ==
             /\ g[i] \in Seq(S) /\ Len(g[i]) = start[i] + Len(ss[i]) /\ start[i] \in Nat
             /\ \A m \in 1..i : \A j \in 1..Len(ss[m]) :
                  start[m] + j \in 1..Len(g[i]) /\ g[i][start[m] + j] = ss[m][j]
             /\ \A k \in 1..Len(g[i]) : \E m \in 1..i : \E j \in 1..Len(ss[m]) : k = start[m] + j
           Bad == {i \in 1..n : ~Good(i)}
<1>6. Bad = {}
  <2> SUFFICES ASSUME Bad # {} PROVE FALSE
    OBVIOUS
  <2>1. Bad \subseteq Nat
    BY <1>1
  <2>2. PICK i \in Bad : \A m \in Bad : i <= m
    <3> HIDE DEF Bad
    <3> QED
      BY <2>1, NatMin
  <2>3. i \in 1..n /\ i \in Nat /\ ss[i] \in Seq(S) /\ Len(ss[i]) \in Nat
    BY <1>1
  <2>4. CASE i = 1
    <3>1. g[1] = ss[1] /\ start[1] = 0 /\ ss[1] \in Seq(S)
      BY <1>5, <2>3, <2>4, <1>1
    <3>2. \A j \in 1..Len(ss[1]) : 0 + j = j
      BY <2>3, <2>4
    <3> HIDE DEF start
    <3>3. Good(1)
      BY <3>1, <3>2, <2>3, <2>4
    <3> QED
      BY <3>3, <2>2, <2>4
  <2>5. CASE i # 1
    <3>1. i - 1 \in 1..n /\ i - 1 \notin Bad
      <4> HIDE DEF Bad
      <4> QED
        BY <2>2, <2>3, <2>5, <1>1
    <3>2. Good(i - 1)
      BY <3>1
    <3>3. start[i] = Len(g[i - 1]) /\ g[i] = g[i - 1] \o ss[i]
      <4>1. i \in 1..(n + 1)
        BY <1>1, <2>3
      <4>2. start[i] = Len(g[i - 1])
        BY <4>1, <2>5
      <4> HIDE DEF start
      <4> QED
        BY <4>2, <1>5, <2>3, <2>5
    <3> HIDE DEF start
    <3>4. g[i - 1] \in Seq(S)
      BY <3>2
    <3> DEFINE p == g[i - 1]
               q == ss[i]
    <3>5. /\ g[i] \in Seq(S) /\ Len(g[i]) = Len(p) + Len(q)
          /\ Len(p) \in Nat /\ Len(q) \in Nat
          /\ \A k \in 1..Len(p) : g[i][k] = p[k]
          /\ \A k \in 1..Len(q) : g[i][Len(p) + k] = q[k]
      <4>1. p \in Seq(S) /\ q \in Seq(S) /\ g[i] = p \o q
        BY <3>3, <3>4, <2>3
      <4> HIDE DEF p, q
      <4> QED
        BY <4>1
    <3>6. \A m \in 1..i : \A j \in 1..Len(ss[m]) :
            start[m] + j \in 1..Len(g[i]) /\ g[i][start[m] + j] = ss[m][j]
      <4> TAKE m \in 1..i
      <4> TAKE j \in 1..Len(ss[m])
      <4>1. CASE m = i
        <5>1. j \in 1..Len(q) /\ start[m] = Len(p)
          BY <4>1, <3>3
        <5> HIDE DEF p, q
        <5>2. Len(p) + j \in 1..Len(g[i]) /\ g[i][Len(p) + j] = q[j]
          BY <5>1, <3>5
        <5> QED
          BY <5>1, <5>2, <4>1 DEF q
      <4>2. CASE m # i
        <5>1. m \in 1..(i - 1)
          BY <4>2, <2>3
        <5>2. start[m] + j \in 1..Len(p) /\ p[start[m] + j] = ss[m][j]
          BY <5>1, <3>2
        <5> HIDE DEF p, q
        <5>3. start[m] + j \in 1..Len(g[i])
          BY <5>2, <3>5
        <5> QED
          BY <5>2, <5>3, <3>5
      <4> QED
        BY <4>1, <4>2
    <3>7. \A k \in 1..Len(g[i]) : \E m \in 1..i : \E j \in 1..Len(ss[m]) : k = start[m] + j
      <4> TAKE k \in 1..Len(g[i])
      <4>1. CASE k \in 1..Len(p)
        <5>1. PICK m \in 1..(i - 1) : \E j \in 1..Len(ss[m]) : k = start[m] + j
          BY <4>1, <3>2
        <5>2. m \in 1..i
          BY <5>1, <2>3
        <5> QED
          BY <5>1, <5>2
      <4>2. CASE k \notin 1..Len(p)
        <5> DEFINE j == k - Len(p)
        <5>1. j \in 1..Len(q) /\ k = Len(p) + j
          <6> HIDE DEF p, q
          <6> QED
            BY <4>2, <3>5
        <5>2. k = start[i] + j
          BY <5>1, <3>3
        <5>3. i \in 1..i
          BY <2>3
        <5> HIDE DEF j
        <5> QED
          BY <5>1, <5>2, <5>3
      <4> QED
        BY <4>1, <4>2
    <3>8. Len(g[i]) = start[i] + Len(ss[i]) /\ start[i] \in Nat
      BY <3>3, <3>5
    <3>9. Good(i)
      BY <3>5, <3>6, <3>7, <3>8
    <3> QED
      BY <3>9, <2>2
  <2> QED
    BY <2>4, <2>5
<1>7. \A i \in 1..n : Good(i)
  <2> HIDE DEF Good
  <2> QED
    BY <1>6
<1>8. start \in [1..(n + 1) -> Nat] /\ start[1] = 0 /\ \A m \in 1..n : start[m + 1] = start[m] + Len(ss[m])
  <2>1. \A i \in 1..n : g[i] \in Seq(S) /\ Len(g[i]) = start[i] + Len(ss[i])
    <3> HIDE DEF start
    <3> QED
      BY <1>7
  <2>2. \A i \in 1..(n + 1) : i = 1 \/ i - 1 \in 1..n
    BY <1>1
  <2>3. start[1] = 0 /\ \A m \in 1..n : start[m + 1] = Len(g[m])
    BY <1>1
  <2>4. \A i \in 1..(n + 1) : start[i] \in Nat
    BY <2>1, <2>2
  <2>5. start \in [1..(n + 1) -> Nat]
    BY <2>4
  <2> HIDE DEF start
  <2> QED
    BY <2>1, <2>3, <2>5
<1> HIDE DEF start
<1>9. CASE n = 0
  <2>1. F = <<>> /\ Len(F) = 0 /\ start[n + 1] = 0
    BY <1>4, <1>8, <1>9
  <2>2. F \in Seq(S)
    BY <2>1
  <2> QED
    BY <1>8, <1>9, <2>1, <2>2 DEF F, n, Begins
<1>10. CASE n # 0
  <2>1. n \in 1..n /\ F = g[n]
    BY <1>1, <1>3, <1>10
  <2>2. Good(n)
    BY <1>7, <2>1
  <2>3. Len(F) = start[n + 1]
    BY <2>1, <2>2, <1>8
  <2>4. Begins(ss, start)
    BY <1>8 DEF n, Begins
  <2>5. F \in Seq(S)
    BY <2>1, <2>2
  <2>6. \A m \in 1..n : \A j \in 1..Len(ss[m]) : start[m] + j \in 1..Len(F) /\ F[start[m] + j] = ss[m][j]
    BY <2>1, <2>2
  <2>7. \A k \in 1..Len(F) : \E m \in 1..n : \E j \in 1..Len(ss[m]) : k = start[m] + j
    BY <2>1, <2>2
  <2> HIDE DEF Good
  <2> QED
    BY <2>3, <2>4, <2>5, <2>6, <2>7 DEF F, n
<1> QED
  BY <1>9, <1>10

-----------------------------------------------------------------------------
(* The transcript's types *)

Marks == {Note} \cup {Path(p) : p \in Nat} \cup {<<"out", c, i>> : c \in Nat, i \in Nat}
Texts == Seq(Marks)
ResultItems == [type : {"text"}, text : Texts] \cup [type : {"image"}, text : {<<Note>>}]
ResultContents == [form : {"text"}, text : Texts] \cup [form : {"list"}, items : Seq(ResultItems)]

\* Names, and the library's own: the provers do not know that these are strings.
Words == STRING \cup {"none", "steer", "nudge", "answer", "budget", Provider}

Speech == [type : {"text", "image"}, id : Words, volatile : BOOLEAN]
CallBlocks == [type : {"tool_use"}, id : Nat, toolset : Words]
ThoughtBlocks == [type : {"reasoning"}, id : Nat, provider : Words]
ResultBlocks ==
  [type : {"tool_result"}, id : Nat, content : ResultContents, error : BOOLEAN, toolset : Words]
Blocks == Speech \cup CallBlocks \cup ThoughtBlocks \cup ResultBlocks

MessageSet == [role : {"user", "assistant"}, content : Seq(Blocks)]
TranscriptSet == Seq(MessageSet)

\* A block's kind is its type.
LEMMA Kinds ==
  /\ \A b \in Blocks : /\ IsResult(b) <=> b \in ResultBlocks
                       /\ IsUse(b) <=> b \in CallBlocks
                       /\ IsReasoning(b) <=> b \in ThoughtBlocks
  /\ \A b \in ResultBlocks : IsResult(b)
  /\ \A b \in Speech : ~IsResult(b) /\ ~IsUse(b) /\ ~IsReasoning(b)
  /\ \A b \in Blocks : IsVolatile(b) => b \in Speech
<1>1. \A b \in Speech : b.type \in {"text", "image"}
  BY DEF Speech
<1>2. \A b \in CallBlocks : b.type = "tool_use"
  BY DEF CallBlocks
<1>3. \A b \in ThoughtBlocks : b.type = "reasoning"
  BY DEF ThoughtBlocks
<1>4. \A b \in ResultBlocks : b.type = "tool_result"
  BY DEF ResultBlocks
<1> QED
  BY <1>1, <1>2, <1>3, <1>4 DEF Blocks, IsResult, IsUse, IsReasoning, IsVolatile

\* Message makes a message.
LEMMA MessageType ==
  ASSUME NEW role \in {"user", "assistant"}, NEW content \in Seq(Blocks)
  PROVE  /\ Message(role, content) \in MessageSet
         /\ Message(role, content).role = role /\ Message(role, content).content = content
BY DEF Message, MessageSet

\* The types of what a transcript is made of.
LEMMA TranscriptParts ==
  ASSUME NEW t \in TranscriptSet
  PROVE  /\ Len(t) \in Nat /\ DOMAIN t = 1..Len(t)
         /\ \A i \in 1..Len(t) : /\ t[i] \in MessageSet /\ t[i].role \in {"user", "assistant"}
                                 /\ t[i].content \in Seq(Blocks) /\ DOMAIN t[i].content = 1..Len(t[i].content)
                                 /\ Len(t[i].content) \in Nat
         /\ \A i \in 1..Len(t) : \A k \in 1..Len(t[i].content) : t[i].content[k] \in Blocks
<1>1. Len(t) \in Nat /\ DOMAIN t = 1..Len(t) /\ \A i \in 1..Len(t) : t[i] \in MessageSet
  BY DEF TranscriptSet
<1>2. \A m \in MessageSet : m.role \in {"user", "assistant"} /\ m.content \in Seq(Blocks)
  BY DEF MessageSet
<1>3. \A c \in Seq(Blocks) : DOMAIN c = 1..Len(c) /\ Len(c) \in Nat /\ \A k \in 1..Len(c) : c[k] \in Blocks
  OBVIOUS
<1> QED
  BY <1>1, <1>2, <1>3

\* A message with other content is a message.
LEMMA Recontent ==
  ASSUME NEW m \in MessageSet, NEW c \in Seq(Blocks)
  PROVE  /\ [m EXCEPT !.content = c] \in MessageSet
         /\ [m EXCEPT !.content = c].content = c /\ [m EXCEPT !.content = c].role = m.role
BY DEF MessageSet

-----------------------------------------------------------------------------
(* Edits of a transcript *)

\* The messages stand and some of their blocks are gone.
Thinned(t, u) ==
  /\ u \in TranscriptSet /\ Len(u) = Len(t)
  /\ \A i \in 1..Len(t) : /\ u[i].role = t[i].role
                          /\ \A k \in 1..Len(u[i].content) : \E l \in 1..Len(t[i].content) :
                               u[i].content[k] = t[i].content[l]

\* _drop_reasoning leaves no reasoning and moves nothing else.
LEMMA DropReasoningDrops ==
  ASSUME NEW t \in TranscriptSet
  PROVE  /\ Thinned(t, DropReasoning(t))
         /\ \A i \in 1..Len(t) : \A k \in 1..Len(DropReasoning(t)[i].content) :
              ~IsReasoning(DropReasoning(t)[i].content[k])
<1> DEFINE u == DropReasoning(t)
           Places(i) == {k \in DOMAIN t[i].content : ~IsReasoning(t[i].content[k])}
           c(i) == Picked(t[i].content, Places(i))
<1>1. u = [i \in 1..Len(t) |-> [t[i] EXCEPT !.content = c(i)]]
  BY TranscriptParts DEF DropReasoning, Filtered
<1>2. ASSUME NEW i \in 1..Len(t)
      PROVE  /\ c(i) \in Seq(Blocks)
             /\ \A k \in 1..Len(c(i)) : \E l \in 1..Len(t[i].content) :
                  c(i)[k] = t[i].content[l] /\ ~IsReasoning(c(i)[k])
  <2>1. t[i].content \in Seq(Blocks) /\ DOMAIN t[i].content = 1..Len(t[i].content)
    BY TranscriptParts
  <2>2. Places(i) \subseteq 1..Len(t[i].content)
    BY <2>1
  <2>3. /\ c(i) \in Seq(Blocks)
        /\ \A k \in 1..Len(c(i)) : \E l \in Places(i) : c(i)[k] = t[i].content[l]
    <3> HIDE DEF Places
    <3>1. /\ c(i) \in Seq(Blocks)
          /\ \A k \in 1..Len(c(i)) : /\ Ascending(Places(i))[k] \in Places(i)
                                     /\ c(i)[k] = t[i].content[Ascending(Places(i))[k]]
      BY <2>1, <2>2, PickedLists DEF PicksOut
    <3> HIDE DEF c
    <3> QED
      BY <3>1
  <2> HIDE DEF c
  <2> QED
    BY <2>1, <2>3
<1> HIDE DEF c, u
<1>3. \A i \in 1..Len(t) : u[i] \in MessageSet /\ u[i].content = c(i) /\ u[i].role = t[i].role
  BY <1>1, <1>2, TranscriptParts, Recontent
<1>4. u \in TranscriptSet /\ Len(u) = Len(t)
  BY <1>1, <1>3, TranscriptParts DEF TranscriptSet
<1>5. \A i \in 1..Len(t) : \A k \in 1..Len(u[i].content) :
         /\ ~IsReasoning(u[i].content[k])
         /\ \E l \in 1..Len(t[i].content) : u[i].content[k] = t[i].content[l]
  <2> SUFFICES ASSUME NEW i \in 1..Len(t), NEW k \in 1..Len(u[i].content)
               PROVE  /\ ~IsReasoning(u[i].content[k])
                      /\ \E l \in 1..Len(t[i].content) : u[i].content[k] = t[i].content[l]
    OBVIOUS
  <2>1. u[i].content = c(i)
    BY <1>3
  <2>2. k \in 1..Len(c(i))
    BY <2>1
  <2>3. \E l \in 1..Len(t[i].content) : c(i)[k] = t[i].content[l] /\ ~IsReasoning(c(i)[k])
    BY <2>2, <1>2
  <2> QED
    BY <2>1, <2>3
<1> QED
  BY <1>3, <1>4, <1>5 DEF Thinned, u

-----------------------------------------------------------------------------
(* Texts *)

\* The note of a cut and the path of a file are texts.
LEMMA MarkTypes ==
  /\ <<Note>> \in Texts /\ <<>> \in Texts /\ Note \in Marks
  /\ \A p \in Nat : Path(p) \in Marks /\ <<Path(p)>> \in Texts /\ <<Note, Path(p)>> \in Texts
<1>1. Note \in Marks /\ \A p \in Nat : Path(p) \in Marks
  BY DEF Marks
<1> HIDE DEF Marks
<1>2. \A m, n \in Marks : <<m>> \in Seq(Marks) /\ <<m, n>> \in Seq(Marks)
  OBVIOUS
<1> QED
  BY <1>1, <1>2 DEF Texts

\* What the concatenation of two sequences holds, place by place.
LEMMA Joining ==
  ASSUME NEW S, NEW s \in Seq(S), NEW t \in Seq(S)
  PROVE  /\ s \o t \in Seq(S) /\ Len(s \o t) = Len(s) + Len(t)
         /\ \A i \in 1..Len(s) : (s \o t)[i] = s[i]
         /\ \A i \in 1..Len(t) : (s \o t)[Len(s) + i] = t[i]
OBVIOUS

\* The marks of a concatenation are those of its halves.
LEMMA ToSetJoined ==
  ASSUME NEW S, NEW s \in Seq(S), NEW t \in Seq(S)
  PROVE  ToSet(s \o t) = ToSet(s) \cup ToSet(t)
<1>1. /\ Len(s) \in Nat /\ Len(t) \in Nat /\ s \o t \in Seq(S) /\ Len(s \o t) = Len(s) + Len(t)
      /\ \A i \in 1..Len(s) : (s \o t)[i] = s[i]
      /\ \A i \in 1..Len(t) : (s \o t)[Len(s) + i] = t[i]
  BY Joining, LenProperties
<1>2. /\ ToSet(s) = {s[i] : i \in 1..Len(s)} /\ ToSet(t) = {t[i] : i \in 1..Len(t)}
      /\ ToSet(s \o t) = {(s \o t)[i] : i \in 1..Len(s \o t)}
  BY <1>1, LenProperties DEF ToSet
<1>3. \A i \in 1..Len(s \o t) : i \in 1..Len(s) \/ i - Len(s) \in 1..Len(t)
  BY <1>1
<1>4. \A i \in 1..Len(s \o t) : (s \o t)[i] \in ToSet(s) \cup ToSet(t)
  <2> TAKE i \in 1..Len(s \o t)
  <2>1. CASE i \in 1..Len(s)
    BY <1>1, <1>2, <2>1
  <2>2. CASE i - Len(s) \in 1..Len(t)
    <3>1. (s \o t)[Len(s) + (i - Len(s))] = t[i - Len(s)] /\ Len(s) + (i - Len(s)) = i
      BY <1>1, <2>2
    <3> QED
      BY <1>2, <2>2, <3>1
  <2> QED
    BY <1>3, <2>1, <2>2
<1>5. \A i \in 1..Len(s) : i \in 1..Len(s \o t)
  BY <1>1
<1>6. \A i \in 1..Len(t) : Len(s) + i \in 1..Len(s \o t)
  BY <1>1
<1> QED
  BY <1>1, <1>2, <1>4, <1>5, <1>6

\* What a slice of a sequence holds, place by place.
LEMMA SliceType ==
  ASSUME NEW S, NEW s \in Seq(S), NEW a \in Nat, NEW b \in Nat, a >= 1, b <= Len(s)
  PROVE  /\ SubSeq(s, a, b) \in Seq(S) /\ Len(SubSeq(s, a, b)) = IF a <= b THEN b - a + 1 ELSE 0
         /\ \A i \in 1..Len(SubSeq(s, a, b)) : SubSeq(s, a, b)[i] = s[a + i - 1]
<1>1. \A i \in a..b : s[i] \in S
  OBVIOUS
<1> QED
  BY <1>1, SubSeqProperties

\* The head and the tail of a text are texts of at most that size.
LEMMA CutType ==
  ASSUME NEW text \in Texts, NEW n \in Nat
  PROVE  /\ Cut(text, n) \in Texts /\ Len(Cut(text, n)) <= n
         /\ Ending(text, n) \in Texts /\ Len(Ending(text, n)) <= n
<1>1. text \in Seq(Marks) /\ Len(text) \in Nat
  BY DEF Texts
<1> DEFINE b == IF n < Len(text) THEN n ELSE Len(text)
           a == IF n < Len(text) THEN Len(text) - n + 1 ELSE 1
<1>2. b \in Nat /\ b <= Len(text) /\ b <= n
  BY <1>1
<1>3. a \in Nat /\ a >= 1 /\ Len(text) - a + 1 <= n
  BY <1>1
<1>4. Cut(text, n) = SubSeq(text, 1, b) /\ Ending(text, n) = SubSeq(text, a, Len(text))
  BY DEF Cut, Ending
<1> HIDE DEF a, b
<1>5. SubSeq(text, 1, b) \in Seq(Marks) /\ Len(SubSeq(text, 1, b)) <= n
  BY <1>1, <1>2, SliceType
<1>6. SubSeq(text, a, Len(text)) \in Seq(Marks) /\ Len(SubSeq(text, a, Len(text))) <= n
  BY <1>1, <1>3, SliceType
<1> QED
  BY <1>4, <1>5, <1>6 DEF Texts

\* A result says a text or a list of texts and images.
LEMMA ContentParts ==
  ASSUME NEW content \in ResultContents
  PROVE  \/ content.form = "text" /\ content.text \in Texts
         \/ /\ content.form = "list" /\ content.items \in Seq(ResultItems)
            /\ DOMAIN content.items = 1..Len(content.items) /\ Len(content.items) \in Nat
            /\ \A i \in 1..Len(content.items) :
                 /\ content.items[i] \in ResultItems /\ content.items[i].text \in Texts
                 /\ content.items[i].type = "image" => content.items[i].text = <<Note>>
<1>1. \A item \in ResultItems : item.text \in Texts /\ (item.type = "image" => item.text = <<Note>>)
  BY MarkTypes DEF ResultItems
<1>2. CASE content \in [form : {"text"}, text : Texts]
  BY <1>2
<1>3. CASE content \in [form : {"list"}, items : Seq(ResultItems)]
  <2>1. content.form = "list" /\ content.items \in Seq(ResultItems)
    BY <1>3
  <2>2. DOMAIN content.items = 1..Len(content.items) /\ Len(content.items) \in Nat
        /\ \A i \in 1..Len(content.items) : content.items[i] \in ResultItems
    BY <2>1
  <2> QED
    BY <1>1, <2>1, <2>2
<1> QED
  BY <1>2, <1>3 DEF ResultContents

\* What a result says, read as text, is a text.
LEMMA ContentTextType ==
  ASSUME NEW content \in ResultContents
  PROVE  ContentText(content) \in Texts
<1>1. CASE content.form = "text" /\ content.text \in Texts
  BY <1>1 DEF ContentText
<1>2. CASE content.form # "text"
  <2> DEFINE ss == [i \in DOMAIN content.items |-> content.items[i].text]
  <2>1. ContentText(content) = FlattenSeq(ss)
    BY <1>2 DEF ContentText
  <2>2. /\ DOMAIN content.items = 1..Len(content.items) /\ Len(content.items) \in Nat
        /\ \A i \in 1..Len(content.items) : content.items[i].text \in Seq(Marks)
    BY <1>2, ContentParts DEF Texts
  <2>3. ss \in Seq(Seq(Marks))
    BY <2>2
  <2> HIDE DEF ss
  <2>4. FlattenSeq(ss) \in Seq(Marks)
    BY <2>3, FlattenLists
  <2> QED
    BY <2>1, <2>4 DEF Texts
<1> QED
  BY <1>1, <1>2, ContentParts

\* The stub that stands for a cleared result is a text that names its file.
LEMMA StubType ==
  ASSUME NEW text \in Texts, NEW p \in Nat, ClearKeep \in Nat
  PROVE  /\ Stub(text, p) \in Texts
         /\ p # 0 => Path(p) \in ToSet(Stub(text, p))
<1> DEFINE start == Cut(text, ClearKeep) \o <<Note>>
           end == IF p = 0 THEN <<>> ELSE <<Path(p)>>
<1>1. start \in Texts /\ end \in Texts
  <2>1. Cut(text, ClearKeep) \in Seq(Marks) /\ <<Note>> \in Seq(Marks)
    BY CutType, MarkTypes DEF Texts
  <2>2. start \in Seq(Marks)
    BY <2>1, Joining
  <2> QED
    BY <2>2, MarkTypes DEF Texts
<1>2. Stub(text, p) = start \o end
  BY DEF Stub
<1>3. p # 0 => Path(p) \in ToSet(end)
  <2>1. \A m : m \in ToSet(<<m>>)
    BY DEF ToSet
  <2> QED
    BY <2>1
<1> HIDE DEF start, end
<1>4. start \o end \in Texts /\ ToSet(start \o end) = ToSet(start) \cup ToSet(end)
  BY <1>1, Joining, ToSetJoined DEF Texts
<1> QED
  BY <1>2, <1>3, <1>4

-----------------------------------------------------------------------------
(* What the edits leave of results and of reasoning *)

NoReasoning(t) == \A i \in 1..Len(t) : \A k \in 1..Len(t[i].content) : ~IsReasoning(t[i].content[k])

HasResult(t, b) ==
  IsResult(b) /\ \E i \in 1..Len(t) : \E k \in 1..Len(t[i].content) : b = t[i].content[k]

\* A result in a transcript has the types of one.
LEMMA ResultsAreBlocks ==
  ASSUME NEW t \in TranscriptSet, NEW b, HasResult(t, b)
  PROVE  b \in ResultBlocks /\ b.id \in Nat /\ b.content \in ResultContents
<1>1. b \in Blocks /\ IsResult(b)
  BY TranscriptParts DEF HasResult
<1>2. b \in ResultBlocks
  BY <1>1, Kinds
<1> QED
  BY <1>2 DEF ResultBlocks

\* Dropping blocks adds no result.
LEMMA ThinnedResults ==
  ASSUME NEW t \in TranscriptSet, NEW u, Thinned(t, u)
  PROVE  \A b : HasResult(u, b) => HasResult(t, b)
BY DEF Thinned, HasResult

\* The messages stand with as many blocks, and each block of the one
\* is the block of the other at its place, or another of its kind.
Rewritten(t, u) ==
  /\ u \in TranscriptSet /\ Len(u) = Len(t)
  /\ \A i \in 1..Len(t) : u[i].role = t[i].role /\ Len(u[i].content) = Len(t[i].content)

\* u is t with the contents c.
Recontented(t, c, u) ==
  /\ u = [i \in DOMAIN t |-> [t[i] EXCEPT !.content = c[i]]]
  /\ \A i \in 1..Len(t) : c[i] \in Seq(Blocks) /\ Len(c[i]) = Len(t[i].content)

\* A transcript whose messages get new contents has them.
LEMMA Rewriting ==
  ASSUME NEW t \in TranscriptSet, NEW c, NEW u, Recontented(t, c, u)
  PROVE  Rewritten(t, u) /\ \A i \in 1..Len(t) : u[i].content = c[i]
<1>1. Len(t) \in Nat /\ DOMAIN t = 1..Len(t) /\ \A i \in 1..Len(t) : t[i] \in MessageSet
  BY TranscriptParts
<1>2. \A i \in 1..Len(t) : u[i] \in MessageSet /\ u[i].content = c[i] /\ u[i].role = t[i].role
  BY <1>1, Recontent DEF Recontented
<1>3. u \in Seq(MessageSet) /\ Len(u) = Len(t)
  BY <1>1, <1>2 DEF Recontented
<1> QED
  BY <1>2, <1>3 DEF Recontented, Rewritten, TranscriptSet

\* Clearing stubs the results of its calls, keeps the others and drops all
\* reasoning.
LEMMA ClearedResultsEdit ==
  ASSUME NEW t \in TranscriptSet, NEW ids, NEW paths, \A id \in ids : paths[id] \in Nat, ClearKeep \in Nat
  PROVE  LET u == ClearedResults(t, ids, paths) IN
         /\ u \in TranscriptSet /\ Len(u) = Len(t) /\ NoReasoning(u)
         /\ \A i \in 1..Len(t) : u[i].role = t[i].role
         /\ \A b : HasResult(u, b) =>
              \E a : /\ HasResult(t, a) /\ b.id = a.id
                     /\ IF a.id \in ids THEN b.content = Plain(Stub(ContentText(a.content), paths[a.id]))
                        ELSE b.content = a.content
<1> DEFINE New(block) == [block EXCEPT !.content = Plain(Stub(ContentText(@), paths[block.id]))]
           Clear(block) == IF IsResult(block) /\ block.id \in ids THEN New(block) ELSE block
           c == [i \in DOMAIN t |-> [k \in DOMAIN t[i].content |-> Clear(t[i].content[k])]]
           v == [i \in DOMAIN t |-> [t[i] EXCEPT !.content = c[i]]]
           u == ClearedResults(t, ids, paths)
<1>1. u = DropReasoning(v)
  <2>1. v = [i \in DOMAIN t |-> [t[i] EXCEPT !.content = [k \in DOMAIN @ |-> Clear(@[k])]]]
    OBVIOUS
  <2> QED
    BY <2>1 DEF ClearedResults
<1>2. ASSUME NEW a \in Blocks, IsResult(a), a.id \in ids
      PROVE  /\ New(a) \in Blocks /\ IsResult(New(a)) /\ New(a).id = a.id
             /\ New(a).content = Plain(Stub(ContentText(a.content), paths[a.id]))
  <2>1. a \in ResultBlocks
    BY <1>2, Kinds
  <2> DEFINE text == Stub(ContentText(a.content), paths[a.id])
  <2>2. text \in Texts
    <3>1. ContentText(a.content) \in Texts
      BY <2>1, ContentTextType DEF ResultBlocks
    <3>2. paths[a.id] \in Nat
      BY <1>2
    <3> QED
      BY <3>1, <3>2, StubType
  <2> HIDE DEF text
  <2>3. Plain(text) \in ResultContents
    BY <2>2 DEF Plain, ResultContents
  <2>4. New(a) = [a EXCEPT !.content = Plain(text)]
    BY DEF text
  <2> HIDE DEF New
  <2>5. New(a) \in ResultBlocks /\ New(a).id = a.id /\ New(a).content = Plain(text)
    BY <2>1, <2>3, <2>4 DEF ResultBlocks
  <2> QED
    BY <2>5, Kinds DEF text, Blocks
<1>3. \A i \in 1..Len(t) : c[i] \in Seq(Blocks) /\ Len(c[i]) = Len(t[i].content)
  <2> TAKE i \in 1..Len(t)
  <2>1. /\ DOMAIN t = 1..Len(t) /\ DOMAIN t[i].content = 1..Len(t[i].content) /\ Len(t[i].content) \in Nat
        /\ \A k \in 1..Len(t[i].content) : t[i].content[k] \in Blocks
    BY TranscriptParts
  <2> HIDE DEF New
  <2>2. \A k \in 1..Len(t[i].content) : Clear(t[i].content[k]) \in Blocks
    BY <2>1, <1>2
  <2>3. c[i] = [k \in 1..Len(t[i].content) |-> Clear(t[i].content[k])]
    BY <2>1
  <2> HIDE DEF Clear, c
  <2> QED
    BY <2>1, <2>2, <2>3
<1> HIDE DEF New
<1>4. Rewritten(t, v) /\ \A i \in 1..Len(t) : v[i].content = c[i]
  <2> HIDE DEF c, Clear
  <2>1. v = [i \in DOMAIN t |-> [t[i] EXCEPT !.content = c[i]]]
    OBVIOUS
  <2> HIDE DEF v
  <2>2. Recontented(t, c, v)
    BY <1>3, <2>1 DEF Recontented
  <2> QED
    BY <2>2, Rewriting
<1> HIDE DEF v, u
<1>5. v \in TranscriptSet /\ Len(v) = Len(t)
  BY <1>4 DEF Rewritten
<1>6. Thinned(v, u) /\ NoReasoning(u)
  BY <1>1, <1>5, DropReasoningDrops DEF NoReasoning, Thinned
<1>7. ASSUME NEW b, HasResult(u, b)
      PROVE  \E a : /\ HasResult(t, a) /\ b.id = a.id
                    /\ IF a.id \in ids THEN b.content = Plain(Stub(ContentText(a.content), paths[a.id]))
                       ELSE b.content = a.content
  <2>1. HasResult(v, b)
    BY <1>5, <1>6, <1>7, ThinnedResults
  <2>2. PICK i \in 1..Len(t) : \E k \in 1..Len(t[i].content) : b = c[i][k] /\ IsResult(b)
    <3> HIDE DEF c
    <3> QED
      BY <1>4, <1>5, <2>1 DEF HasResult, Rewritten
  <2>3. PICK k \in 1..Len(t[i].content) : b = c[i][k] /\ IsResult(b)
    BY <2>2
  <2> DEFINE a == t[i].content[k]
  <2>4. b = Clear(a) /\ a \in Blocks
    BY <2>3, TranscriptParts
  <2>5. CASE IsResult(a) /\ a.id \in ids
    <3>1. HasResult(t, a)
      BY <2>5 DEF HasResult
    <3> HIDE DEF a
    <3>2. b.id = a.id /\ b.content = Plain(Stub(ContentText(a.content), paths[a.id]))
      BY <2>4, <2>5, <1>2
    <3> QED
      BY <3>1, <3>2, <2>5
  <2>6. CASE ~(IsResult(a) /\ a.id \in ids)
    <3> HIDE DEF New
    <3>1. b = a
      BY <2>4, <2>6
    <3>2. HasResult(t, a) /\ a.id \notin ids
      BY <2>3, <2>6, <3>1 DEF HasResult
    <3> QED
      BY <3>1, <3>2
  <2> QED
    BY <2>5, <2>6
<1> QED
  BY <1>4, <1>5, <1>6, <1>7 DEF u, Thinned, Rewritten

\* An image that goes leaves a note, which is what its text was.
LEMMA ClearImagesEdit ==
  ASSUME NEW t \in TranscriptSet, NEW keep
  PROVE  LET u == ClearImages(t, keep) IN
         /\ u \in TranscriptSet /\ Len(u) = Len(t) /\ NoReasoning(u)
         /\ \A i \in 1..Len(t) : u[i].role = t[i].role
         /\ \A b : HasResult(u, b) =>
              \E a : HasResult(t, a) /\ b.id = a.id /\ ContentText(b.content) = ContentText(a.content)
<1> DEFINE gone == Older(ImageSpots(t), keep)
           Item(i, k, n, item) == IF <<i, k, n>> \in gone THEN TextItem(<<Note>>) ELSE item
           New(i, k, block) == [block EXCEPT !.content.items = [n \in DOMAIN @ |-> Item(i, k, n, @[n])]]
           Block(i, k, block) == IF ~IsResult(block) \/ block.content.form = "text" THEN block
                                 ELSE New(i, k, block)
           c == [i \in DOMAIN t |-> [k \in DOMAIN t[i].content |-> Block(i, k, t[i].content[k])]]
           v == [i \in DOMAIN t |-> [t[i] EXCEPT !.content = c[i]]]
           u == ClearImages(t, keep)
<1>1. u = DropReasoning(v)
  <2>1. v = [i \in DOMAIN t |-> [t[i] EXCEPT !.content = [k \in DOMAIN @ |-> Block(i, k, @[k])]]]
    OBVIOUS
  <2> QED
    BY <2>1 DEF ClearImages
<1>2. \A i, k, n : <<i, k, n>> \in gone => t[i].content[k].content.items[n].type = "image"
  <2>1. gone \subseteq ImageSpots(t)
    BY DEF Older
  <2>2. \A i, k, n : <<i, k, n>> \in ImageSpots(t) => t[i].content[k].content.items[n].type = "image"
    <3> DEFINE Spots(p) == LET content == t[p[1]].content[p[2]].content IN
                 IF content.form = "text" THEN {}
                 ELSE {<<p[1], p[2], ci>> : ci \in {n \in DOMAIN content.items : content.items[n].type = "image"}}
    <3>1. ImageSpots(t) = UNION {Spots(p) : p \in ResultPositions(t)}
      BY DEF ImageSpots
    <3>2. \A p : \A i, k, n : <<i, k, n>> \in Spots(p) =>
            i = p[1] /\ k = p[2] /\ t[p[1]].content[p[2]].content.items[n].type = "image"
      OBVIOUS
    <3> HIDE DEF Spots
    <3> SUFFICES ASSUME NEW i, NEW k, NEW n, <<i, k, n>> \in ImageSpots(t)
                 PROVE  t[i].content[k].content.items[n].type = "image"
      OBVIOUS
    <3>3. PICK p \in ResultPositions(t) : <<i, k, n>> \in Spots(p)
      BY <3>1
    <3>4. i = p[1] /\ k = p[2] /\ t[p[1]].content[p[2]].content.items[n].type = "image"
      BY <3>2, <3>3
    <3> QED
      BY <3>4
  <2> QED
    BY <2>1, <2>2
<1> HIDE DEF gone
<1>3. ASSUME NEW i \in 1..Len(t), NEW k \in 1..Len(t[i].content),
             IsResult(t[i].content[k]), t[i].content[k].content.form # "text"
      PROVE  LET a == t[i].content[k] IN
             /\ New(i, k, a) \in Blocks /\ IsResult(New(i, k, a)) /\ New(i, k, a).id = a.id
             /\ ContentText(New(i, k, a).content) = ContentText(a.content)
  <2> DEFINE a == t[i].content[k]
             items == a.content.items
             newItems == [n \in DOMAIN items |-> Item(i, k, n, items[n])]
             content == [a.content EXCEPT !.items = newItems]
  <2>1. a \in ResultBlocks
    BY <1>3, TranscriptParts, Kinds
  <2>2. a.content \in ResultContents
    BY <2>1 DEF ResultBlocks
  <2>3. /\ a.content.form = "list" /\ DOMAIN items = 1..Len(items) /\ Len(items) \in Nat
        /\ \A n \in 1..Len(items) : /\ items[n] \in ResultItems
                                    /\ items[n].type = "image" => items[n].text = <<Note>>
    BY <1>3, <2>2, ContentParts
  <2>4. TextItem(<<Note>>) \in ResultItems /\ TextItem(<<Note>>).text = <<Note>>
    BY MarkTypes DEF TextItem, ResultItems
  <2>5. \A n \in 1..Len(items) : newItems[n] \in ResultItems /\ newItems[n].text = items[n].text
    <3> TAKE n \in 1..Len(items)
    <3>1. newItems[n] = Item(i, k, n, items[n])
      BY <2>3
    <3>2. CASE <<i, k, n>> \in gone
      <4>1. items[n].type = "image"
        BY <3>2, <1>2
      <4> HIDE DEF items, newItems
      <4> QED
        BY <4>1, <3>1, <3>2, <2>3, <2>4
    <3>3. CASE <<i, k, n>> \notin gone
      BY <3>1, <3>3, <2>3
    <3> QED
      BY <3>2, <3>3
  <2>6. DOMAIN newItems = DOMAIN items /\ newItems \in Seq(ResultItems)
    <3>1. newItems = [n \in 1..Len(items) |-> newItems[n]]
      BY <2>3
    <3> HIDE DEF newItems, items
    <3> QED
      BY <2>3, <2>5, <3>1
  <2> HIDE DEF newItems
  <2>7. content.form = "list" /\ content.items = newItems /\ content \in ResultContents
    BY <2>2, <2>3, <2>6 DEF ResultContents
  <2>8. ContentText(content) = ContentText(a.content)
    <3>1. [n \in DOMAIN content.items |-> content.items[n].text] = [n \in DOMAIN items |-> items[n].text]
      <4> HIDE DEF content, items
      <4> QED
        BY <2>3, <2>5, <2>6, <2>7
    <3> HIDE DEF content
    <3> QED
      BY <2>3, <2>7, <3>1 DEF ContentText
  <2>9. New(i, k, a) = [a EXCEPT !.content = content]
    BY DEF newItems
  <2> HIDE DEF content, New
  <2>10. /\ New(i, k, a) \in ResultBlocks /\ New(i, k, a).id = a.id
         /\ New(i, k, a).content = content
    <3> HIDE DEF a
    <3> QED
      BY <2>1, <2>7, <2>9 DEF ResultBlocks
  <2> QED
    BY <2>8, <2>10, Kinds DEF Blocks
<1> HIDE DEF New
<1>4. \A i \in 1..Len(t) : c[i] \in Seq(Blocks) /\ Len(c[i]) = Len(t[i].content)
  <2> TAKE i \in 1..Len(t)
  <2>1. /\ DOMAIN t = 1..Len(t) /\ DOMAIN t[i].content = 1..Len(t[i].content) /\ Len(t[i].content) \in Nat
        /\ \A k \in 1..Len(t[i].content) : t[i].content[k] \in Blocks
    BY TranscriptParts
  <2>2. \A k \in 1..Len(t[i].content) : Block(i, k, t[i].content[k]) \in Blocks
    BY <2>1, <1>3
  <2>3. c[i] = [k \in 1..Len(t[i].content) |-> Block(i, k, t[i].content[k])]
    BY <2>1
  <2> HIDE DEF Block, c
  <2> QED
    BY <2>1, <2>2, <2>3
<1>5. Rewritten(t, v) /\ \A i \in 1..Len(t) : v[i].content = c[i]
  <2> HIDE DEF c
  <2>1. Recontented(t, c, v)
    BY <1>4 DEF Recontented
  <2> HIDE DEF v
  <2> QED
    BY <2>1, Rewriting
<1> HIDE DEF v, u
<1>6. v \in TranscriptSet /\ Len(v) = Len(t)
  BY <1>5 DEF Rewritten
<1>7. Thinned(v, u) /\ NoReasoning(u)
  BY <1>1, <1>6, DropReasoningDrops DEF NoReasoning, Thinned
<1>8. ASSUME NEW b, HasResult(u, b)
      PROVE  \E a : HasResult(t, a) /\ b.id = a.id /\ ContentText(b.content) = ContentText(a.content)
  <2>1. HasResult(v, b)
    BY <1>6, <1>7, <1>8, ThinnedResults
  <2>2. PICK i \in 1..Len(t) : \E k \in 1..Len(t[i].content) : b = c[i][k] /\ IsResult(b)
    <3> HIDE DEF c
    <3> QED
      BY <1>5, <1>6, <2>1 DEF HasResult, Rewritten
  <2>3. PICK k \in 1..Len(t[i].content) : b = c[i][k] /\ IsResult(b)
    BY <2>2
  <2> DEFINE a == t[i].content[k]
  <2>4. b = Block(i, k, a)
    BY <2>3, TranscriptParts
  <2>5. CASE IsResult(a) /\ a.content.form # "text"
    <3>1. HasResult(t, a)
      BY <2>5 DEF HasResult
    <3>2. b.id = a.id /\ ContentText(b.content) = ContentText(a.content)
      BY <2>4, <2>5, <1>3
    <3> HIDE DEF a
    <3> QED
      BY <3>1, <3>2
  <2>6. CASE ~(IsResult(a) /\ a.content.form # "text")
    <3>1. b = a
      BY <2>4, <2>6
    <3>2. HasResult(t, a)
      BY <2>3, <3>1 DEF HasResult
    <3> QED
      BY <3>1, <3>2
  <2> QED
    BY <2>5, <2>6
<1> QED
  BY <1>5, <1>6, <1>7, <1>8 DEF u, Thinned, Rewritten

-----------------------------------------------------------------------------
(* A transcript stored and read again *)

Still(b) == IF IsVolatile(b) THEN [b EXCEPT !.volatile = FALSE] ELSE b

\* Storing a block a second time changes nothing, and it leaves results, calls
\* and reasoning alone.
LEMMA StillBlocks ==
  ASSUME NEW b \in Blocks
  PROVE  /\ Still(b) \in Blocks /\ ~IsVolatile(Still(b)) /\ Still(Still(b)) = Still(b)
         /\ IsResult(b) \/ IsUse(b) \/ IsReasoning(b) => Still(b) = b
         /\ IsResult(Still(b)) \/ IsUse(Still(b)) \/ IsReasoning(Still(b)) => Still(b) = b
<1>1. CASE b \in Speech
  <2>1. Still(b) \in Speech /\ Still(b).type = b.type /\ ~Still(b).volatile
    BY <1>1 DEF Still, IsVolatile, Speech
  <2>2. ~IsVolatile(Still(b))
    BY <2>1 DEF IsVolatile
  <2>3. Still(Still(b)) = Still(b)
    BY <2>2 DEF Still
  <2> QED
    BY <1>1, <2>1, <2>2, <2>3, Kinds DEF Blocks
<1>2. CASE b \notin Speech
  <2>1. ~IsVolatile(b)
    BY <1>2, Kinds
  <2>2. Still(b) = b
    BY <2>1 DEF Still
  <2> QED
    BY <2>1, <2>2
<1> QED
  BY <1>1, <1>2

\* Storing a transcript stores each block in its place.
LEMMA StoredBlocks ==
  ASSUME NEW t \in TranscriptSet
  PROVE  /\ Rewritten(t, Stored(t))
         /\ \A i \in 1..Len(t) : \A k \in 1..Len(t[i].content) :
              Stored(t)[i].content[k] = Still(t[i].content[k])
<1> DEFINE c == [i \in DOMAIN t |-> [k \in DOMAIN t[i].content |-> Still(t[i].content[k])]]
           u == Stored(t)
<1>1. u = [i \in DOMAIN t |-> [t[i] EXCEPT !.content = c[i]]]
  BY DEF Stored, Still
<1>2. \A i \in 1..Len(t) : c[i] \in Seq(Blocks) /\ Len(c[i]) = Len(t[i].content)
  <2> TAKE i \in 1..Len(t)
  <2>1. /\ DOMAIN t = 1..Len(t) /\ DOMAIN t[i].content = 1..Len(t[i].content) /\ Len(t[i].content) \in Nat
        /\ \A k \in 1..Len(t[i].content) : t[i].content[k] \in Blocks
    BY TranscriptParts
  <2>2. \A k \in 1..Len(t[i].content) : Still(t[i].content[k]) \in Blocks
    BY <2>1, StillBlocks
  <2>3. c[i] = [k \in 1..Len(t[i].content) |-> Still(t[i].content[k])]
    BY <2>1
  <2> HIDE DEF c
  <2> QED
    BY <2>1, <2>2, <2>3
<1>3. \A i \in 1..Len(t) : \A k \in 1..Len(t[i].content) : c[i][k] = Still(t[i].content[k])
  BY TranscriptParts
<1> HIDE DEF c, u
<1>4. Rewritten(t, u) /\ \A i \in 1..Len(t) : u[i].content = c[i]
  <2>1. Recontented(t, c, u)
    BY <1>1, <1>2 DEF Recontented
  <2> QED
    BY <2>1, Rewriting
<1> QED
  BY <1>3, <1>4 DEF u

\* Transcripts with equal blocks are equal.
LEMMA SameTranscript ==
  ASSUME NEW t \in TranscriptSet, NEW u \in TranscriptSet, Len(t) = Len(u),
         \A i \in 1..Len(t) : t[i].role = u[i].role /\ Len(t[i].content) = Len(u[i].content),
         \A i \in 1..Len(t) : \A k \in 1..Len(t[i].content) : t[i].content[k] = u[i].content[k]
  PROVE  t = u
<1>1. \A i \in 1..Len(t) : t[i].content = u[i].content
  <2> TAKE i \in 1..Len(t)
  <2>1. t[i].content \in Seq(Blocks) /\ u[i].content \in Seq(Blocks)
    BY TranscriptParts
  <2> QED
    BY <2>1, SeqEqual
<1>2. \A m, n \in MessageSet : m.role = n.role /\ m.content = n.content => m = n
  BY DEF MessageSet
<1>3. \A i \in 1..Len(t) : t[i] = u[i]
  BY <1>1, <1>2, TranscriptParts
<1> QED
  BY <1>3, SeqEqual DEF TranscriptSet

\* The start of a transcript is one.
LEMMA StartOfTranscript ==
  ASSUME NEW t \in TranscriptSet, NEW n \in Nat, n <= Len(t)
  PROVE  /\ SubSeq(t, 1, n) \in TranscriptSet /\ Len(SubSeq(t, 1, n)) = n
         /\ \A i \in 1..n : SubSeq(t, 1, n)[i] = t[i]
<1>1. t \in Seq(MessageSet)
  BY DEF TranscriptSet
<1>2. /\ SubSeq(t, 1, n) \in Seq(MessageSet) /\ Len(SubSeq(t, 1, n)) = n
      /\ \A i \in 1..Len(SubSeq(t, 1, n)) : SubSeq(t, 1, n)[i] = t[1 + i - 1]
  BY <1>1, SliceType
<1>3. \A i \in 1..n : 1 + i - 1 = i
  OBVIOUS
<1> QED
  BY <1>2, <1>3 DEF TranscriptSet

\* What was stored is stored again as it is.
LEMMA StoredTwice ==
  ASSUME NEW t \in TranscriptSet
  PROVE  Stored(Stored(t)) = Stored(t)
<1> DEFINE u == Stored(t)
           v == Stored(u)
<1>1. Rewritten(t, u) /\ \A i \in 1..Len(t) : \A k \in 1..Len(t[i].content) : u[i].content[k] = Still(t[i].content[k])
  BY StoredBlocks
<1> HIDE DEF u
<1>2. u \in TranscriptSet
  BY <1>1 DEF Rewritten
<1>3. Rewritten(u, v) /\ \A i \in 1..Len(u) : \A k \in 1..Len(u[i].content) : v[i].content[k] = Still(u[i].content[k])
  BY <1>2, StoredBlocks
<1> HIDE DEF v
<1>4. \A i \in 1..Len(t) : \A k \in 1..Len(t[i].content) : v[i].content[k] = u[i].content[k]
  BY <1>1, <1>3, StillBlocks, TranscriptParts DEF Rewritten
<1>5. v \in TranscriptSet /\ Len(v) = Len(u) /\ Len(u) = Len(t)
  BY <1>1, <1>3 DEF Rewritten
<1>6. \A i \in 1..Len(v) : v[i].role = u[i].role /\ Len(v[i].content) = Len(u[i].content)
  BY <1>3, <1>5 DEF Rewritten
<1>7. \A i \in 1..Len(v) : \A k \in 1..Len(v[i].content) : v[i].content[k] = u[i].content[k]
  BY <1>1, <1>4, <1>5, <1>6 DEF Rewritten
<1>8. v = u
  BY <1>2, <1>5, <1>6, <1>7, SameTranscript
<1> QED
  BY <1>8 DEF u, v

\* The start of what is stored is what is stored of the start.
LEMMA StoredStart ==
  ASSUME NEW t \in TranscriptSet, NEW n \in Nat, n <= Len(t)
  PROVE  Stored(SubSeq(t, 1, n)) = SubSeq(Stored(t), 1, n)
<1> DEFINE u == Stored(t)
           s == SubSeq(t, 1, n)
           v == Stored(s)
           w == SubSeq(u, 1, n)
<1>1. Rewritten(t, u) /\ \A i \in 1..Len(t) : \A k \in 1..Len(t[i].content) : u[i].content[k] = Still(t[i].content[k])
  BY StoredBlocks
<1>2. s \in TranscriptSet /\ Len(s) = n /\ \A i \in 1..n : s[i] = t[i]
  BY StartOfTranscript
<1> HIDE DEF s, u
<1>3. Rewritten(s, v) /\ \A i \in 1..Len(s) : \A k \in 1..Len(s[i].content) : v[i].content[k] = Still(s[i].content[k])
  BY <1>2, StoredBlocks
<1>4. u \in TranscriptSet /\ Len(u) = Len(t)
  BY <1>1 DEF Rewritten
<1>5. w \in TranscriptSet /\ Len(w) = n /\ \A i \in 1..n : w[i] = u[i]
  BY <1>4, StartOfTranscript
<1>6. \A i \in 1..n : i \in 1..Len(t)
  BY TranscriptParts
<1> HIDE DEF v, w
<1>7. v \in TranscriptSet /\ Len(v) = n
  BY <1>2, <1>3 DEF Rewritten
<1>8. \A i \in 1..n : v[i].role = w[i].role /\ Len(v[i].content) = Len(w[i].content)
  BY <1>1, <1>2, <1>3, <1>5, <1>6 DEF Rewritten
<1>9. \A i \in 1..n : \A k \in 1..Len(v[i].content) : v[i].content[k] = w[i].content[k]
  BY <1>1, <1>2, <1>3, <1>5, <1>6 DEF Rewritten
<1>10. v = w
  BY <1>5, <1>7, <1>8, <1>9, SameTranscript
<1> QED
  BY <1>10 DEF s, u, v, w

-----------------------------------------------------------------------------
(* What is added to a transcript, and what a next turn keeps of it *)

\* The numbers of an interval, in their order.
LEMMA AscendingInterval ==
  ASSUME NEW a \in Nat, NEW n \in Nat
  PROVE  /\ Len(Ascending((a + 1)..(a + n))) = n
         /\ \A k \in 1..n : Ascending((a + 1)..(a + n))[k] = a + k
<1> DEFINE S == (a + 1)..(a + n)
           A == Ascending(S)
<1>1. S \subseteq Nat /\ IsFiniteSet(S) /\ Cardinality(S) = n
  BY FS_Interval
<1>2. /\ A \in Seq(S) /\ Len(A) = n
      /\ \A i \in 1..Len(A) : Cardinality({y \in S : y <= A[i]}) = i
  BY <1>1, AscendingLists
<1> HIDE DEF A
<1>3. \A k \in 1..n : A[k] = a + k
  <2> TAKE k \in 1..n
  <2>1. A[k] \in S
    BY <1>2
  <2>2. A[k] \in Nat /\ A[k] >= a + 1 /\ A[k] <= a + n
    BY <2>1
  <2>3. {y \in S : y <= A[k]} = (a + 1)..A[k]
    BY <2>2
  <2>4. Cardinality((a + 1)..A[k]) = A[k] - a
    <3>1. a + 1 \in Int /\ A[k] \in Int /\ ~(a + 1 > A[k]) /\ A[k] - (a + 1) + 1 = A[k] - a
      BY <2>2
    <3> QED
      BY <3>1, FS_Interval
  <2>5. Cardinality({y \in S : y <= A[k]}) = k
    BY <1>2
  <2>6. A[k] - a = k
    BY <2>3, <2>4, <2>5
  <2> QED
    BY <2>2, <2>6
<1> QED
  BY <1>2, <1>3 DEF A

\* A message's calls are its tool_use blocks.
LEMMA UsesType ==
  ASSUME NEW m \in MessageSet
  PROVE  /\ Uses(m) \in Seq(CallBlocks) /\ Len(Uses(m)) \in Nat /\ DOMAIN Uses(m) = 1..Len(Uses(m))
         /\ \A i \in 1..Len(Uses(m)) : Uses(m)[i].id \in Nat /\ Uses(m)[i].toolset \in Words
         /\ \A i \in 1..Len(Uses(m)) : \E k \in 1..Len(m.content) : Uses(m)[i] = m.content[k]
         /\ \A k \in 1..Len(m.content) : IsUse(m.content[k]) =>
              \E i \in 1..Len(Uses(m)) : Uses(m)[i] = m.content[k]
<1> DEFINE P == {k \in DOMAIN m.content : IsUse(m.content[k])}
           f == Picked(m.content, P)
<1>1. m.content \in Seq(Blocks) /\ DOMAIN m.content = 1..Len(m.content)
  BY DEF MessageSet
<1>2. P \subseteq 1..Len(m.content) /\ Uses(m) = f
  BY <1>1 DEF Uses, Filtered
<1>3. \A k \in P : m.content[k] \in CallBlocks
  BY <1>1, Kinds
<1>4. \A k \in 1..Len(m.content) : IsUse(m.content[k]) => k \in P
  BY <1>1
<1> HIDE DEF P
<1>5. /\ f \in Seq(Blocks) /\ Len(f) = Cardinality(P)
      /\ \A k \in 1..Len(f) : Ascending(P)[k] \in P /\ f[k] = m.content[Ascending(P)[k]]
      /\ \A i \in P : \E k \in 1..Len(f) : Ascending(P)[k] = i
  <2>1. P \subseteq 1..Len(m.content)
    BY <1>2
  <2>3. f \in Seq(Blocks) /\ PicksOut(m.content, P, f)
    BY <1>1, <2>1, PickedLists
  <2> HIDE DEF f
  <2> QED
    BY <2>3 DEF PicksOut
<1> HIDE DEF f
<1>6. Len(f) \in Nat /\ DOMAIN f = 1..Len(f) /\ \A k \in 1..Len(f) : f[k] \in CallBlocks
  BY <1>3, <1>5
<1>7. f \in Seq(CallBlocks)
  BY <1>5, <1>6
<1>8. \A u \in CallBlocks : u.id \in Nat /\ u.toolset \in Words
  BY DEF CallBlocks
<1>9. \A i \in 1..Len(f) : \E k \in 1..Len(m.content) : f[i] = m.content[k]
  BY <1>2, <1>5
<1>10. \A k \in 1..Len(m.content) : IsUse(m.content[k]) => \E i \in 1..Len(f) : f[i] = m.content[k]
  BY <1>4, <1>5
<1> QED
  BY <1>2, <1>6, <1>7, <1>8, <1>9, <1>10

\* A message's calls, when they are its last blocks.
LEMMA UsesAtEnd ==
  ASSUME NEW before \in Seq(Blocks), NEW uses \in Seq(CallBlocks), NEW m,
         m.content = before \o uses, \A k \in 1..Len(before) : ~IsUse(before[k])
  PROVE  Uses(m) = uses
<1> DEFINE a == Len(before)
           n == Len(uses)
           P == {k \in DOMAIN m.content : IsUse(m.content[k])}
           f == Picked(m.content, P)
<1>1. a \in Nat /\ n \in Nat
  OBVIOUS
<1>2. uses \in Seq(Blocks) /\ \A k \in 1..n : IsUse(uses[k])
  <2>1. CallBlocks \subseteq Blocks
    BY DEF Blocks
  <2>2. \A k \in 1..n : uses[k] \in CallBlocks
    OBVIOUS
  <2> QED
    BY <2>1, <2>2, Kinds
<1>3. /\ m.content \in Seq(Blocks) /\ Len(m.content) = a + n
      /\ \A k \in 1..a : m.content[k] = before[k]
      /\ \A k \in 1..n : m.content[a + k] = uses[k]
  BY <1>2, Joining
<1>4. DOMAIN m.content = 1..(a + n)
  BY <1>3
<1>5. P = (a + 1)..(a + n)
  <2>1. \A k \in 1..a : k \notin P
    BY <1>3
  <2>2. \A k \in (a + 1)..(a + n) : k \in P
    <3> TAKE k \in (a + 1)..(a + n)
    <3>1. k - a \in 1..n /\ k \in 1..(a + n) /\ a + (k - a) = k
      BY <1>1
    <3>2. m.content[a + (k - a)] = uses[k - a]
      BY <3>1, <1>3
    <3> QED
      BY <1>2, <1>4, <3>1, <3>2
  <2>3. \A k \in P : k \in 1..(a + n)
    BY <1>4
  <2> HIDE DEF P
  <2>4. \A k \in P : k \in (a + 1)..(a + n)
    <3> TAKE k \in P
    <3>1. k \in 1..(a + n) /\ k \notin 1..a
      BY <2>1, <2>3
    <3> QED
      BY <1>1, <3>1
  <2> QED
    BY <2>2, <2>4
<1>6. Uses(m) = f
  BY DEF Uses, Filtered
<1> HIDE DEF P
<1>7. /\ f \in Seq(Blocks) /\ Len(f) = Len(Ascending(P))
      /\ \A k \in 1..Len(f) : f[k] = m.content[Ascending(P)[k]]
  <2>1. P \subseteq 1..Len(m.content)
    BY <1>1, <1>3, <1>5
  <2>2. m.content \in Seq(Blocks)
    BY <1>3
  <2>3. f \in Seq(Blocks) /\ PicksOut(m.content, P, f)
    BY <2>2, <2>1, PickedLists
  <2> HIDE DEF f
  <2> QED
    BY <2>3 DEF PicksOut
<1>8. Len(Ascending(P)) = n /\ \A k \in 1..n : Ascending(P)[k] = a + k
  BY <1>1, <1>5, AscendingInterval
<1> HIDE DEF f
<1>9. Len(f) = n /\ \A k \in 1..n : f[k] = uses[k]
  BY <1>3, <1>7, <1>8
<1>10. f = uses
  BY <1>2, <1>7, <1>9, SeqEqual
<1> QED
  BY <1>6, <1>10

\* Words for the model change no message but the last, and nothing in it.
LEMMA AppendUserTextAdds ==
  ASSUME NEW t \in TranscriptSet, NEW text \in Speech
  PROVE  LET u == AppendUserText(t, text) IN
         /\ u \in TranscriptSet /\ Len(u) >= 1 /\ Len(u) \in {Len(t), Len(t) + 1} /\ u[Len(u)].role = "user"
         /\ \A i \in 1..Len(t) : i < Len(u) => u[i] = t[i]
         /\ \A i \in 1..Len(u) : \A k \in 1..Len(u[i].content) :
              \/ u[i].content[k] = text
              \/ i \in 1..Len(t) /\ k \in 1..Len(t[i].content) /\ u[i].content[k] = t[i].content[k]
<1> DEFINE u == AppendUserText(t, text)
           n == Len(t)
<1>1. n \in Nat /\ t \in Seq(MessageSet) /\ text \in Blocks
  BY TranscriptParts DEF TranscriptSet, Blocks
<1>2. t # <<>> => n >= 1 /\ Last(t) = t[n]
  BY <1>1 DEF Last
<1>3. CASE t # <<>> /\ Last(t).role = "user"
  <2> DEFINE m == t[n]
             c == Append(m.content, text)
             v == [m EXCEPT !.content = c]
  <2>1. n \in 1..n /\ m \in MessageSet /\ m.role = "user" /\ m.content \in Seq(Blocks)
    BY <1>1, <1>2, <1>3, TranscriptParts
  <2>2. /\ c \in Seq(Blocks) /\ Len(c) = Len(m.content) + 1 /\ c[Len(m.content) + 1] = text
        /\ \A k \in 1..Len(m.content) : c[k] = m.content[k]
    <3> HIDE DEF m
    <3> QED
      BY <1>1, <2>1
  <2>3. u = [t EXCEPT ![n] = v]
    BY <1>3 DEF AppendUserText
  <2> HIDE DEF u, c
  <2>4. v \in MessageSet /\ v.content = c /\ v.role = "user"
    BY <2>1, <2>2, Recontent
  <2> HIDE DEF v
  <2>5. u \in Seq(MessageSet) /\ Len(u) = n /\ u[n] = v /\ \A i \in 1..n : i # n => u[i] = t[i]
    BY <1>1, <2>1, <2>3, <2>4
  <2>6. \A k \in 1..Len(c) : k = Len(m.content) + 1 \/ k \in 1..Len(m.content)
    <3> HIDE DEF m
    <3> QED
      BY <2>1, <2>2
  <2>7. \A k \in 1..Len(c) : c[k] = text \/ (k \in 1..Len(m.content) /\ c[k] = m.content[k])
    <3> HIDE DEF m
    <3> QED
      BY <2>2, <2>6
  <2>8. \A i \in 1..n : i < n => i # n
    BY <1>1
  <2>9. \A i \in 1..Len(u) : \A k \in 1..Len(u[i].content) :
          u[i].content[k] = text \/ (i \in 1..n /\ k \in 1..Len(t[i].content) /\ u[i].content[k] = t[i].content[k])
    BY <2>4, <2>5, <2>7
  <2>10. u[Len(u)].role = "user" /\ Len(u) >= 1
    BY <2>1, <2>4, <2>5, <1>1
  <2> QED
    BY <2>5, <2>8, <2>9, <2>10 DEF TranscriptSet, u
<1>4. CASE ~(t # <<>> /\ Last(t).role = "user")
  <2> DEFINE v == Message("user", <<text>>)
  <2>1. v \in MessageSet /\ v.role = "user" /\ v.content = <<text>>
    <3>1. <<text>> \in Seq(Blocks)
      BY <1>1
    <3> QED
      BY <3>1, MessageType
  <2>2. u = Append(t, v)
    BY <1>4 DEF AppendUserText
  <2> HIDE DEF u, v
  <2>3. u \in Seq(MessageSet) /\ Len(u) = n + 1 /\ u[n + 1] = v /\ \A i \in 1..n : u[i] = t[i]
    BY <1>1, <2>1, <2>2
  <2>4. \A i \in 1..Len(u) : i = n + 1 \/ i \in 1..n
    BY <1>1, <2>3
  <2>5. \A k \in 1..Len(v.content) : v.content[k] = text
    BY <2>1
  <2>6. \A i \in 1..Len(u) : \A k \in 1..Len(u[i].content) :
          u[i].content[k] = text \/ (i \in 1..n /\ k \in 1..Len(t[i].content) /\ u[i].content[k] = t[i].content[k])
    BY <2>3, <2>4, <2>5
  <2>7. u[Len(u)].role = "user" /\ Len(u) >= 1
    BY <2>1, <2>3, <1>1
  <2> QED
    BY <2>3, <2>6, <2>7 DEF TranscriptSet, u
<1> QED
  BY <1>3, <1>4

\* ToolResult makes a result of its call.
LEMMA ToolResultType ==
  ASSUME NEW id \in Nat, NEW content \in ResultContents, NEW error \in BOOLEAN, NEW toolset \in Words
  PROVE  LET b == ToolResult(id, content, error, toolset) IN
         /\ b \in ResultBlocks /\ b \in Blocks /\ IsResult(b) /\ ~IsReasoning(b) /\ ~IsUse(b)
         /\ b.id = id /\ b.content = content
<1> DEFINE b == ToolResult(id, content, error, toolset)
<1>1. b \in ResultBlocks
  BY DEF ToolResult, ResultBlocks
<1>2. b.type = "tool_result" /\ b.id = id /\ b.content = content
  BY DEF ToolResult
<1> QED
  BY <1>1, <1>2 DEF Blocks, IsResult, IsReasoning, IsUse

\* Calls that never ran are answered in a message of their own.
LEMMA CloseInterruptedAdds ==
  ASSUME NEW t \in TranscriptSet
  PROVE  LET u == CloseInterrupted(t)
             uses == Uses(Last(t)) IN
         \/ u = t /\ (t = <<>> \/ Last(t).role # "assistant" \/ uses = <<>>)
         \/ /\ t # <<>> /\ Last(t).role = "assistant" /\ uses # <<>>
            /\ u \in TranscriptSet /\ Len(u) = Len(t) + 1 /\ \A i \in 1..Len(t) : u[i] = t[i]
            /\ u[Len(u)].role = "user"
            /\ u[Len(u)].content = [j \in 1..Len(uses) |-> ToolResult(uses[j].id, Plain(<<Note>>), TRUE, "none")]
<1> DEFINE u == CloseInterrupted(t)
           uses == Uses(Last(t))
           results == [j \in 1..Len(uses) |-> ToolResult(uses[j].id, Plain(<<Note>>), TRUE, "none")]
           m == Message("user", results)
<1>1. CASE t = <<>> \/ Last(t).role # "assistant" \/ uses = <<>>
  BY <1>1 DEF CloseInterrupted
<1>2. CASE ~(t = <<>> \/ Last(t).role # "assistant" \/ uses = <<>>)
  <2>1. t \in Seq(MessageSet) /\ Len(t) \in Nat /\ Len(t) >= 1
    BY <1>2, TranscriptParts DEF TranscriptSet
  <2>2. Last(t) \in MessageSet
    BY <2>1 DEF Last
  <2>3. DOMAIN uses = 1..Len(uses) /\ Len(uses) \in Nat /\ \A j \in 1..Len(uses) : uses[j].id \in Nat
    BY <2>2, UsesType
  <2>4. u = Append(t, m)
    BY <1>2, <2>3 DEF CloseInterrupted, UnrunResults
  <2>5. Plain(<<Note>>) \in ResultContents
    BY MarkTypes DEF Plain, ResultContents
  <2>6. \A id \in Nat : ToolResult(id, Plain(<<Note>>), TRUE, "none") \in Blocks
    <3>1. TRUE \in BOOLEAN
      OBVIOUS
    <3>2. "none" \in Words
      BY DEF Words
    <3> QED
      BY <2>5, <3>1, <3>2, ToolResultType, Zenon
  <2> HIDE DEF u, uses
  <2>7. results \in Seq(Blocks)
    <3>1. \A j \in 1..Len(uses) : results[j] \in Blocks
      BY <2>3, <2>6
    <3>2. results = [j \in 1..Len(uses) |-> results[j]]
      OBVIOUS
    <3> HIDE DEF results
    <3> QED
      BY <2>3, <3>1, <3>2
  <2> HIDE DEF results
  <2>8. m \in MessageSet /\ m.role = "user" /\ m.content = results
    BY <2>7, MessageType
  <2> HIDE DEF m
  <2>9. u \in Seq(MessageSet) /\ Len(u) = Len(t) + 1 /\ u[Len(u)] = m /\ \A i \in 1..Len(t) : u[i] = t[i]
    BY <2>1, <2>4, <2>8
  <2> QED
    BY <1>2, <2>8, <2>9 DEF TranscriptSet, u, uses, results
<1> QED
  BY <1>1, <1>2

\* A next turn only drops the volatile blocks.
LEMMA WithoutVolatileThins ==
  ASSUME NEW t \in TranscriptSet
  PROVE  Thinned(t, WithoutVolatile(t))
<1> DEFINE u == WithoutVolatile(t)
           Places(i) == {k \in DOMAIN t[i].content : ~IsVolatile(t[i].content[k])}
           c(i) == Picked(t[i].content, Places(i))
<1>1. u = [i \in 1..Len(t) |-> [t[i] EXCEPT !.content = c(i)]]
  BY TranscriptParts DEF WithoutVolatile, Filtered
<1>2. ASSUME NEW i \in 1..Len(t)
      PROVE  /\ c(i) \in Seq(Blocks)
             /\ \A k \in 1..Len(c(i)) : \E l \in 1..Len(t[i].content) : c(i)[k] = t[i].content[l]
  <2>1. t[i].content \in Seq(Blocks) /\ DOMAIN t[i].content = 1..Len(t[i].content)
    BY TranscriptParts
  <2>2. Places(i) \subseteq 1..Len(t[i].content)
    BY <2>1
  <2> HIDE DEF Places
  <2>3. c(i) \in Seq(Blocks) /\ PicksOut(t[i].content, Places(i), c(i))
    BY <2>1, <2>2, PickedLists
  <2> HIDE DEF c
  <2> QED
    BY <2>2, <2>3 DEF PicksOut
<1> HIDE DEF c, u
<1>3. \A i \in 1..Len(t) : u[i] \in MessageSet /\ u[i].content = c(i) /\ u[i].role = t[i].role
  BY <1>1, <1>2, TranscriptParts, Recontent
<1>4. u \in TranscriptSet /\ Len(u) = Len(t)
  BY <1>1, <1>3, TranscriptParts DEF TranscriptSet
<1>5. \A i \in 1..Len(t) : \A k \in 1..Len(u[i].content) :
         \E l \in 1..Len(t[i].content) : u[i].content[k] = t[i].content[l]
  <2> SUFFICES ASSUME NEW i \in 1..Len(t), NEW k \in 1..Len(u[i].content)
               PROVE  \E l \in 1..Len(t[i].content) : u[i].content[k] = t[i].content[l]
    OBVIOUS
  <2>1. u[i].content = c(i)
    BY <1>3
  <2>2. k \in 1..Len(c(i))
    BY <2>1
  <2>3. \E l \in 1..Len(t[i].content) : c(i)[k] = t[i].content[l]
    BY <2>2, <1>2
  <2> QED
    BY <2>1, <2>3
<1> QED
  BY <1>3, <1>4, <1>5 DEF Thinned, u

\* What the next turn has as its history: no reasoning, and of the results
\* nothing but what was there.
LEMMA HistoryKeeps ==
  ASSUME NEW t \in TranscriptSet
  PROVE  LET h == StripReasoning(WithoutVolatile(t)) IN
         h \in TranscriptSet /\ NoReasoning(h) /\ \A b : HasResult(h, b) => HasResult(t, b)
<1> DEFINE v == WithoutVolatile(t)
           d == DropReasoning(v)
           P == {i \in DOMAIN d : d[i].content # <<>>}
           h == Picked(d, P)
<1>1. v \in TranscriptSet /\ \A b : HasResult(v, b) => HasResult(t, b)
  BY WithoutVolatileThins, ThinnedResults DEF Thinned
<1> HIDE DEF v
<1>2. d \in TranscriptSet /\ NoReasoning(d) /\ \A b : HasResult(d, b) => HasResult(v, b)
  <2>1. Thinned(v, d) /\ \A i \in 1..Len(v) : \A k \in 1..Len(d[i].content) : ~IsReasoning(d[i].content[k])
    BY <1>1, DropReasoningDrops
  <2> HIDE DEF d
  <2> QED
    BY <1>1, <2>1, ThinnedResults DEF Thinned, NoReasoning
<1>3. StripReasoning(v) = h
  BY DEF StripReasoning, Filtered
<1> HIDE DEF d
<1>4. d \in Seq(MessageSet) /\ P \subseteq 1..Len(d)
  BY <1>2, TranscriptParts DEF TranscriptSet
<1> HIDE DEF P
<1>5. h \in Seq(MessageSet) /\ PicksOut(d, P, h)
  BY <1>4, PickedLists
<1> HIDE DEF h
<1>6. \A i \in 1..Len(h) : \E j \in 1..Len(d) : h[i] = d[j]
  BY <1>4, <1>5 DEF PicksOut
<1>7. NoReasoning(h) /\ \A b : HasResult(h, b) => HasResult(d, b)
  BY <1>2, <1>6 DEF NoReasoning, HasResult
<1> QED
  BY <1>1, <1>2, <1>3, <1>5, <1>7 DEF v, TranscriptSet

-----------------------------------------------------------------------------
(* The calls of a stream *)

\* With a call of each index, and ids that are only ever given in their order,
\* the calls come out in the order of their ids.
\* l deltas of n calls, which are numbered on from first.
Streams(deltas, l, n, first) ==
  /\ DOMAIN deltas = 1..l
  /\ \A k \in 1..l : deltas[k].index \in 1..n /\ deltas[k].id \in {0, first + deltas[k].index}
  /\ \A i \in 1..n : \E k \in 1..l : deltas[k].index = i /\ deltas[k].id # 0

\* Whatever the deltas of a stream interleave, its calls come out numbered in
\* the order they began.
LEMMA StreamedInOrder ==
  ASSUME NEW n \in Nat, NEW first \in Nat, NEW deltas, NEW l \in Nat, Streams(deltas, l, n, first)
  PROVE  StreamedUses(deltas) = [i \in 1..n |-> ToolUse(first + i, "none")]
<1> DEFINE seen == {deltas[k].index : k \in DOMAIN deltas}
           Given(i) == {k \in DOMAIN deltas : deltas[k].index = i /\ deltas[k].id # 0}
           indices == Ascending(seen)
<1> USE DEF Streams
<1>1. seen = 1..n
  <2>1. \A i \in 1..n : i \in seen
    OBVIOUS
  <2>2. \A i \in seen : i \in 1..n
    OBVIOUS
  <2> HIDE DEF seen
  <2> QED
    BY <2>1, <2>2
<1>2. Len(indices) = n /\ \A i \in 1..n : indices[i] = i
  <2>1. /\ Len(Ascending((0 + 1)..(0 + n))) = n
        /\ \A i \in 1..n : Ascending((0 + 1)..(0 + n))[i] = 0 + i
    BY AscendingInterval
  <2>2. (0 + 1)..(0 + n) = 1..n /\ \A i \in 1..n : 0 + i = i
    OBVIOUS
  <2>3. indices = Ascending((0 + 1)..(0 + n))
    <3> HIDE DEF seen
    <3> QED
      BY <1>1, <2>2
  <2> HIDE DEF indices
  <2> QED
    BY <2>1, <2>2, <2>3
<1>3. DOMAIN indices = 1..n
  <2>1. seen \subseteq Nat /\ IsFiniteSet(seen)
    <3>1. 1..n \subseteq Nat /\ IsFiniteSet(1..n)
      BY FS_Interval
    <3> HIDE DEF seen
    <3> QED
      BY <1>1, <3>1
  <2>2. indices \in Seq(seen)
    <3> HIDE DEF seen
    <3> QED
      BY <2>1, AscendingLists
  <2> HIDE DEF indices
  <2> QED
    BY <1>2, <2>2
<1>4. \A i \in 1..n : deltas[Max(Given(i))].id = first + i
  <2> TAKE i \in 1..n
  <2>1. Given(i) \subseteq Nat /\ Given(i) # {} /\ \A k \in Given(i) : k <= l
    <3>1. PICK k \in 1..l : deltas[k].index = i /\ deltas[k].id # 0
      OBVIOUS
    <3>2. k \in Given(i)
      BY <3>1
    <3>3. \A j \in Given(i) : j \in 1..l
      OBVIOUS
    <3>4. \A j \in 1..l : j \in Nat /\ j <= l
      OBVIOUS
    <3> HIDE DEF Given
    <3>5. \A j \in Given(i) : j \in Nat /\ j <= l
      BY <3>3, <3>4
    <3> QED
      BY <3>2, <3>5
  <2>2. \E k \in Given(i) : \A j \in Given(i) : k >= j
    <3> HIDE DEF Given
    <3> QED
      BY <2>1, NatMax
  <2>3. Max(Given(i)) \in Given(i)
    <3> HIDE DEF Given
    <3> QED
      BY <2>2 DEF Max
  <2>4. \A k \in Given(i) : deltas[k].id = first + i
    OBVIOUS
  <2> HIDE DEF Given
  <2> QED
    BY <2>3, <2>4
<1>5. StreamedUses(deltas) = [i \in DOMAIN indices |-> ToolUse(deltas[Max(Given(indices[i]))].id, "none")]
  BY DEF StreamedUses
<1> HIDE DEF indices, Given
<1> QED
  BY <1>2, <1>3, <1>4, <1>5

-----------------------------------------------------------------------------
(* What a call's output becomes *)

OutputKinds == [what : {"text", "screen", "failed"}, size : Nat]

\* What became of a call.
Fates == OutputKinds \cup {NotRun}

\* The output of a call is a text of its size.
LEMMA OutputType ==
  ASSUME NEW c \in Nat, NEW n \in Nat
  PROVE  Output(c, n) \in Texts /\ Len(Output(c, n)) = n
<1>1. \A i \in 1..n : <<"out", c, i>> \in Marks
  BY DEF Marks
<1> HIDE DEF Marks
<1> QED
  BY <1>1 DEF Output, Texts

\* What a tool returned, before any cut.
LEMMA WholeType ==
  ASSUME NEW c \in Nat, NEW kind \in OutputKinds
  PROVE  /\ Whole(c, kind) \in ResultContents
         /\ kind.what = "text" => Whole(c, kind) = Plain(Output(c, kind.size))
         /\ kind.what = "screen" => Whole(c, kind).form = "list"
<1>1. kind.what \in {"text", "screen", "failed"} /\ kind.size \in Nat
  BY DEF OutputKinds
<1> DEFINE text == Output(c, kind.size)
<1>2. text \in Texts
  BY <1>1, OutputType
<1> HIDE DEF text
<1>3. Plain(text) \in ResultContents /\ Plain(<<Note>>) \in ResultContents
  BY <1>2, MarkTypes DEF Plain, ResultContents
<1>4. Items(<<TextItem(text), ImageItem>>) \in ResultContents /\ Items(<<TextItem(text), ImageItem>>).form = "list"
  <2>1. TextItem(text) \in ResultItems /\ ImageItem \in ResultItems
    BY <1>2 DEF TextItem, ImageItem, ResultItems
  <2> QED
    BY <2>1 DEF Items, ResultContents
<1> QED
  BY <1>1, <1>3, <1>4 DEF Whole, text

\* A preview is short and names its file.
LEMMA PreviewType ==
  ASSUME NEW text \in Texts, NEW p \in Nat
  PROVE  /\ Preview(text, p) \in Texts /\ Len(Preview(text, p)) <= SpillHead + SpillTail + 3
         /\ Path(p) \in ToSet(Preview(text, p))
<1> DEFINE a == Cut(text, SpillHead)
           b == Ending(text, SpillTail)
           d == <<Note, Path(p)>>
<1>1. SpillHead \in Nat /\ SpillTail \in Nat
  BY SizesAssumption
<1>2. /\ a \in Seq(Marks) /\ Len(a) <= SpillHead /\ b \in Seq(Marks) /\ Len(b) <= SpillTail
      /\ <<Note>> \in Seq(Marks) /\ d \in Seq(Marks) /\ Len(<<Note>>) = 1 /\ Len(d) = 2
  BY <1>1, CutType, MarkTypes DEF Texts
<1>3. ToSet(d) = {d[i] : i \in 1..2} /\ d[2] = Path(p)
  BY DEF ToSet
<1>4. Preview(text, p) = ((a \o <<Note>>) \o b) \o d
  BY DEF Preview
<1> HIDE DEF a, b, d
<1>5. a \o <<Note>> \in Seq(Marks) /\ Len(a \o <<Note>>) = Len(a) + 1
  BY <1>2, Joining
<1>6. (a \o <<Note>>) \o b \in Seq(Marks) /\ Len((a \o <<Note>>) \o b) = Len(a) + 1 + Len(b)
  BY <1>2, <1>5, Joining
<1>7. /\ ((a \o <<Note>>) \o b) \o d \in Seq(Marks) /\ Len(((a \o <<Note>>) \o b) \o d) = Len(a) + 1 + Len(b) + 2
      /\ ToSet(d) \subseteq ToSet(((a \o <<Note>>) \o b) \o d)
  <2> DEFINE e == (a \o <<Note>>) \o b
  <2>1. e \in Seq(Marks) /\ Len(e) = Len(a) + 1 + Len(b) /\ d \in Seq(Marks) /\ Len(d) = 2
    BY <1>2, <1>6
  <2> HIDE DEF e
  <2>2. e \o d \in Seq(Marks) /\ Len(e \o d) = Len(e) + Len(d)
    BY <2>1, Joining
  <2>3. ToSet(e \o d) = ToSet(e) \cup ToSet(d)
    BY <2>1, ToSetJoined
  <2> QED
    BY <2>1, <2>2, <2>3 DEF e
<1>8. Path(p) \in ToSet(d)
  BY <1>3
<1>9. Len(a) \in Nat /\ Len(b) \in Nat
  BY <1>2
<1>10. Len(Preview(text, p)) <= SpillHead + SpillTail + 3
  BY <1>1, <1>2, <1>4, <1>7, <1>9
<1> QED
  BY <1>4, <1>7, <1>8, <1>10 DEF Texts

\* A cut text followed by its note is a text.
LEMMA CutNoteType ==
  ASSUME NEW text \in Texts, NEW n \in Nat
  PROVE  Cut(text, n) \o <<Note>> \in Texts
<1>1. Cut(text, n) \in Seq(Marks) /\ <<Note>> \in Seq(Marks)
  BY CutType, MarkTypes DEF Texts
<1> QED
  BY <1>1, Joining DEF Texts

\* Capping a list leaves a list of texts and images.
LEMMA CapItemsType ==
  ASSUME NEW items \in Seq(ResultItems), NEW cap \in Nat
  PROVE  CapItems(items, cap) \in Seq(ResultItems)
<1> DEFINE size == [i \in DOMAIN items |-> IF items[i].type = "text" THEN Len(items[i].text) ELSE 0]
           Before(i) == SumFunctionOnSet(size, 1..(i - 1))
           part == TextItem(<<Note>>)
           Capped(i) ==
             IF items[i].type # "text" THEN <<items[i]>>
             ELSE IF Before(i) >= cap THEN <<>>
             ELSE IF Before(i) + size[i] <= cap THEN <<items[i]>>
             ELSE <<TextItem(Cut(items[i].text, cap - Before(i)) \o <<Note>>)>>
           ss == [i \in DOMAIN items |-> Capped(i)]
<1>1. /\ Len(items) \in Nat /\ DOMAIN items = 1..Len(items)
      /\ \A i \in 1..Len(items) : items[i] \in ResultItems /\ items[i].text \in Texts
  BY MarkTypes DEF ResultItems
<1>2. \A text \in Texts : Len(text) \in Nat
  BY DEF Texts
<1>3. \A i \in 1..Len(items) : size[i] \in Nat
  BY <1>1, <1>2
<1> HIDE DEF size
<1>4. \A i \in 1..Len(items) : Before(i) \in Nat
  <2> TAKE i \in 1..Len(items)
  <2>1. IsFiniteSet(1..(i - 1)) /\ \A j \in 1..(i - 1) : size[j] \in Nat
    <3>1. i \in Nat /\ \A j \in 1..(i - 1) : j \in 1..Len(items)
      BY <1>1
    <3>2. IsFiniteSet(1..(i - 1))
      BY <3>1, FS_Interval
    <3> QED
      BY <1>3, <3>1, <3>2
  <2> QED
    BY <2>1, SumType
<1> HIDE DEF Before
<1>5. \A i \in 1..Len(items) : Capped(i) \in Seq(ResultItems)
  <2> TAKE i \in 1..Len(items)
  <2>1. <<items[i]>> \in Seq(ResultItems) /\ <<>> \in Seq(ResultItems)
    BY <1>1
  <2>2. ASSUME ~(Before(i) >= cap)
        PROVE  <<TextItem(Cut(items[i].text, cap - Before(i)) \o <<Note>>)>> \in Seq(ResultItems)
    <3>1. cap - Before(i) \in Nat
      BY <1>4, <2>2
    <3> DEFINE text == Cut(items[i].text, cap - Before(i)) \o <<Note>>
    <3>2. text \in Texts
      BY <1>1, <3>1, CutNoteType
    <3> HIDE DEF text
    <3>3. TextItem(text) \in ResultItems
      BY <3>2 DEF TextItem, ResultItems
    <3> HIDE DEF ResultItems
    <3>4. <<TextItem(text)>> \in Seq(ResultItems)
      BY <3>3
    <3> QED
      BY <3>4 DEF text
  <2> QED
    BY <2>1, <2>2
<1>6. CapItems(items, cap) = FlattenSeq(ss)
  BY DEF CapItems, size, Before
<1> HIDE DEF Capped
<1>7. ss \in Seq(Seq(ResultItems))
  BY <1>1, <1>5
<1> HIDE DEF ss
<1> QED
  BY <1>6, <1>7, FlattenLists

\* The cap leaves a result a result, and one that fits as it was.
LEMMA CapContentType ==
  ASSUME NEW content \in ResultContents, NEW cap \in Nat
  PROVE  /\ CapContent(content, cap) \in ResultContents
         /\ cap = 0 \/ Len(ContentText(content)) <= cap => CapContent(content, cap) = content
<1>1. CASE cap = 0 \/ Len(ContentText(content)) <= cap
  BY <1>1 DEF CapContent
<1>2. CASE ~(cap = 0 \/ Len(ContentText(content)) <= cap)
  <2>1. CASE content.form = "text"
    <3>1. content.text \in Texts
      BY <2>1, ContentParts
    <3> DEFINE text == Cut(content.text, cap) \o <<Note>>
    <3>2. text \in Texts
      BY <3>1, CutNoteType
    <3>3. CapContent(content, cap) = Plain(text)
      BY <1>2, <2>1 DEF CapContent
    <3> HIDE DEF text
    <3> QED
      BY <1>2, <3>2, <3>3 DEF Plain, ResultContents
  <2>2. CASE content.form # "text"
    <3>1. content.items \in Seq(ResultItems)
      BY <2>2, ContentParts
    <3>2. CapItems(content.items, cap) \in Seq(ResultItems)
      BY <3>1, CapItemsType
    <3>3. CapContent(content, cap) = Items(CapItems(content.items, cap))
      BY <1>2, <2>2 DEF CapContent
    <3> QED
      BY <1>2, <3>2, <3>3 DEF Items, ResultContents
  <2> QED
    BY <2>1, <2>2
<1> QED
  BY <1>1, <1>2

\* What is shown of a call is a content, and of a spilled output, if it is not
\* cut as well, the preview.
LEMMA ShownType ==
  ASSUME NEW c \in Nat, NEW kind \in OutputKinds, NEW p \in Nat, config \in Configs,
         p # 0 => kind.what = "text"
  PROVE  /\ Shown(c, kind, p) \in ResultContents
         /\ p # 0 => Uncut(c, kind, p) = Plain(Preview(Output(c, kind.size), p))
<1>1. config.cap \in Nat
  BY ConfigsAssumption
<1>2. Whole(c, kind) \in ResultContents
  BY WholeType
<1>3. Uncut(c, kind, p) \in ResultContents
  <2>1. CASE p = 0
    BY <1>2, <2>1 DEF Uncut
  <2>2. CASE p # 0
    <3>1. kind.size \in Nat
      BY DEF OutputKinds
    <3>2. Preview(Output(c, kind.size), p) \in Texts
      BY <3>1, OutputType, PreviewType
    <3>3. Uncut(c, kind, p) = Plain(Preview(Output(c, kind.size), p))
      BY <2>2, WholeType DEF Uncut, Plain
    <3> QED
      BY <3>2, <3>3 DEF Plain, ResultContents
  <2> QED
    BY <2>1, <2>2
<1>4. p # 0 => Uncut(c, kind, p) = Plain(Preview(Output(c, kind.size), p))
  BY WholeType DEF Uncut, Plain
<1>5. Shown(c, kind, p) \in ResultContents
  BY <1>1, <1>2, <1>3, CapContentType DEF Shown
<1> QED
  BY <1>4, <1>5

-----------------------------------------------------------------------------
(* The inductive invariant *)

\* The types of a run's state, and a spilled output has its file.
ContextTypes ==
  /\ config \in Configs
  /\ phase \in {"pass", "model", "tools", "ended"}
  /\ messages \in TranscriptSet
  /\ files \in Seq(Texts)
  /\ returned \in Seq(Fates)
  /\ born \in Seq(TranscriptSet)
  /\ DOMAIN spilled \subseteq 1..Len(returned)
  /\ \A c \in DOMAIN spilled : spilled[c] \in 1..Len(files)

\* The calls of a batch that runs are numbered on from those that returned, and
\* a result is of a call that did.
BatchInv ==
  /\ messages # <<>>
  /\ phase = "tools" =>
       /\ Last(messages).role = "assistant" /\ Uses(Last(messages)) # <<>>
       /\ \A i \in 1..Len(Uses(Last(messages))) : Uses(Last(messages))[i].id = Len(returned) + i
  /\ \A b : HasResult(messages, b) => b.id \in 1..Len(returned)

\* A request in flight says the transcript, and has reasoning off after an edit.
RequestInv ==
  phase = "model" =>
    /\ request.messages = messages
    /\ request.edited /\ config.reasoning # "none" => request.reasoning = "off"

\* Each reasoning block follows what its request said.
Fresh(t, conversations) ==
  \A i \in 1..Len(t) : \A k \in 1..Len(t[i].content) :
    IsReasoning(t[i].content[k]) =>
      /\ t[i].content[k].id \in 1..Len(conversations)
      /\ Stored(SubSeq(t, 1, i - 1)) = Stored(conversations[t[i].content[k].id])

ContextInv == ContextTypes /\ BatchInv /\ RequestInv /\ Fresh(messages, born)

\* Transcripts that agree up to n have the same start.
LEMMA SameStart ==
  ASSUME NEW t \in TranscriptSet, NEW u \in TranscriptSet, NEW n \in Nat, n <= Len(t), n <= Len(u),
         \A j \in 1..n : u[j] = t[j]
  PROVE  SubSeq(u, 1, n) = SubSeq(t, 1, n)
<1> DEFINE v == SubSeq(u, 1, n)
           w == SubSeq(t, 1, n)
<1>1. /\ v \in TranscriptSet /\ Len(v) = n /\ \A j \in 1..n : v[j] = u[j]
      /\ w \in TranscriptSet /\ Len(w) = n /\ \A j \in 1..n : w[j] = t[j]
  BY StartOfTranscript
<1> HIDE DEF v, w
<1>2. v \in Seq(MessageSet) /\ w \in Seq(MessageSet) /\ Len(v) = Len(w) /\ \A j \in 1..Len(v) : v[j] = w[j]
  BY <1>1 DEF TranscriptSet
<1>3. v = w
  BY <1>2, SeqEqual
<1> QED
  BY <1>3 DEF v, w

\* A transcript that another one goes on from is as fresh.
LEMMA FreshGrows ==
  ASSUME NEW t \in TranscriptSet, NEW u \in TranscriptSet, NEW bs, Fresh(t, bs),
         \A i \in 1..Len(u) : \A k \in 1..Len(u[i].content) : IsReasoning(u[i].content[k]) =>
           /\ i \in 1..Len(t) /\ \E l \in 1..Len(t[i].content) : u[i].content[k] = t[i].content[l]
           /\ \A j \in 1..(i - 1) : u[j] = t[j]
  PROVE  Fresh(u, bs)
<1> SUFFICES ASSUME NEW i \in 1..Len(u), NEW k \in 1..Len(u[i].content), IsReasoning(u[i].content[k])
             PROVE  /\ u[i].content[k].id \in 1..Len(bs)
                    /\ Stored(SubSeq(u, 1, i - 1)) = Stored(bs[u[i].content[k].id])
  BY DEF Fresh
<1>1. PICK l \in 1..Len(t[i].content) : u[i].content[k] = t[i].content[l]
  OBVIOUS
<1>2. i \in 1..Len(t) /\ \A j \in 1..(i - 1) : u[j] = t[j]
  OBVIOUS
<1>3. /\ t[i].content[l].id \in 1..Len(bs)
      /\ Stored(SubSeq(t, 1, i - 1)) = Stored(bs[t[i].content[l].id])
  BY <1>1, <1>2 DEF Fresh
<1>4. Len(t) \in Nat /\ Len(u) \in Nat
  BY TranscriptParts
<1>5. i - 1 \in Nat /\ i - 1 <= Len(t) /\ i - 1 <= Len(u)
  BY <1>2, <1>4
<1>6. SubSeq(u, 1, i - 1) = SubSeq(t, 1, i - 1)
  <2> DEFINE n == i - 1
  <2>1. n \in Nat /\ n <= Len(t) /\ n <= Len(u) /\ \A j \in 1..n : u[j] = t[j]
    BY <1>2, <1>5
  <2> HIDE DEF n
  <2>2. SubSeq(u, 1, n) = SubSeq(t, 1, n)
    BY <2>1, SameStart
  <2> QED
    BY <2>2 DEF n
<1> QED
  BY <1>1, <1>3, <1>6

\* Storing keeps each reasoning after what its request said.
LEMMA FreshStored ==
  ASSUME NEW t \in TranscriptSet, NEW bs, Fresh(t, bs)
  PROVE  Fresh(Stored(t), bs)
<1> DEFINE u == Stored(t)
<1>1. Rewritten(t, u) /\ \A i \in 1..Len(t) : \A k \in 1..Len(t[i].content) : u[i].content[k] = Still(t[i].content[k])
  BY StoredBlocks
<1>2. u = Stored(t)
  OBVIOUS
<1> HIDE DEF u
<1> SUFFICES ASSUME NEW i \in 1..Len(u), NEW k \in 1..Len(u[i].content), IsReasoning(u[i].content[k])
             PROVE  /\ u[i].content[k].id \in 1..Len(bs)
                    /\ Stored(SubSeq(u, 1, i - 1)) = Stored(bs[u[i].content[k].id])
  BY <1>2 DEF Fresh
<1>3. i \in 1..Len(t) /\ k \in 1..Len(t[i].content) /\ u[i].content[k] = Still(t[i].content[k])
  BY <1>1 DEF Rewritten
<1>4. u[i].content[k] = t[i].content[k]
  BY <1>3, StillBlocks, TranscriptParts
<1>5. t[i].content[k].id \in 1..Len(bs) /\ Stored(SubSeq(t, 1, i - 1)) = Stored(bs[t[i].content[k].id])
  BY <1>3, <1>4 DEF Fresh
<1> DEFINE n == i - 1
<1>6. n \in Nat /\ n <= Len(t) /\ Len(u) = Len(t) /\ u \in TranscriptSet
  BY <1>1, <1>3, TranscriptParts DEF Rewritten
<1> HIDE DEF n
<1>7. Stored(SubSeq(u, 1, n)) = SubSeq(Stored(u), 1, n)
  BY <1>6, StoredStart
<1>8. Stored(u) = u
  BY <1>2, StoredTwice
<1>9. Stored(SubSeq(t, 1, n)) = SubSeq(u, 1, n)
  BY <1>2, <1>6, StoredStart
<1> QED
  BY <1>4, <1>5, <1>7, <1>8, <1>9 DEF n

\* A transcript without reasoning has none that is stale.
LEMMA FreshWithout ==
  ASSUME NEW t, NEW bs, NoReasoning(t)
  PROVE  Fresh(t, bs)
BY DEF Fresh, NoReasoning

\* A further request disturbs no earlier reasoning.
LEMMA FreshLater ==
  ASSUME NEW t \in TranscriptSet, NEW bs \in Seq(TranscriptSet), NEW new \in TranscriptSet, Fresh(t, bs)
  PROVE  Fresh(t, Append(bs, new))
<1>1. Len(Append(bs, new)) = Len(bs) + 1 /\ Len(bs) \in Nat /\ \A i \in 1..Len(bs) : Append(bs, new)[i] = bs[i]
  OBVIOUS
<1>2. \A i \in 1..Len(bs) : i \in 1..Len(Append(bs, new))
  BY <1>1
<1> QED
  BY <1>1, <1>2 DEF Fresh

\* A transcript is the whole of itself.
LEMMA SliceWhole ==
  ASSUME NEW t \in TranscriptSet PROVE SubSeq(t, 1, Len(t)) = t
<1>1. t \in Seq(MessageSet) /\ Len(t) \in Nat
  BY DEF TranscriptSet
<1> DEFINE w == SubSeq(t, 1, Len(t))
<1>2. w \in TranscriptSet /\ Len(w) = Len(t) /\ \A j \in 1..Len(t) : w[j] = t[j]
  BY <1>1, StartOfTranscript
<1> HIDE DEF w
<1>3. w = t
  BY <1>1, <1>2, SeqEqual DEF TranscriptSet
<1> QED
  BY <1>3 DEF w

\* What a request's answer adds to its messages has the request as its past.
LEMMA FreshAnswer ==
  ASSUME NEW t \in TranscriptSet, NEW u \in TranscriptSet, NEW bs \in Seq(TranscriptSet), Fresh(t, bs),
         Len(u) > Len(t), \A i \in 1..Len(t) : u[i] = t[i],
         \A i \in 1..Len(u) : \A k \in 1..Len(u[i].content) :
           IsReasoning(u[i].content[k]) /\ i > Len(t) =>
             i = Len(t) + 1 /\ u[i].content[k].id = Len(bs) /\ Len(bs) > 0 /\ bs[Len(bs)] = t
  PROVE  Fresh(u, bs)
<1>1. Len(t) \in Nat /\ Len(u) \in Nat /\ Len(bs) \in Nat
  BY TranscriptParts
<1> SUFFICES ASSUME NEW i \in 1..Len(u), NEW k \in 1..Len(u[i].content), IsReasoning(u[i].content[k])
             PROVE  /\ u[i].content[k].id \in 1..Len(bs)
                    /\ Stored(SubSeq(u, 1, i - 1)) = Stored(bs[u[i].content[k].id])
  BY DEF Fresh
<1>2. CASE i <= Len(t)
  <2>1. i \in 1..Len(t) /\ i - 1 \in Nat /\ i - 1 <= Len(t) /\ i - 1 <= Len(u) /\ u[i] = t[i]
    BY <1>1, <1>2
  <2>2. \A j \in 1..(i - 1) : u[j] = t[j]
    BY <1>1, <2>1
  <2>3. SubSeq(u, 1, i - 1) = SubSeq(t, 1, i - 1)
    BY <2>1, <2>2, SameStart
  <2> QED
    BY <2>1, <2>3 DEF Fresh
<1>3. CASE i > Len(t)
  <2>1. i = Len(t) + 1 /\ u[i].content[k].id = Len(bs) /\ Len(bs) > 0 /\ bs[Len(bs)] = t
    BY <1>3
  <2>2. i - 1 = Len(t) /\ Len(bs) \in 1..Len(bs)
    BY <1>1, <2>1
  <2>3. SubSeq(u, 1, Len(t)) = SubSeq(t, 1, Len(t))
    BY <1>1, SameStart
  <2>4. SubSeq(t, 1, Len(t)) = t
    BY SliceWhole
  <2> QED
    BY <2>1, <2>2, <2>3, <2>4
<1> QED
  BY <1>1, <1>2, <1>3

-----------------------------------------------------------------------------
(* The clearing *)

\* The positions of results are those of the blocks that are results.
LEMMA ResultPositionsAre ==
  ASSUME NEW t \in TranscriptSet
  PROVE  /\ \A p \in ResultPositions(t) : HasResult(t, t[p[1]].content[p[2]])
         /\ \A b : HasResult(t, b) => \E p \in ResultPositions(t) : b = t[p[1]].content[p[2]]
<1> DEFINE Spots(i) == {k \in DOMAIN t[i].content : IsResult(t[i].content[k])}
           Pairs(i) == {<<i, k>> : k \in Spots(i)}
<1>1. ResultPositions(t) = UNION {Pairs(i) : i \in DOMAIN t}
  BY DEF ResultPositions
<1>2. DOMAIN t = 1..Len(t) /\ \A i \in 1..Len(t) : DOMAIN t[i].content = 1..Len(t[i].content)
  BY TranscriptParts
<1>3. \A i \in 1..Len(t) : \A k \in Spots(i) : HasResult(t, t[i].content[k])
  BY <1>2 DEF HasResult
<1>4. \A i \in 1..Len(t) : \A k \in 1..Len(t[i].content) : IsResult(t[i].content[k]) => k \in Spots(i)
  BY <1>2
<1> HIDE DEF Spots
<1>5. \A i : \A p \in Pairs(i) : p[1] = i /\ p[2] \in Spots(i)
  OBVIOUS
<1>6. \A i : \A k \in Spots(i) : <<i, k>> \in Pairs(i) /\ <<i, k>>[1] = i /\ <<i, k>>[2] = k
  OBVIOUS
<1> HIDE DEF Pairs
<1>7. \A p \in ResultPositions(t) : HasResult(t, t[p[1]].content[p[2]])
  <2> TAKE p \in ResultPositions(t)
  <2>1. PICK i \in DOMAIN t : p \in Pairs(i)
    BY <1>1
  <2>2. p[1] = i /\ p[2] \in Spots(i)
    BY <1>5, <2>1
  <2> QED
    BY <1>2, <1>3, <2>1, <2>2
<1>8. \A b : HasResult(t, b) => \E p \in ResultPositions(t) : b = t[p[1]].content[p[2]]
  <2> SUFFICES ASSUME NEW b, HasResult(t, b) PROVE \E p \in ResultPositions(t) : b = t[p[1]].content[p[2]]
    OBVIOUS
  <2>1. PICK i \in 1..Len(t) : \E k \in 1..Len(t[i].content) : b = t[i].content[k]
    BY DEF HasResult
  <2>2. PICK k \in 1..Len(t[i].content) : b = t[i].content[k]
    BY <2>1
  <2>3. k \in Spots(i)
    BY <1>4, <2>2 DEF HasResult
  <2> DEFINE p == <<i, k>>
  <2>4. p \in Pairs(i) /\ p[1] = i /\ p[2] = k
    BY <1>6, <2>3
  <2> HIDE DEF p
  <2>5. p \in ResultPositions(t)
    BY <1>1, <1>2, <2>4
  <2> QED
    BY <2>2, <2>4, <2>5
<1> QED
  BY <1>7, <1>8

\* What is cleared is the result of some call in the transcript.
LEMMA ToClearIds ==
  ASSUME NEW t \in TranscriptSet, NEW keep, NEW done, NEW c \in ToClear(t, keep, done)
  PROVE  \E b : HasResult(t, b) /\ b.id = c
<1> DEFINE old == {t[p[1]].content[p[2]] : p \in Older(ResultPositions(t), keep)}
<1>1. ToClear(t, keep, done) \subseteq {b.id : b \in old}
  BY DEF ToClear
<1>2. PICK b \in old : b.id = c
  BY <1>1
<1>3. PICK p \in Older(ResultPositions(t), keep) : b = t[p[1]].content[p[2]]
  BY <1>2
<1>4. p \in ResultPositions(t)
  BY <1>3 DEF Older
<1> QED
  BY <1>2, <1>3, <1>4, ResultPositionsAre

\* The text saved for a call is that of a result of its call.
LEMMA TextOfResult ==
  ASSUME NEW t \in TranscriptSet, NEW c, \E b : HasResult(t, b) /\ b.id = c
  PROVE  \E b : HasResult(t, b) /\ b.id = c /\ TextOf(t, c) = ContentText(b.content)
<1> DEFINE Block(p) == t[p[1]].content[p[2]]
           p == CHOOSE q \in ResultPositions(t) : Block(q).id = c
<1>1. \E q \in ResultPositions(t) : Block(q).id = c
  BY ResultPositionsAre
<1>2. p \in ResultPositions(t) /\ Block(p).id = c
  <2> HIDE DEF Block
  <2> QED
    BY <1>1
<1>3. TextOf(t, c) = ContentText(Block(p).content)
  BY DEF TextOf
<1> HIDE DEF p
<1>4. HasResult(t, Block(p))
  BY <1>2, ResultPositionsAre
<1> QED
  BY <1>2, <1>3, <1>4

\* What a pass begins with: the transcript as steered, the results it clears
\* and the files it saves them to.
Clearing(heard, ids, saved) ==
  /\ heard \in TranscriptSet /\ \A b : HasResult(heard, b) => HasResult(messages, b)
  /\ ids \subseteq 1..Len(returned) /\ saved \subseteq ids \ DOMAIN spilled
  /\ \A c \in ids : \E b : HasResult(heard, b) /\ b.id = c

PathOf(saved, c) ==
  IF c \in DOMAIN spilled THEN spilled[c] ELSE IF c \in saved THEN SavedAs(saved)[c] ELSE 0

\* The files a spill or a clearing saves come after those there are.
LEMMA SavedPaths ==
  ASSUME ContextTypes, NEW saved, saved \subseteq Nat, IsFiniteSet(saved)
  PROVE  /\ Cardinality(saved) \in Nat /\ Len(files) \in Nat
         /\ \A c \in saved : SavedAs(saved)[c] \in (Len(files) + 1)..(Len(files) + Cardinality(saved))
         /\ \A c \in saved : Ascending(saved)[SavedAs(saved)[c] - Len(files)] = c
<1>1. Cardinality(saved) \in Nat /\ Len(files) \in Nat
  BY FS_CardinalityType DEF ContextTypes
<1> DEFINE Rank(c) == Cardinality({d \in saved : d <= c})
           A == Ascending(saved)
<1>2. /\ \A c \in saved : Rank(c) \in 1..Cardinality(saved)
      /\ \A x, z \in saved : x < z => Rank(x) < Rank(z)
  BY Ranks
<1>3. A \in Seq(saved) /\ Len(A) = Cardinality(saved) /\ \A i \in 1..Len(A) : Rank(A[i]) = i
  BY AscendingLists
<1>4. \A c \in saved : SavedAs(saved)[c] = Len(files) + Rank(c)
  BY DEF SavedAs
<1> HIDE DEF Rank, A
<1>5. \A c \in saved : A[Rank(c)] = c
  <2> TAKE c \in saved
  <2>1. Rank(c) \in 1..Len(A) /\ Rank(c) \in Nat
    BY <1>1, <1>2, <1>3
  <2>2. A[Rank(c)] \in saved /\ Rank(A[Rank(c)]) = Rank(c)
    BY <1>3, <2>1
  <2>3. A[Rank(c)] \in Nat /\ c \in Nat
    BY <2>2
  <2>4. ~(A[Rank(c)] < c) /\ ~(c < A[Rank(c)])
    <3>1. ~(Rank(c) < Rank(c))
      BY <2>1
    <3>2. A[Rank(c)] < c => Rank(A[Rank(c)]) < Rank(c)
      BY <1>2, <2>2
    <3>3. c < A[Rank(c)] => Rank(c) < Rank(A[Rank(c)])
      BY <1>2, <2>2
    <3> QED
      BY <3>1, <3>2, <3>3, <2>2
  <2> QED
    BY <2>3, <2>4
<1>6. \A c \in saved : SavedAs(saved)[c] - Len(files) = Rank(c)
  BY <1>1, <1>2, <1>4
<1> QED
  BY <1>1, <1>2, <1>4, <1>5, <1>6 DEF A

\* A cleared result has a path, or 0 for none.
LEMMA PathsType ==
  ASSUME ContextTypes, NEW heard, NEW ids, NEW saved, Clearing(heard, ids, saved)
  PROVE  \A c \in ids : PathOf(saved, c) \in Nat
<1>1. saved \subseteq Nat /\ IsFiniteSet(saved)
  <2>1. returned \in Seq(Fates)
    BY DEF ContextTypes
  <2>2. saved \subseteq 1..Len(returned) /\ Len(returned) \in Nat
    BY <2>1 DEF Clearing
  <2>3. IsFiniteSet(1..Len(returned)) /\ 1..Len(returned) \subseteq Nat
    BY <2>2, FS_Interval
  <2> QED
    BY <2>2, <2>3, FS_Subset
<1>2. /\ Cardinality(saved) \in Nat /\ Len(files) \in Nat
      /\ \A c \in saved : SavedAs(saved)[c] \in (Len(files) + 1)..(Len(files) + Cardinality(saved))
  BY <1>1, SavedPaths
<1>3. \A c \in saved : SavedAs(saved)[c] \in Nat
  BY <1>2
<1>4. \A c \in DOMAIN spilled : spilled[c] \in Nat
  BY <1>2 DEF ContextTypes
<1> QED
  BY <1>3, <1>4 DEF PathOf

\* A clearing that writes the files kept, and loses more, and what becomes of the
\* results in it.
Edits(heard, ids, saved, kept, lost, t) ==
  /\ Clearing(heard, ids, saved)
  /\ kept = files \o [i \in 1..Cardinality(saved) |-> TextOf(heard, Ascending(saved)[i])]
  /\ lost = unsaved \cup {c \in ids : PathOf(saved, c) = 0}
  /\ \A b : HasResult(t, b) =>
       \E a : /\ HasResult(heard, a) /\ b.id = a.id
              /\ ContentText(b.content) =
                   IF a.id \in ids THEN Stub(ContentText(a.content), PathOf(saved, a.id))
                   ELSE ContentText(a.content)

\* Words for the model leave the results and the reasoning as they are.
LEMMA HearsMore ==
  ASSUME NEW t \in TranscriptSet, NEW bs, Fresh(t, bs), NEW id \in Words
  PROVE  LET u == AppendUserText(t, Text(id, FALSE)) IN
         /\ u \in TranscriptSet /\ u # <<>>
         /\ \A b : HasResult(u, b) => HasResult(t, b)
         /\ Fresh(u, bs)
<1> DEFINE text == Text(id, FALSE)
           u == AppendUserText(t, text)
<1>1. text \in Speech
  <2>1. FALSE \in BOOLEAN
    OBVIOUS
  <2> QED
    BY <2>1 DEF Text, Speech
<1> HIDE DEF text
<1>2. /\ u \in TranscriptSet /\ Len(u) >= 1 /\ Len(u) \in {Len(t), Len(t) + 1}
      /\ \A i \in 1..Len(t) : i < Len(u) => u[i] = t[i]
      /\ \A i \in 1..Len(u) : \A k \in 1..Len(u[i].content) :
           \/ u[i].content[k] = text
           \/ i \in 1..Len(t) /\ k \in 1..Len(t[i].content)
              /\ u[i].content[k] = t[i].content[k]
  BY <1>1, AppendUserTextAdds, SMTT(30)
<1> HIDE DEF u
<1>3. ~IsResult(text) /\ ~IsReasoning(text)
  BY <1>1, Kinds
<1>4. \A b : HasResult(u, b) => HasResult(t, b)
  BY <1>2, <1>3 DEF HasResult
<1>5. \A i \in 1..Len(u) : \A k \in 1..Len(u[i].content) : IsReasoning(u[i].content[k]) =>
        /\ i \in 1..Len(t) /\ \E l \in 1..Len(t[i].content) : u[i].content[k] = t[i].content[l]
        /\ \A j \in 1..(i - 1) : u[j] = t[j]
  <2> SUFFICES ASSUME NEW i \in 1..Len(u), NEW k \in 1..Len(u[i].content), IsReasoning(u[i].content[k])
               PROVE  /\ i \in 1..Len(t) /\ \E l \in 1..Len(t[i].content) : u[i].content[k] = t[i].content[l]
                      /\ \A j \in 1..(i - 1) : u[j] = t[j]
    OBVIOUS
  <2>1. i \in 1..Len(t) /\ k \in 1..Len(t[i].content) /\ u[i].content[k] = t[i].content[k]
    BY <1>2, <1>3
  <2>2. Len(t) \in Nat /\ Len(u) \in Nat
    BY <1>2, TranscriptParts
  <2>3. \A j \in 1..(i - 1) : j \in 1..Len(t) /\ j < Len(u)
    BY <2>1, <2>2
  <2> QED
    BY <1>2, <2>1, <2>3
<1>6. Fresh(u, bs)
  BY <1>2, <1>5, FreshGrows
<1>7. u # <<>>
  BY <1>2, EmptySeq
<1> QED
  BY <1>2, <1>4, <1>6, <1>7 DEF u, text

\* What the start of a pass does: the edits of the transcript, and a request
\* that says it, with reasoning off if it was edited.
LEMMA BeginPassEffect ==
  ASSUME ContextInv, NEW steered \in BOOLEAN, NEW reached \in BOOLEAN, NEW works,
         BeginPass(steered, reached, works)
  PROVE  /\ phase = "pass" /\ phase' = "model"
         /\ UNCHANGED <<config, runStart, spilled, born, returned>>
         /\ \E heard, ids, saved : Edits(heard, ids, saved, files', unsaved', messages')
         /\ messages' \in TranscriptSet /\ messages' # <<>>
         /\ Fresh(messages', born)
         /\ request'.messages = messages'
         /\ request'.edited /\ config.reasoning # "none" => request'.reasoning = "off"
<1> DEFINE heard == Heard(steered, reached)
           ids == IF over THEN ToClear(heard, KeepResults, cleared) ELSE {}
           saved == IF config.workspace /\ works THEN ids \ DOMAIN spilled ELSE {}
           paths == [c \in ids |-> IF c \in DOMAIN spilled THEN spilled[c]
                                   ELSE IF c \in saved THEN SavedAs(saved)[c] ELSE 0]
           stubbed == IF ids = {} THEN heard ELSE ClearedResults(heard, ids, paths)
           shown == IF ImagesDue(stubbed, KeepImages) THEN ClearImages(stubbed, KeepImages) ELSE stubbed
           edited == ids # {} \/ ImagesDue(stubbed, KeepImages)
<1>1. /\ phase = "pass" /\ phase' = "model" /\ messages' = shown
      /\ UNCHANGED <<config, runStart, spilled, born, returned>>
      /\ files' = files \o [i \in 1..Cardinality(saved) |-> TextOf(heard, Ascending(saved)[i])]
      /\ unsaved' = unsaved \cup {c \in ids : paths[c] = 0}
  BY DEF BeginPass
<1>2. request'.messages = shown /\ request'.edited = edited
      /\ request'.reasoning = (IF edited /\ config.reasoning # "none" THEN "off" ELSE config.reasoning)
  <2>1. request' = [ messages |-> shown, edited |-> edited, start |-> runStart,
                     system |-> config.system, tools |-> config.tools, model |-> config.model,
                     choice |-> ToolChoice(reached),
                     reasoning |-> IF edited /\ config.reasoning # "none"
                                   THEN "off" ELSE config.reasoning ]
    BY DEF BeginPass
  <2> HIDE DEF shown, edited
  <2> QED
    BY <2>1
<1>3. /\ messages \in TranscriptSet /\ messages # <<>>
      /\ Fresh(messages, born) /\ \A b : HasResult(messages, b) => b.id \in 1..Len(returned)
  BY <1>1 DEF ContextInv, ContextTypes, BatchInv
<1>4. /\ heard \in TranscriptSet /\ heard # <<>>
      /\ \A b : HasResult(heard, b) => HasResult(messages, b)
      /\ Fresh(heard, born)
  <2> DEFINE noted == IF steered THEN AppendUserText(messages, Text("steer", FALSE)) ELSE messages
  <2>1. "steer" \in Words /\ "budget" \in Words
    BY DEF Words
  <2>2. /\ noted \in TranscriptSet /\ noted # <<>>
        /\ \A b : HasResult(noted, b) => HasResult(messages, b)
        /\ Fresh(noted, born)
    BY <1>3, <2>1, HearsMore
  <2>3. heard = IF reached THEN AppendUserText(noted, Text("budget", FALSE)) ELSE noted
    BY DEF Heard
  <2> HIDE DEF noted, heard
  <2> QED
    BY <2>1, <2>2, <2>3, HearsMore
<1> HIDE DEF heard
<1>5. Clearing(heard, ids, saved)
  <2>1. \A c \in ids : \E b : HasResult(heard, b) /\ b.id = c
    BY <1>4, ToClearIds
  <2> HIDE DEF ids
  <2>2. ids \subseteq 1..Len(returned)
    BY <1>3, <1>4, <2>1
  <2>3. saved \subseteq ids \ DOMAIN spilled
    OBVIOUS
  <2> HIDE DEF saved
  <2> QED
    BY <1>4, <2>1, <2>2, <2>3 DEF Clearing
<1> HIDE DEF ids, saved
<1>6. paths = [c \in ids |-> PathOf(saved, c)] /\ \A c \in ids : paths[c] = PathOf(saved, c) /\ paths[c] \in Nat
  <2>1. \A c \in ids : PathOf(saved, c) \in Nat
    BY <1>5, PathsType DEF ContextInv
  <2> QED
    BY <2>1 DEF PathOf
<1> HIDE DEF paths
<1>7. /\ stubbed \in TranscriptSet /\ Len(stubbed) = Len(heard)
      /\ \A i \in 1..Len(heard) : stubbed[i].role = heard[i].role
      /\ ids # {} => NoReasoning(stubbed)
      /\ \A b : HasResult(stubbed, b) =>
           \E a : /\ HasResult(heard, a) /\ b.id = a.id
                  /\ ContentText(b.content) =
                       IF a.id \in ids THEN Stub(ContentText(a.content), PathOf(saved, a.id))
                       ELSE ContentText(a.content)
  <2>1. CASE ids = {}
    <3>1. stubbed = heard
      BY <2>1
    <3> HIDE DEF stubbed
    <3> QED
      BY <1>4, <2>1, <3>1
  <2>2. CASE ids # {}
    <3>1. stubbed = ClearedResults(heard, ids, paths)
      BY <2>2
    <3> HIDE DEF stubbed
    <3>2. ClearKeep \in Nat
      BY SizesAssumption
    <3>3. /\ stubbed \in TranscriptSet /\ Len(stubbed) = Len(heard) /\ NoReasoning(stubbed)
          /\ \A i \in 1..Len(heard) : stubbed[i].role = heard[i].role
          /\ \A b : HasResult(stubbed, b) =>
              \E a : /\ HasResult(heard, a) /\ b.id = a.id
                     /\ IF a.id \in ids THEN b.content = Plain(Stub(ContentText(a.content), paths[a.id]))
                        ELSE b.content = a.content
      BY <1>4, <1>6, <3>1, <3>2, ClearedResultsEdit
    <3>4. \A text : ContentText(Plain(text)) = text
      BY DEF ContentText, Plain
    <3> QED
      BY <1>6, <3>3, <3>4
  <2> QED
    BY <2>1, <2>2
<1> HIDE DEF stubbed
<1>8. /\ shown \in TranscriptSet /\ Len(shown) = Len(heard)
      /\ \A i \in 1..Len(heard) : shown[i].role = heard[i].role
      /\ edited => NoReasoning(shown)
      /\ ~edited => shown = heard
      /\ \A b : HasResult(shown, b) =>
              \E a : HasResult(stubbed, a) /\ b.id = a.id /\ ContentText(b.content) = ContentText(a.content)
  <2>1. CASE ~ImagesDue(stubbed, KeepImages)
    <3>1. shown = stubbed
      BY <2>1
    <3>2. ids = {} => stubbed = heard
      BY DEF stubbed
    <3> HIDE DEF shown
    <3> QED
      BY <1>7, <2>1, <3>1, <3>2
  <2>2. CASE ImagesDue(stubbed, KeepImages)
    <3>1. shown = ClearImages(stubbed, KeepImages)
      BY <2>2
    <3> HIDE DEF shown
    <3> QED
      BY <1>7, <2>2, <3>1, ClearImagesEdit
  <2> QED
    BY <2>1, <2>2
<1> HIDE DEF shown, edited
<1>9. Fresh(shown, born)
  BY <1>4, <1>8, FreshWithout
<1>10. shown # <<>>
  BY <1>4, <1>8, EmptySeq DEF TranscriptSet
<1>11. \A b : HasResult(shown, b) =>
         \E a : /\ HasResult(heard, a) /\ b.id = a.id
                /\ ContentText(b.content) =
                     IF a.id \in ids THEN Stub(ContentText(a.content), PathOf(saved, a.id))
                     ELSE ContentText(a.content)
  BY <1>7, <1>8
<1>12. unsaved' = unsaved \cup {c \in ids : PathOf(saved, c) = 0}
  <2>1. {c \in ids : paths[c] = 0} = {c \in ids : PathOf(saved, c) = 0}
    BY <1>6
  <2> QED
    BY <1>1, <2>1
<1>13. request'.edited /\ config.reasoning # "none" => request'.reasoning = "off"
  BY <1>2
<1>14. Edits(heard, ids, saved, files', unsaved', shown)
  <2>1. files' = files \o [n \in 1..Cardinality(saved) |-> TextOf(heard, Ascending(saved)[n])]
    BY <1>1
  <2> QED
    BY <2>1, <1>5, <1>11, <1>12, Zenon DEF Edits
<1>15. phase = "pass" /\ phase' = "model" /\ UNCHANGED <<config, runStart, spilled, born, returned>>
       /\ messages' = shown
  BY <1>1
<1>16. messages' \in TranscriptSet /\ messages' # <<>>
       /\ Fresh(messages', born) /\ request'.messages = messages'
  BY <1>2, <1>8, <1>9, <1>10, <1>15
<1>17. \E h, i, s : Edits(h, i, s, files', unsaved', messages')
  BY <1>14, <1>15, Zenon
<1> QED
  BY <1>13, <1>15, <1>16, <1>17

-----------------------------------------------------------------------------
(* The answer *)

\* The members of SequencesUpTo.
LEMMA SequencesType ==
  ASSUME NEW S, NEW n \in Nat, NEW s \in SequencesUpTo(S, n)
  PROVE  s \in Seq(S) /\ Len(s) \in 0..n /\ DOMAIN s = 1..Len(s) /\ \A i \in 1..Len(s) : s[i] \in S
<1>1. PICK k \in 0..n : s \in [1..k -> S]
  BY DEF SequencesUpTo
<1> QED
  BY <1>1

\* The toolsets an agent offers are words.
LEMMA OfferedWords ==
  ASSUME config \in Configs PROVE ToolsetsOffered \subseteq Words
<1>1. config.tools \in Seq([name : STRING, native : STRING])
  BY ConfigsAssumption
<1>2. \A i \in DOMAIN config.tools : config.tools[i].native \in STRING
  <2> DEFINE offered == config.tools
  <2> HIDE DEF offered
  <2>1. offered \in Seq([name : STRING, native : STRING])
    BY <1>1 DEF offered
  <2> DEFINE Tools == [name : STRING, native : STRING]
  <2>2. \A tool \in Tools : tool.native \in STRING
    OBVIOUS
  <2>3. offered \in Seq(Tools)
    BY <2>1
  <2> HIDE DEF Tools
  <2>4. \A i \in DOMAIN offered : offered[i] \in Tools
    BY <2>3
  <2> QED
    BY <2>2, <2>4 DEF offered
<1> QED
  BY <1>2 DEF ToolsetsOffered, Words

\* The deltas of calls numbered on from first.
DeltasOf(order, first) ==
  [k \in DOMAIN order |->
     [index |-> order[k], id |-> IF \E j \in 1..(k - 1) : order[j] = order[k] THEN 0 ELSE first + order[k]]]

\* An answer's calls, in any order of its deltas, are numbered on from first.
LEMMA StreamedCalls ==
  ASSUME NEW thought, NEW toolsets \in SequencesUpTo(ToolsetsOffered, MaxBatch), NEW first \in Nat,
         NEW order \in StreamOrders(thought, toolsets)
  PROVE  StreamedUses(DeltasOf(order, first)) = [i \in 1..Len(toolsets) |-> ToolUse(first + i, "none")]
<1> DEFINE n == Len(toolsets)
           deltas == DeltasOf(order, first)
<1>1. n \in Nat /\ n \in 0..MaxBatch
  BY BoundsAssumption, SequencesType
<1>2. order \in Orders[n]
  BY DEF StreamOrders
<1> HIDE DEF n
<1>3. /\ order \in [1..(2 * n) -> 1..n]
      /\ \A i \in 1..n : Cardinality({k \in DOMAIN order : order[k] = i}) = 2
  BY <1>1, <1>2 DEF Orders
<1>4. 2 * n \in Nat /\ DOMAIN order = 1..(2 * n)
  BY <1>1, <1>3
<1>5. DOMAIN deltas = 1..(2 * n)
  BY <1>4 DEF DeltasOf
<1>6. \A k \in 1..(2 * n) :
        /\ deltas[k].index = order[k]
        /\ deltas[k].id = IF \E j \in 1..(k - 1) : order[j] = order[k] THEN 0 ELSE first + order[k]
  BY <1>4 DEF DeltasOf
<1> HIDE DEF deltas
<1>7. \A k \in 1..(2 * n) : deltas[k].index \in 1..n /\ deltas[k].id \in {0, first + deltas[k].index}
  BY <1>3, <1>6
<1>8. \A i \in 1..n : \E k \in 1..(2 * n) : deltas[k].index = i /\ deltas[k].id # 0
  <2> TAKE i \in 1..n
  <2> DEFINE Spots == {k \in DOMAIN order : order[k] = i}
  <2>1. Spots # {} /\ Spots \subseteq Nat
    <3>1. Cardinality(Spots) = 2
      BY <1>3
    <3>2. Spots \subseteq 1..(2 * n)
      BY <1>4
    <3> HIDE DEF Spots
    <3> QED
      <4>1. Spots # {}
        BY <3>1, FS_EmptySet
      <4>2. 1..(2 * n) \subseteq Nat
        BY <1>4
      <4> QED
        BY <3>2, <4>1, <4>2
  <2>2. PICK k \in Spots : \A j \in Spots : k <= j
    <3> HIDE DEF Spots
    <3> QED
      BY <2>1, NatMin
  <2>3. k \in 1..(2 * n) /\ order[k] = i
    BY <1>4, <2>2
  <2>4. ~\E j \in 1..(k - 1) : order[j] = order[k]
    <3> SUFFICES ASSUME NEW j \in 1..(k - 1), order[j] = order[k] PROVE FALSE
      OBVIOUS
    <3>1. j \in 1..(2 * n) /\ j < k
      BY <1>4, <2>3
    <3>2. j \in Spots
      BY <1>4, <2>3, <3>1
    <3>3. k <= j
      BY <2>2, <3>2
    <3> QED
      BY <2>3, <3>1, <3>3
  <2>5. deltas[k].id = first + i /\ deltas[k].index = i
    BY <1>6, <2>3, <2>4
  <2>6. first + i # 0
    BY <1>1
  <2> QED
    BY <2>3, <2>5, <2>6
<1>9. StreamedUses(deltas) = [i \in 1..n |-> ToolUse(first + i, "none")]
  <2> DEFINE l == 2 * n
  <2>1. l \in Nat /\ DOMAIN deltas = 1..l
    BY <1>4, <1>5
  <2>2. \A k \in 1..l : deltas[k].index \in 1..n /\ deltas[k].id \in {0, first + deltas[k].index}
    BY <1>7
  <2>3. \A i \in 1..n : \E k \in 1..l : deltas[k].index = i /\ deltas[k].id # 0
    BY <1>8
  <2> HIDE DEF l
  <2>4. Streams(deltas, l, n, first)
    BY <2>1, <2>2, <2>3 DEF Streams
  <2> QED
    BY <1>1, <2>1, <2>4, StreamedInOrder
<1> QED
  BY <1>9 DEF deltas, n

\* Calls that never ran are numbered like any.
LEMMA UnrunFates ==
  ASSUME returned \in Seq(Fates), NEW n \in Nat
  PROVE  LET all == returned \o [i \in 1..n |-> NotRun] IN
         /\ all \in Seq(Fates) /\ Len(all) \in Nat
         /\ \A c \in 1..Len(returned) : c \in 1..Len(all) /\ all[c] = returned[c]
         /\ \A i \in 1..n : Len(returned) + i \in 1..Len(all) /\ all[Len(returned) + i].what = "unrun"
<1> DEFINE K == Fates
           failures == [i \in 1..n |-> NotRun]
           all == returned \o failures
<1>1. NotRun \in K /\ NotRun.what = "unrun"
  BY DEF NotRun, Fates
<1>2. returned \in Seq(K) /\ failures = [i \in 1..n |-> NotRun]
  OBVIOUS
<1> HIDE DEF K, failures
<1>3. failures \in Seq(K) /\ Len(failures) = n /\ \A i \in 1..n : failures[i] = NotRun
  BY <1>1, <1>2
<1>4. /\ all \in Seq(K) /\ Len(all) = Len(returned) + n /\ Len(returned) \in Nat
      /\ \A c \in 1..Len(returned) : all[c] = returned[c]
      /\ \A i \in 1..n : all[Len(returned) + i] = NotRun
  BY <1>2, <1>3
<1>5. /\ \A c \in 1..Len(returned) : c \in 1..(Len(returned) + n)
      /\ \A i \in 1..n : Len(returned) + i \in 1..(Len(returned) + n)
      /\ Len(returned) + n \in Nat
  BY <1>4
<1> HIDE DEF all
<1> QED
  BY <1>1, <1>4, <1>5 DEF K, failures, all

\* What stands in for calls that never ran is one message of their results.
LEMMA UnrunMessage ==
  ASSUME NEW uses \in Seq(CallBlocks)
  PROVE  LET m == UnrunResults(uses) IN
         /\ m \in MessageSet /\ m.role = "user"
         /\ \A k \in 1..Len(m.content) : k \in 1..Len(uses) /\ ~IsReasoning(m.content[k])
                                        /\ m.content[k].id = uses[k].id
<1> DEFINE B(j) == ToolResult(uses[j].id, Plain(<<Note>>), TRUE, "none")
           results == [j \in 1..Len(uses) |-> B(j)]
           m == Message("user", results)
<1>1. Len(uses) \in Nat /\ DOMAIN uses = 1..Len(uses) /\ \A j \in 1..Len(uses) : uses[j].id \in Nat
  <2>1. \A b \in CallBlocks : b.id \in Nat
    BY DEF CallBlocks
  <2> QED
    BY <2>1
<1>2. UnrunResults(uses) = m
  BY <1>1 DEF UnrunResults
<1>3. ASSUME NEW j \in 1..Len(uses)
      PROVE  B(j) \in Blocks /\ ~IsReasoning(B(j)) /\ B(j).id = uses[j].id
  <2>1. Plain(<<Note>>) \in ResultContents /\ "none" \in Words
    BY MarkTypes DEF Plain, ResultContents, Words
  <2>2. uses[j].id \in Nat
    BY <1>1
  <2> DEFINE content == Plain(<<Note>>)
             id == uses[j].id
             b == ToolResult(id, content, TRUE, "none")
  <2>3. content \in ResultContents /\ id \in Nat /\ TRUE \in BOOLEAN
    BY <2>1, <2>2
  <2> HIDE DEF content, id
  <2>4. b \in Blocks /\ ~IsReasoning(b) /\ b.id = id
    BY <2>1, <2>3, ToolResultType
  <2> QED
    BY <2>4 DEF content, id
<1> HIDE DEF B
<1>4. results \in Seq(Blocks) /\ Len(results) = Len(uses) /\ \A k \in 1..Len(results) : k \in 1..Len(uses) /\ results[k] = B(k)
  <2> DEFINE T == Blocks
  <2>1. \A j \in 1..Len(uses) : B(j) \in T
    BY <1>3
  <2> HIDE DEF T
  <2>2. results \in Seq(T) /\ Len(results) = Len(uses) /\ \A k \in 1..Len(results) : k \in 1..Len(uses) /\ results[k] = B(k)
    BY <1>1, <2>1
  <2> QED
    BY <2>2 DEF T
<1> HIDE DEF results
<1>5. m \in MessageSet /\ m.role = "user" /\ m.content = results
  BY <1>4, MessageType
<1> HIDE DEF m
<1> QED
  BY <1>2, <1>3, <1>4, <1>5

\* A model's answer keeps the invariant and adds no result but of calls that never
\* run.
LEMMA AnswerEffect ==
  ASSUME ContextInv, NEW thought \in BOOLEAN, NEW tooLong \in BOOLEAN,
         NEW toolsets \in SequencesUpTo(ToolsetsOffered, MaxBatch),
         NEW said \in {<<>>, <<Text("answer", FALSE)>>},
         NEW order \in {<<>>} \cup StreamOrders(thought, toolsets),
         NEW signal, ModelAnswers(thought, said, toolsets, order, tooLong, signal)
  PROVE  /\ ContextInv'
         /\ \A c \in 1..Len(returned) : returned'[c] = returned[c]
         /\ \A b : HasResult(messages', b) => HasResult(messages, b) \/ returned'[b.id].what = "unrun"
<1> DEFINE first == Len(returned)
           n == Len(toolsets)
           reasoning == IF thought THEN <<Reasoning(Len(born) + 1, Provider)>> ELSE <<>>
           uses == IF order # <<>> THEN StreamedUses(DeltasOf(order, first))
                   ELSE [i \in DOMAIN toolsets |-> ToolUse(first + i, toolsets[i])]
           before == reasoning \o said
           answer == Message("assistant", before \o uses)
           halted == uses # <<>> /\ (winding \/ signal = "cancel")
           heeds == uses = <<>> /\ ~winding /\ signal = "message"
           nudged == uses = <<>> /\ ~winding /\ ~heeds /\ config.structured
           nudge == Message("user", <<Text("nudge", FALSE)>>)
           after == IF halted THEN UnrunResults(uses) ELSE nudge
           followed == halted \/ nudged
<1>1. /\ phase = "model"
      /\ messages' = IF followed THEN messages \o <<answer, after>> ELSE Append(messages, answer)
      /\ returned' = IF halted THEN returned \o [i \in DOMAIN uses |-> NotRun] ELSE returned
      /\ born' = IF thought THEN Append(born, request.messages) ELSE born
      /\ phase' \in {"pass", "tools", "ended"} /\ (phase' = "tools" => uses # <<>> /\ ~followed)
      /\ UNCHANGED <<config, runStart, cleared, spilled, request, files, unsaved>>
  <2>1. /\ phase = "model"
        /\ messages' = IF halted THEN messages \o <<answer, UnrunResults(uses)>>
                       ELSE IF nudged THEN messages \o <<answer, nudge>>
                       ELSE Append(messages, answer)
        /\ returned' = IF halted THEN returned \o [i \in DOMAIN uses |-> NotRun] ELSE returned
        /\ born' = IF thought THEN Append(born, request.messages) ELSE born
        /\ phase' = IF uses # <<>> /\ ~halted THEN "tools" ELSE IF heeds \/ nudged THEN "pass" ELSE "ended"
        /\ UNCHANGED <<config, runStart, cleared, spilled, request, files, unsaved>>
    BY DEF ModelAnswers, ParseMessage, DeltasOf
  <2> DEFINE none == uses = <<>>
             unrun == UnrunResults(uses)
             fates == returned \o [i \in DOMAIN uses |-> NotRun]
             out == winding \/ signal = "cancel"
  <2>2. nudged => none
    OBVIOUS
  <2> HIDE DEF answer, uses, nudge, heeds, nudged, unrun, fates
  <2>3. /\ phase' \in {"pass", "tools", "ended"} /\ (phase' = "tools" => uses # <<>> /\ ~followed)
    BY <2>1, <2>2
  <2>4. messages' = IF followed THEN messages \o <<answer, after>> ELSE Append(messages, answer)
    BY <2>1
  <2> QED
    BY <2>1, <2>3, <2>4
<1>2. /\ config \in Configs /\ messages \in TranscriptSet /\ born \in Seq(TranscriptSet)
      /\ returned \in Seq(Fates) /\ request.messages = messages /\ Fresh(messages, born)
      /\ \A b : HasResult(messages, b) => b.id \in 1..Len(returned)
  BY <1>1 DEF ContextInv, ContextTypes, BatchInv, RequestInv
<1>3. first \in Nat /\ n \in Nat /\ DOMAIN toolsets = 1..n /\ \A i \in 1..n : toolsets[i] \in Words
  BY <1>2, BoundsAssumption, SequencesType, OfferedWords
<1>4. uses \in Seq(CallBlocks) /\ \A i \in 1..Len(uses) : uses[i].id = first + i
  <2>1. \A i \in 1..n : \A w \in Words : ToolUse(first + i, w) \in CallBlocks /\ ToolUse(first + i, w).id = first + i
    <3>1. \A i \in 1..n : first + i \in Nat
      BY <1>3
    <3> HIDE DEF first
    <3> QED
      BY <3>1 DEF ToolUse, CallBlocks
  <2>2. "none" \in Words
    BY DEF Words
  <2>3. CASE order # <<>>
    <3>1. uses = [i \in 1..n |-> ToolUse(first + i, "none")]
      BY <1>3, <2>3, StreamedCalls
    <3> DEFINE Use(i) == ToolUse(first + i, "none")
    <3>2. \A i \in 1..n : Use(i) \in CallBlocks /\ Use(i).id = first + i
      BY <2>1, <2>2
    <3>3. uses = [i \in 1..n |-> Use(i)]
      BY <3>1
    <3> HIDE DEF uses, n, first, Use
    <3> QED
      BY <1>3, <3>2, <3>3
  <2>4. CASE order = <<>>
    <3>1. uses = [i \in 1..n |-> ToolUse(first + i, toolsets[i])]
      BY <1>3, <2>4
    <3> DEFINE Use(i) == ToolUse(first + i, toolsets[i])
    <3>2. \A i \in 1..n : Use(i) \in CallBlocks /\ Use(i).id = first + i
      BY <1>3, <2>1
    <3>3. uses = [i \in 1..n |-> Use(i)]
      BY <3>1
    <3> HIDE DEF uses, n, first, Use
    <3> QED
      BY <1>3, <3>2, <3>3
  <2> QED
    BY <2>3, <2>4
<1> HIDE DEF uses, n, first
<1>5. before \in Seq(Blocks)
      /\ \A k \in 1..Len(before) : /\ ~IsUse(before[k]) /\ ~IsResult(before[k])
                                   /\ IsReasoning(before[k]) => thought /\ before[k].id = Len(born) + 1
  <2> DEFINE thoughts == Reasoning(Len(born) + 1, Provider)
             text == Text("answer", FALSE)
  <2>1. thoughts \in Blocks /\ ~IsUse(thoughts) /\ ~IsResult(thoughts) /\ thoughts.id = Len(born) + 1
    <3>1. Len(born) + 1 \in Nat
      BY <1>2
    <3>2. Provider \in Words
      BY DEF Words
    <3> QED
      BY <3>1, <3>2 DEF Reasoning, ThoughtBlocks, Blocks, IsUse, IsResult
  <2>2. text \in Blocks /\ ~IsUse(text) /\ ~IsResult(text) /\ ~IsReasoning(text)
    <3>1. "answer" \in Words /\ FALSE \in BOOLEAN
      BY DEF Words
    <3>2. text \in Speech
      BY <3>1 DEF Text, Speech
    <3> QED
      BY <3>2, Kinds DEF Blocks
  <2> HIDE DEF thoughts, text
  <2>3. reasoning \in Seq(Blocks) /\ Len(reasoning) \in {0, 1}
        /\ \A k \in 1..Len(reasoning) : reasoning[k] = thoughts /\ thought
    <3>1. CASE thought
      <4>1. reasoning = <<thoughts>>
        BY <3>1 DEF thoughts
      <4> HIDE DEF reasoning
      <4> QED
        BY <2>1, <3>1, <4>1
    <3>2. CASE ~thought
      <4>1. reasoning = <<>>
        BY <3>2
      <4> HIDE DEF reasoning
      <4> QED
        BY <4>1
    <3> QED
      BY <3>1, <3>2
  <2>4. said \in Seq(Blocks) /\ \A k \in 1..Len(said) : said[k] = text
    <3>1. said \in {<<>>, <<text>>}
      BY DEF text
    <3>2. CASE said = <<>>
      BY <3>2
    <3>3. CASE said = <<text>>
      <4>1. <<text>> \in Seq(Blocks) /\ \A k \in 1..Len(<<text>>) : <<text>>[k] = text
        BY <2>2
      <4> QED
        BY <3>3, <4>1
    <3> QED
      BY <3>1, <3>2, <3>3
  <2> HIDE DEF reasoning
  <2>5. before \in Seq(Blocks) /\ \A k \in 1..Len(before) : before[k] = text \/ (before[k] = thoughts /\ thought)
    BY <2>3, <2>4
  <2> HIDE DEF before
  <2> QED
    BY <2>1, <2>2, <2>5
<1> HIDE DEF before
<1>6. answer \in MessageSet /\ answer.role = "assistant" /\ answer.content = before \o uses
  <2>1. uses \in Seq(Blocks)
    BY <1>4 DEF Blocks
  <2>2. before \o uses \in Seq(Blocks)
    BY <1>5, <2>1
  <2> QED
    BY <2>2, MessageType
<1> HIDE DEF answer
<1>7. Uses(answer) = uses
  BY <1>4, <1>5, <1>6, UsesAtEnd
<1>8. \A k \in 1..Len(answer.content) :
        /\ ~IsResult(answer.content[k])
        /\ IsReasoning(answer.content[k]) => thought /\ answer.content[k].id = Len(born) + 1
  <2>1. \A b \in CallBlocks : ~IsResult(b) /\ ~IsReasoning(b)
    BY DEF CallBlocks, IsResult, IsReasoning
  <2>2. \A k \in 1..Len(answer.content) :
          \/ \E j \in 1..Len(before) : answer.content[k] = before[j]
          \/ \E j \in 1..Len(uses) : answer.content[k] = uses[j]
    <3>1. before \in Seq(Blocks) /\ uses \in Seq(CallBlocks) /\ answer.content = before \o uses
      BY <1>4, <1>5, <1>6
    <3>2. /\ Len(answer.content) = Len(before) + Len(uses) /\ Len(before) \in Nat /\ Len(uses) \in Nat
          /\ \A k \in 1..(Len(before) + Len(uses)) :
               answer.content[k] = IF k <= Len(before) THEN before[k] ELSE uses[k - Len(before)]
      BY <3>1
    <3>3. \A k \in 1..(Len(before) + Len(uses)) : k \in 1..Len(before) \/ k - Len(before) \in 1..Len(uses)
      BY <3>2
    <3>4. \A k \in 1..(Len(before) + Len(uses)) : k - Len(before) \in 1..Len(uses) => ~(k <= Len(before))
      BY <3>2
    <3>5. \A k \in 1..Len(before) : k <= Len(before)
      BY <3>2
    <3> QED
      BY <3>2, <3>3, <3>4, <3>5
  <2>3. \A j \in 1..Len(uses) : uses[j] \in CallBlocks
    BY <1>4
  <2> QED
    BY <1>5, <2>1, <2>2, <2>3
<1>9. /\ nudge \in MessageSet /\ nudge.role = "user"
      /\ \A k \in 1..Len(nudge.content) : ~IsResult(nudge.content[k]) /\ ~IsReasoning(nudge.content[k])
  <2> DEFINE text == Text("nudge", FALSE)
  <2>1. "nudge" \in Words /\ FALSE \in BOOLEAN
    BY DEF Words
  <2>2. text \in Speech
    BY <2>1 DEF Text, Speech
  <2>3. <<text>> \in Seq(Blocks) /\ ~IsResult(text) /\ ~IsReasoning(text)
    <3>1. text \in Blocks /\ ~IsResult(text) /\ ~IsReasoning(text)
      <4> HIDE DEF text
      <4> QED
        BY <2>2, Kinds DEF Blocks
    <3> HIDE DEF text
    <3> QED
      BY <3>1
  <2> HIDE DEF text
  <2>4. nudge = Message("user", <<text>>)
    BY DEF text
  <2>5. nudge.content = <<text>> /\ nudge \in MessageSet /\ nudge.role = "user"
    BY <2>3, <2>4, MessageType
  <2> HIDE DEF nudge
  <2> QED
    BY <2>3, <2>5
<1> HIDE DEF nudge, halted, nudged
<1>18. /\ returned' \in Seq(Fates) /\ Len(returned') \in Nat
       /\ \A c \in 1..Len(returned) : c \in 1..Len(returned') /\ returned'[c] = returned[c]
       /\ halted => \A i \in 1..Len(uses) : first + i \in 1..Len(returned') /\ returned'[first + i].what = "unrun"
       /\ ~halted => returned' = returned
  <2>1. CASE ~halted
    BY <1>1, <1>2, <2>1
  <2>2. CASE halted
    <3> DEFINE n_ == Len(uses)
               all == returned \o [i \in 1..n_ |-> NotRun]
    <3>1. n_ \in Nat /\ DOMAIN uses = 1..n_
      BY <1>4
    <3>2. returned' = all
      BY <1>1, <2>2, <3>1
    <3> HIDE DEF n_
    <3>3. /\ all \in Seq(Fates) /\ Len(all) \in Nat
          /\ \A c \in 1..Len(returned) : c \in 1..Len(all) /\ all[c] = returned[c]
          /\ \A i \in 1..n_ : Len(returned) + i \in 1..Len(all) /\ all[Len(returned) + i].what = "unrun"
      BY <1>2, <3>1, UnrunFates
    <3> HIDE DEF all
    <3> QED
      BY <2>2, <3>2, <3>3 DEF n_, first
  <2> QED
    BY <2>1, <2>2
<1>19. /\ after \in MessageSet /\ after.role = "user"
       /\ \A k \in 1..Len(after.content) :
            /\ ~IsReasoning(after.content[k])
            /\ IsResult(after.content[k]) =>
                 after.content[k].id \in 1..Len(returned') /\ returned'[after.content[k].id].what = "unrun"
  <2>1. CASE ~halted
    BY <1>9, <2>1
  <2>2. CASE halted
    <3>1. after = UnrunResults(uses)
      BY <2>2
    <3> HIDE DEF after
    <3>2. /\ after \in MessageSet /\ after.role = "user"
          /\ \A k \in 1..Len(after.content) : k \in 1..Len(uses) /\ ~IsReasoning(after.content[k])
                                             /\ after.content[k].id = uses[k].id
      BY <1>4, <3>1, UnrunMessage
    <3>3. \A k \in 1..Len(after.content) :
            after.content[k].id \in 1..Len(returned') /\ returned'[after.content[k].id].what = "unrun"
      <4> TAKE k \in 1..Len(after.content)
      <4>1. k \in 1..Len(uses) /\ after.content[k].id = first + k
        BY <1>4, <3>2
      <4> QED
        BY <1>18, <2>2, <4>1
    <3> QED
      BY <3>2, <3>3
  <2> QED
    BY <2>1, <2>2
<1> HIDE DEF after, followed
<1>10. /\ messages' \in TranscriptSet
       /\ Len(messages') > Len(messages) /\ \A i \in 1..Len(messages) : messages'[i] = messages[i]
       /\ messages'[Len(messages) + 1] = answer /\ messages' # <<>>
       /\ \A i \in 1..Len(messages') : i > Len(messages) + 1 => messages'[i] = after
       /\ ~followed => Last(messages') = answer
  <2>1. messages \in Seq(MessageSet)
    BY <1>2 DEF TranscriptSet
  <2>2. CASE followed
    <3>1. messages' = messages \o <<answer, after>>
      BY <1>1, <2>2
    <3> QED
      BY <1>6, <1>19, <2>1, <2>2, <3>1 DEF TranscriptSet, Last
  <2>3. CASE ~followed
    <3>1. messages' = Append(messages, answer)
      BY <1>1, <2>3
    <3> QED
      BY <1>6, <2>1, <2>3, <3>1 DEF TranscriptSet, Last
  <2> QED
    BY <2>2, <2>3
<1>11. Len(messages) \in Nat /\ Len(messages') \in Nat /\ Len(born) \in Nat
  BY <1>2, <1>10, TranscriptParts
<1>12. \A b : HasResult(messages', b) =>
          HasResult(messages, b) \/ (b.id \in 1..Len(returned') /\ returned'[b.id].what = "unrun")
  <2>1. \A i \in 1..Len(messages') :
          i \in 1..Len(messages) \/ i = Len(messages) + 1 \/ i > Len(messages) + 1
    BY <1>11
  <2>2. \A i \in 1..Len(messages') : messages'[i] = answer \/ messages'[i] = after
                                     \/ (i \in 1..Len(messages) /\ messages'[i] = messages[i])
    <3> TAKE i \in 1..Len(messages')
    <3>1. CASE i \in 1..Len(messages)
      BY <1>10, <3>1
    <3>2. CASE i = Len(messages) + 1
      <4>1. messages'[i] = answer
        BY <1>10, <3>2
      <4> QED
        BY <4>1
    <3>3. CASE i > Len(messages) + 1
      <4>1. messages'[i] = after
        BY <1>10, <3>3
      <4> QED
        BY <4>1
    <3> QED
      BY <2>1, <3>1, <3>2, <3>3
  <2> QED
    BY <1>8, <1>19, <2>2 DEF HasResult
<1>13. born' \in Seq(TranscriptSet) /\ Fresh(messages', born')
  <2> DEFINE bs == born'
             t == messages
             u == messages'
  <2>1. bs \in Seq(TranscriptSet) /\ Fresh(messages, bs)
        /\ (thought => Len(bs) = Len(born) + 1 /\ bs[Len(bs)] = messages)
    <3>1. CASE thought
      <4>1. bs = Append(born, messages)
        BY <1>1, <1>2, <3>1
      <4>2. Fresh(messages, Append(born, messages))
        BY <1>2, FreshLater
      <4> QED
        BY <1>2, <4>1, <4>2
    <3>2. CASE ~thought
      <4>1. bs = born
        BY <1>1, <3>2
      <4> QED
        BY <1>2, <3>2, <4>1
    <3> QED
      BY <3>1, <3>2
  <2> HIDE DEF bs
  <2>2. \A i \in 1..Len(messages') : \A k \in 1..Len(messages'[i].content) :
           IsReasoning(messages'[i].content[k]) /\ i > Len(messages) =>
             i = Len(messages) + 1 /\ messages'[i].content[k].id = Len(bs) /\ Len(bs) > 0 /\ bs[Len(bs)] = messages
    <3> SUFFICES ASSUME NEW i \in 1..Len(messages'), NEW k \in 1..Len(messages'[i].content),
                        IsReasoning(messages'[i].content[k]), i > Len(messages)
                 PROVE  i = Len(messages) + 1 /\ messages'[i].content[k].id = Len(bs)
                        /\ Len(bs) > 0 /\ bs[Len(bs)] = messages
      OBVIOUS
    <3>1. i = Len(messages) + 1
      <4>1. ~(i > Len(messages) + 1)
        BY <1>10, <1>19
      <4> QED
        BY <1>11, <4>1
    <3>2. thought /\ messages'[i].content[k].id = Len(born) + 1
      BY <1>8, <1>10, <3>1
    <3>3. Len(born) + 1 > 0
      BY <1>11
    <3> QED
      BY <2>1, <3>1, <3>2, <3>3
  <2>3. t \in TranscriptSet /\ u \in TranscriptSet /\ Fresh(t, bs) /\ Len(u) > Len(t)
        /\ \A i \in 1..Len(t) : u[i] = t[i]
    BY <1>2, <1>10, <2>1
  <2>4. \A i \in 1..Len(u) : \A k \in 1..Len(u[i].content) :
           IsReasoning(u[i].content[k]) /\ i > Len(t) =>
             i = Len(t) + 1 /\ u[i].content[k].id = Len(bs) /\ Len(bs) > 0 /\ bs[Len(bs)] = t
    BY <2>2
  <2> HIDE DEF t, u
  <2>5. Fresh(u, bs)
    BY <2>1, <2>3, <2>4, FreshAnswer
  <2> QED
    BY <2>1, <2>5 DEF bs, u
<1>15. ContextTypes'
  <2>1. phase' \in {"pass", "model", "tools", "ended"}
    BY <1>1
  <2> QED
    BY <1>1, <1>10, <1>13, <1>18, <2>1 DEF ContextInv, ContextTypes
<1>16. BatchInv'
  <2>1. phase' = "tools" => /\ Last(messages').role = "assistant" /\ Uses(Last(messages')) # <<>>
                            /\ \A i \in 1..Len(Uses(Last(messages'))) : Uses(Last(messages'))[i].id = Len(returned) + i
    BY <1>1, <1>4, <1>6, <1>7, <1>10 DEF first
  <2>2. phase' = "tools" => returned' = returned
    BY <1>1, <1>18 DEF followed
  <2>3. \A b : HasResult(messages', b) => b.id \in 1..Len(returned')
    BY <1>2, <1>12, <1>18
  <2> QED
    BY <1>10, <2>1, <2>2, <2>3 DEF BatchInv
<1>17. RequestInv'
  BY <1>1 DEF RequestInv
<1> QED
  BY <1>12, <1>13, <1>15, <1>16, <1>17, <1>18 DEF ContextInv

-----------------------------------------------------------------------------
(* The files, and the passes of clearing *)

\* What is saved goes behind the files there are, each where SavedAs says.
LEMMA SavedFiles ==
  ASSUME ContextTypes, NEW saved, saved \subseteq Nat, IsFiniteSet(saved),
         NEW g \in Seq(Texts), Len(g) = Cardinality(saved)
  PROVE  LET fs == files \o g IN
         /\ fs \in Seq(Texts) /\ Len(fs) = Len(files) + Cardinality(saved)
         /\ Len(files) \in Nat /\ Cardinality(saved) \in Nat
         /\ \A p \in 1..Len(files) : p \in 1..Len(fs) /\ fs[p] = files[p]
         /\ \A c \in saved : /\ SavedAs(saved)[c] \in 1..Len(fs) /\ SavedAs(saved)[c] > 0
                             /\ \E i \in 1..Len(g) : fs[SavedAs(saved)[c]] = g[i] /\ Ascending(saved)[i] = c
<1> DEFINE fs == files \o g
           At(c) == SavedAs(saved)[c]
           A == Ascending(saved)
<1>1. files \in Seq(Texts)
  BY DEF ContextTypes
<1>2. /\ Cardinality(saved) \in Nat /\ Len(files) \in Nat
      /\ \A c \in saved : At(c) \in (Len(files) + 1)..(Len(files) + Cardinality(saved))
      /\ \A c \in saved : A[At(c) - Len(files)] = c
  BY SavedPaths
<1> HIDE DEF At, A
<1>3. /\ fs \in Seq(Texts) /\ Len(fs) = Len(files) + Len(g)
      /\ \A p \in 1..Len(files) : fs[p] = files[p]
      /\ \A i \in 1..Len(g) : fs[Len(files) + i] = g[i]
  <2> DEFINE T == Texts
  <2>1. files \in Seq(T) /\ g \in Seq(T)
    BY <1>1
  <2> HIDE DEF T
  <2>2. /\ fs \in Seq(T) /\ Len(fs) = Len(files) + Len(g)
        /\ \A p \in 1..Len(files) : fs[p] = files[p]
        /\ \A i \in 1..Len(g) : fs[Len(files) + i] = g[i]
    BY <2>1
  <2> QED
    BY <2>2 DEF T
<1> HIDE DEF fs
<1>4. \A c \in saved : At(c) \in 1..Len(fs) /\ At(c) > 0
                       /\ \E i \in 1..Len(g) : fs[At(c)] = g[i] /\ A[i] = c
  <2> TAKE c \in saved
  <2> DEFINE i == At(c) - Len(files)
  <2>1. i \in 1..Len(g) /\ At(c) = Len(files) + i /\ At(c) \in 1..Len(fs) /\ At(c) > 0
    <3> DEFINE p == At(c)
               m == Len(g)
               n == Len(files)
    <3>1. m \in Nat /\ n \in Nat /\ p \in (n + 1)..(n + m) /\ Len(fs) = n + m
      BY <1>2, <1>3
    <3> HIDE DEF p, m, n
    <3>2. p - n \in 1..m /\ p = n + (p - n) /\ p \in 1..(n + m) /\ p > 0
      BY <3>1
    <3> QED
      BY <3>1, <3>2 DEF p, m, n
  <2>2. A[i] = c
    BY <1>2
  <2> HIDE DEF i
  <2> QED
    BY <1>3, <2>1, <2>2
<1>5. \A p \in 1..Len(files) : p \in 1..Len(fs)
  BY <1>2, <1>3
<1> QED
  BY <1>2, <1>3, <1>4, <1>5 DEF At, A, fs

\* Some calls that returned are finitely many numbers.
LEMMA SomeCalls ==
  ASSUME NEW n \in Nat, NEW a \in Nat, NEW S, S \subseteq (a + 1)..n PROVE S \subseteq Nat /\ IsFiniteSet(S)
<1>1. (a + 1)..n \subseteq Nat
  OBVIOUS
<1>2. IsFiniteSet((a + 1)..n)
  BY FS_Interval
<1> QED
  BY <1>1, <1>2, FS_Subset

\* What a pass saves, as texts.
LEMMA ClearedTexts ==
  ASSUME ContextTypes, NEW heard, NEW ids, NEW saved, Clearing(heard, ids, saved)
  PROVE  /\ saved \subseteq Nat /\ IsFiniteSet(saved)
         /\ LET g == [i \in 1..Cardinality(saved) |-> TextOf(heard, Ascending(saved)[i])] IN
            /\ g \in Seq(Texts) /\ Len(g) = Cardinality(saved)
            /\ \A i \in 1..Len(g) : g[i] = TextOf(heard, Ascending(saved)[i])
<1> DEFINE A == Ascending(saved)
           g == [i \in 1..Cardinality(saved) |-> TextOf(heard, A[i])]
<1>1. saved \subseteq 1..Len(returned) /\ Len(returned) \in Nat
  BY DEF Clearing, ContextTypes
<1>2. saved \subseteq Nat /\ IsFiniteSet(saved)
  <2>1. saved \subseteq (0 + 1)..Len(returned)
    BY <1>1
  <2> QED
    BY <1>1, <2>1, SomeCalls
<1>3. A \in Seq(saved) /\ Len(A) = Cardinality(saved) /\ Cardinality(saved) \in Nat
  BY <1>2, AscendingLists, FS_CardinalityType
<1> HIDE DEF A
<1>4. \A i \in 1..Cardinality(saved) : TextOf(heard, A[i]) \in Texts
  <2> TAKE i \in 1..Cardinality(saved)
  <2>1. A[i] \in saved
    BY <1>3
  <2>2. heard \in TranscriptSet /\ \E b : HasResult(heard, b) /\ b.id = A[i]
    BY <2>1 DEF Clearing
  <2>3. PICK b : HasResult(heard, b) /\ b.id = A[i] /\ TextOf(heard, A[i]) = ContentText(b.content)
    BY <2>2, TextOfResult
  <2>4. b \in ResultBlocks
    BY <2>2, <2>3, ResultsAreBlocks
  <2>5. b.content \in ResultContents
    BY <2>4 DEF ResultBlocks
  <2> QED
    BY <2>3, <2>5, ContentTextType
<1>5. g \in Seq(Texts) /\ Len(g) = Cardinality(saved) /\ \A i \in 1..Len(g) : g[i] = TextOf(heard, A[i])
  <2> DEFINE T == Texts
             Given(i) == TextOf(heard, A[i])
  <2>1. g = [i \in 1..Cardinality(saved) |-> Given(i)] /\ \A i \in 1..Cardinality(saved) : Given(i) \in T
    BY <1>4
  <2> HIDE DEF T, Given, g
  <2>2. g \in Seq(T) /\ Len(g) = Cardinality(saved) /\ \A i \in 1..Len(g) : g[i] = Given(i)
    BY <1>3, <2>1
  <2> QED
    BY <2>2 DEF T, Given
<1> QED
  BY <1>2, <1>5 DEF A

\* The start of a pass keeps the invariant.
LEMMA BeginPassKeeps ==
  ASSUME ContextInv, NEW steered \in BOOLEAN, NEW reached \in BOOLEAN, NEW works,
         BeginPass(steered, reached, works)
  PROVE  ContextInv'
<1>1. /\ phase = "pass" /\ phase' = "model"
      /\ UNCHANGED <<config, runStart, spilled, born, returned>>
      /\ \E heard, ids, saved : Edits(heard, ids, saved, files', unsaved', messages')
      /\ messages' \in TranscriptSet /\ messages' # <<>>
      /\ Fresh(messages', born)
      /\ request'.messages = messages'
      /\ request'.edited /\ config.reasoning # "none" => request'.reasoning = "off"
  BY BeginPassEffect
<1>2. ContextTypes /\ BatchInv
  BY DEF ContextInv
<1>3. PICK heard, ids, saved : Edits(heard, ids, saved, files', unsaved', messages')
  BY <1>1
<1> DEFINE g == [i \in 1..Cardinality(saved) |-> TextOf(heard, Ascending(saved)[i])]
<1>4. Clearing(heard, ids, saved) /\ files' = files \o g
  BY <1>3 DEF Edits
<1>5. saved \subseteq Nat /\ IsFiniteSet(saved) /\ g \in Seq(Texts) /\ Len(g) = Cardinality(saved)
  BY <1>2, <1>4, ClearedTexts
<1> HIDE DEF g
<1>6. files' \in Seq(Texts) /\ \A p \in 1..Len(files) : p \in 1..Len(files')
  BY <1>2, <1>4, <1>5, SavedFiles
<1>7. ContextTypes'
  BY <1>1, <1>2, <1>6 DEF ContextTypes
<1>8. \A b : HasResult(messages', b) => b.id \in 1..Len(returned)
  <2> SUFFICES ASSUME NEW b, HasResult(messages', b) PROVE b.id \in 1..Len(returned)
    OBVIOUS
  <2>1. PICK a : HasResult(heard, a) /\ b.id = a.id
    BY <1>3 DEF Edits
  <2> QED
    BY <1>2, <1>4, <2>1 DEF Clearing, BatchInv
<1>9. BatchInv'
  BY <1>1, <1>8 DEF BatchInv
<1>10. RequestInv'
  BY <1>1 DEF RequestInv
<1>11. Fresh(messages', born')
  BY <1>1
<1> QED
  BY <1>7, <1>9, <1>10, <1>11 DEF ContextInv

-----------------------------------------------------------------------------
(* The batch that returns *)

ReturnedCalls(kinds) == (Len(returned) + 1)..(Len(returned) + Len(kinds))
KindOf(kinds, c) == kinds[c - Len(returned)]
Placed(saved, c) == IF c \in saved THEN SavedAs(saved)[c] ELSE 0

\* The cap cut what is shown of a call.
IsCut(kinds, saved, c) ==
  Shown(c, KindOf(kinds, c), Placed(saved, c)) # Uncut(c, KindOf(kinds, c), Placed(saved, c))

\* What a batch of such outputs, some of them saved, leaves: the files kept,
\* where they are, what returned, what is lost, and the transcript.
Returns(kinds, saved, kept, at, all, lost, t) ==
  /\ saved \subseteq ReturnedCalls(kinds) /\ \A c \in saved : KindOf(kinds, c).what = "text"
  /\ kept = files \o [i \in 1..Cardinality(saved) |->
                        Output(Ascending(saved)[i], KindOf(kinds, Ascending(saved)[i]).size)]
  /\ at = [c \in saved \cup DOMAIN spilled |-> IF c \in saved THEN SavedAs(saved)[c] ELSE spilled[c]]
  /\ all = returned \o kinds
  /\ lost = unsaved \cup {c \in ReturnedCalls(kinds) : IsCut(kinds, saved, c)}
  /\ \A b : HasResult(t, b) =>
       \/ HasResult(messages, b)
       \/ /\ b.id \in ReturnedCalls(kinds)
          /\ b.content = Shown(b.id, KindOf(kinds, b.id), Placed(saved, b.id))

\* What the return of a batch does: files, then results, in one user message.
LEMMA ReturnEffect ==
  ASSUME ContextInv, NEW kinds \in SequencesUpTo(Contents, MaxBatch), NEW works, ToolsReturn(kinds, works)
  PROVE  /\ phase = "tools" /\ phase' = "pass"
         /\ UNCHANGED <<config, runStart, request, born>>
         /\ kinds \in Seq(OutputKinds)
         /\ \E saved : Returns(kinds, saved, files', spilled', returned', unsaved', messages')
         /\ messages' \in TranscriptSet /\ messages' # <<>> /\ Last(messages').role = "user"
         /\ Fresh(messages', born)
<1> DEFINE uses == Uses(Last(messages))
           Kind(c) == kinds[c - Len(returned)]
           calls == {uses[i].id : i \in DOMAIN uses}
           large == {c \in calls : Kind(c).what # "failed" /\ Spills(Whole(c, Kind(c)), SpillThreshold)}
           saved == IF config.workspace /\ works THEN large ELSE {}
           At(c) == IF c \in saved THEN SavedAs(saved)[c] ELSE 0
           Result(use) == ToolResult(use.id, Shown(use.id, Kind(use.id), At(use.id)),
                                     Kind(use.id).what = "failed", use.toolset)
           content == [i \in DOMAIN uses |-> Result(uses[i])]
           Text_(i) == Whole(Ascending(saved)[i], Kind(Ascending(saved)[i])).text
<1>1. /\ phase = "tools" /\ Len(kinds) = Len(uses) /\ phase' = "pass"
      /\ messages' = Append(messages, Message("user", content))
      /\ files' = files \o [i \in 1..Cardinality(saved) |-> Text_(i)]
      /\ spilled' = [c \in saved \cup DOMAIN spilled |-> IF c \in saved THEN SavedAs(saved)[c] ELSE spilled[c]]
      /\ returned' = returned \o kinds
      /\ unsaved' = unsaved \cup {c \in calls : Shown(c, Kind(c), At(c)) # Uncut(c, Kind(c), At(c))}
      /\ UNCHANGED <<config, runStart, request, born>>
  BY DEF ToolsReturn
<1>2. /\ ContextTypes /\ messages \in TranscriptSet /\ messages # <<>> /\ Fresh(messages, born)
      /\ \A i \in 1..Len(uses) : uses[i].id = Len(returned) + i
      /\ born \in Seq(TranscriptSet) /\ config \in Configs
  BY <1>1 DEF ContextInv, ContextTypes, BatchInv
<1>3. Last(messages) \in MessageSet
  BY <1>2 DEF TranscriptSet, Last
<1>4. /\ uses \in Seq(CallBlocks) /\ Len(uses) \in Nat /\ DOMAIN uses = 1..Len(uses)
      /\ \A i \in 1..Len(uses) : uses[i].id \in Nat /\ uses[i].toolset \in Words
  BY <1>3, UsesType
<1> HIDE DEF uses
<1>5. kinds \in Seq(OutputKinds) /\ Len(kinds) \in Nat /\ \A i \in 1..Len(kinds) : kinds[i] \in OutputKinds
  <2>1. kinds \in Seq(Contents)
    BY BoundsAssumption, SequencesType
  <2>2. Contents \subseteq OutputKinds
    BY ContentsAssumption DEF OutputKinds
  <2> HIDE DEF OutputKinds
  <2> QED
    BY <2>1, <2>2
<1>6. Len(returned) \in Nat
  BY <1>2 DEF ContextTypes
<1>7. calls = ReturnedCalls(kinds)
  <2> DEFINE first == Len(returned)
             n == Len(uses)
  <2>1. calls = {first + i : i \in 1..n}
    BY <1>2, <1>4
  <2>2. first \in Nat /\ n \in Nat
    BY <1>4, <1>6
  <2> HIDE DEF first, n, calls
  <2>3. \A c \in (first + 1)..(first + n) : c - first \in 1..n /\ c = first + (c - first)
    BY <2>2
  <2>4. \A i \in 1..n : first + i \in (first + 1)..(first + n)
    BY <2>2
  <2>5. {first + i : i \in 1..n} = (first + 1)..(first + n)
    BY <2>3, <2>4
  <2> QED
    BY <1>1, <2>1, <2>5 DEF ReturnedCalls, first, n
<1>8. \A c \in ReturnedCalls(kinds) : c \in Nat /\ Kind(c) \in OutputKinds
  <2> TAKE c \in ReturnedCalls(kinds)
  <2>1. c \in Nat /\ c - Len(returned) \in 1..Len(kinds)
    BY <1>5, <1>6 DEF ReturnedCalls
  <2> QED
    BY <1>5, <2>1
<1> HIDE DEF Kind, calls
<1>9. saved \subseteq ReturnedCalls(kinds)
  BY <1>7
<1>10. \A c \in saved : Kind(c).what = "text" /\ Whole(c, Kind(c)).text = Output(c, Kind(c).size)
  <2> TAKE c \in saved
  <2>1. c \in large /\ c \in Nat /\ Kind(c) \in OutputKinds
    BY <1>8, <1>9
  <2>2. Kind(c).what \in {"text", "screen", "failed"} /\ Kind(c).what # "failed" /\ Whole(c, Kind(c)).form = "text"
    BY <2>1 DEF OutputKinds, Spills
  <2>3. Kind(c).what = "text"
    BY <2>1, <2>2, WholeType
  <2>4. Whole(c, Kind(c)) = Plain(Output(c, Kind(c).size))
    BY <2>1, <2>3, WholeType
  <2> QED
    BY <2>3, <2>4 DEF Plain
<1> HIDE DEF saved, large
<1>11. /\ saved \subseteq Nat /\ IsFiniteSet(saved) /\ Cardinality(saved) \in Nat
       /\ Len(Ascending(saved)) = Cardinality(saved)
       /\ \A i \in 1..Cardinality(saved) : Ascending(saved)[i] \in saved
  <2>1. saved \subseteq Nat /\ IsFiniteSet(saved)
    <3>1. Len(returned) + Len(kinds) \in Nat
      BY <1>5, <1>6
    <3> QED
      BY <1>6, <1>9, <3>1, SomeCalls DEF ReturnedCalls
  <2>2. Ascending(saved) \in Seq(saved) /\ Len(Ascending(saved)) = Cardinality(saved) /\ Cardinality(saved) \in Nat
    BY <2>1, AscendingLists, FS_CardinalityType
  <2> QED
    BY <2>1, <2>2
<1>12. files' = files \o [i \in 1..Cardinality(saved) |->
                            Output(Ascending(saved)[i], KindOf(kinds, Ascending(saved)[i]).size)]
  <2>1. \A i \in 1..Cardinality(saved) : Text_(i) = Output(Ascending(saved)[i], KindOf(kinds, Ascending(saved)[i]).size)
    BY <1>10, <1>11 DEF Kind, KindOf
  <2> HIDE DEF Text_
  <2>2. [i \in 1..Cardinality(saved) |-> Text_(i)] =
          [i \in 1..Cardinality(saved) |-> Output(Ascending(saved)[i], KindOf(kinds, Ascending(saved)[i]).size)]
    BY <2>1
  <2> QED
    BY <1>1, <2>2
<1>13. \A c \in ReturnedCalls(kinds) : Shown(c, Kind(c), At(c)) \in ResultContents
  <2> TAKE c \in ReturnedCalls(kinds)
  <2>1. At(c) \in Nat /\ (At(c) # 0 => c \in saved)
    BY <1>2, <1>11, SavedPaths
  <2>2. At(c) # 0 => Kind(c).what = "text"
    BY <1>10, <2>1
  <2> HIDE DEF At
  <2> QED
    BY <1>2, <1>8, <2>1, <2>2, ShownType
<1> HIDE DEF At
<1>14. \A i \in 1..Len(uses) :
         /\ Result(uses[i]) \in Blocks /\ ~IsReasoning(Result(uses[i]))
         /\ Result(uses[i]).id \in ReturnedCalls(kinds)
         /\ Result(uses[i]).content = Shown(Result(uses[i]).id, Kind(Result(uses[i]).id), At(Result(uses[i]).id))
  <2> TAKE i \in 1..Len(uses)
  <2> DEFINE c == uses[i].id
             shown == Shown(c, Kind(c), At(c))
             failed == Kind(c).what = "failed"
             toolset == uses[i].toolset
             b == ToolResult(c, shown, failed, toolset)
  <2>1. c \in ReturnedCalls(kinds) /\ c \in Nat /\ toolset \in Words
    <3>1. c \in calls
      BY <1>4 DEF calls
    <3> QED
      BY <1>4, <1>7, <3>1
  <2>2. shown \in ResultContents /\ failed \in BOOLEAN
    BY <1>13, <2>1
  <2>3. Result(uses[i]) = b
    OBVIOUS
  <2> HIDE DEF c, shown, Result, failed, toolset
  <2>4. b \in Blocks /\ ~IsReasoning(b) /\ b.id = c /\ b.content = shown
    BY <2>1, <2>2, ToolResultType
  <2> HIDE DEF b
  <2> QED
    BY <2>1, <2>3, <2>4 DEF shown
<1> DEFINE new == Message("user", content)
<1>15. /\ content \in Seq(Blocks) /\ Len(content) = Len(uses)
       /\ \A i \in 1..Len(content) : i \in 1..Len(uses) /\ content[i] = Result(uses[i])
  <2> DEFINE Made(i) == Result(uses[i])
             B == Blocks
  <2>1. \A i \in 1..Len(uses) : Made(i) \in B
    BY <1>14
  <2>2. content = [i \in 1..Len(uses) |-> Made(i)]
    BY <1>4
  <2> HIDE DEF content, Made, B
  <2>3. content \in Seq(B) /\ Len(content) = Len(uses) /\ \A i \in 1..Len(content) : i \in 1..Len(uses) /\ content[i] = Made(i)
    BY <1>4, <2>1, <2>2
  <2> QED
    BY <2>3 DEF Made, B
<1> HIDE DEF content
<1>16. new \in MessageSet /\ new.role = "user" /\ new.content = content
  BY <1>15, MessageType
<1> HIDE DEF new
<1>17. /\ messages' \in TranscriptSet /\ messages' # <<>> /\ Last(messages') = new
       /\ Len(messages') = Len(messages) + 1 /\ Len(messages) \in Nat
       /\ \A i \in 1..Len(messages) : messages'[i] = messages[i]
       /\ messages'[Len(messages) + 1] = new
  <2>1. messages' = Append(messages, new) /\ messages \in Seq(MessageSet)
    BY <1>1, <1>2 DEF new, TranscriptSet
  <2> QED
    BY <1>16, <2>1 DEF TranscriptSet, Last
<1>18. \A i \in 1..Len(messages') : (i \in 1..Len(messages) /\ messages'[i] = messages[i])
                                    \/ (i = Len(messages) + 1 /\ messages'[i] = new)
  BY <1>17
<1>19. \A k \in 1..Len(new.content) :
         /\ ~IsReasoning(new.content[k])
         /\ new.content[k].id \in ReturnedCalls(kinds)
         /\ new.content[k].content = Shown(new.content[k].id, Kind(new.content[k].id), At(new.content[k].id))
  <2> HIDE DEF Result
  <2> QED
    BY <1>14, <1>15, <1>16
<1>20. Fresh(messages', born)
  <2> DEFINE t == messages
             u == messages'
             bs == born
  <2>1. t \in TranscriptSet /\ u \in TranscriptSet /\ bs \in Seq(TranscriptSet) /\ Fresh(t, bs) /\ Len(u) > Len(t)
        /\ \A i \in 1..Len(t) : u[i] = t[i]
    BY <1>2, <1>17
  <2>2. \A i \in 1..Len(u) : \A k \in 1..Len(u[i].content) :
           IsReasoning(u[i].content[k]) /\ i > Len(t) =>
             i = Len(t) + 1 /\ u[i].content[k].id = Len(bs) /\ Len(bs) > 0 /\ bs[Len(bs)] = t
    <3> SUFFICES ASSUME NEW i \in 1..Len(messages'), NEW k \in 1..Len(messages'[i].content),
                        IsReasoning(messages'[i].content[k]), i > Len(messages)
                 PROVE  FALSE
      OBVIOUS
    <3>1. messages'[i] = new
      BY <1>17, <1>18
    <3> QED
      BY <1>19, <3>1
  <2> HIDE DEF t, u, bs
  <2>3. Fresh(u, bs)
    BY <2>1, <2>2, FreshAnswer
  <2> QED
    BY <2>3 DEF u, bs
<1>21. \A b : HasResult(messages', b) =>
         \/ HasResult(messages, b)
         \/ /\ b.id \in ReturnedCalls(kinds)
            /\ b.content = Shown(b.id, KindOf(kinds, b.id), Placed(saved, b.id))
  <2> SUFFICES ASSUME NEW b, HasResult(messages', b), ~HasResult(messages, b)
               PROVE  b.id \in ReturnedCalls(kinds) /\ b.content = Shown(b.id, KindOf(kinds, b.id), Placed(saved, b.id))
    OBVIOUS
  <2>1. PICK i \in 1..Len(messages') : \E k \in 1..Len(messages'[i].content) : b = messages'[i].content[k]
    BY DEF HasResult
  <2>2. messages'[i] = new
    BY <1>18, <2>1 DEF HasResult
  <2>3. b.id \in ReturnedCalls(kinds) /\ b.content = Shown(b.id, Kind(b.id), At(b.id))
    BY <1>19, <2>1, <2>2
  <2> QED
    BY <2>3 DEF Kind, KindOf, At, Placed
<1>22. unsaved' = unsaved \cup {c \in ReturnedCalls(kinds) : IsCut(kinds, saved, c)}
  BY <1>1, <1>7 DEF Kind, KindOf, At, Placed, IsCut
<1>23. \A c \in saved : KindOf(kinds, c).what = "text"
  BY <1>10 DEF Kind, KindOf
<1>24. Returns(kinds, saved, files', spilled', returned', unsaved', messages')
  BY <1>1, <1>9, <1>12, <1>21, <1>22, <1>23 DEF Returns
<1>25. messages' # <<>> /\ Last(messages').role = "user"
  BY <1>16, <1>17
<1> QED
  BY <1>1, <1>5, <1>17, <1>20, <1>24, <1>25

-----------------------------------------------------------------------------
(* What returns, resumes and goes on keeps the invariant *)

\* The texts a batch saves, in the order of its calls.
LEMMA ReturnedTexts ==
  ASSUME NEW kinds \in Seq(OutputKinds), NEW saved, saved \subseteq ReturnedCalls(kinds), Len(returned) \in Nat
  PROVE  /\ saved \subseteq Nat /\ IsFiniteSet(saved)
         /\ LET g == [i \in 1..Cardinality(saved) |->
                        Output(Ascending(saved)[i], KindOf(kinds, Ascending(saved)[i]).size)] IN
            /\ g \in Seq(Texts) /\ Len(g) = Cardinality(saved)
            /\ \A i \in 1..Len(g) : g[i] = Output(Ascending(saved)[i], KindOf(kinds, Ascending(saved)[i]).size)
<1> DEFINE A == Ascending(saved)
           g == [i \in 1..Cardinality(saved) |-> Output(A[i], KindOf(kinds, A[i]).size)]
<1>1. saved \subseteq Nat /\ IsFiniteSet(saved)
  <2>1. Len(returned) + Len(kinds) \in Nat
    OBVIOUS
  <2> QED
    BY <2>1, SomeCalls DEF ReturnedCalls
<1>2. A \in Seq(saved) /\ Len(A) = Cardinality(saved) /\ Cardinality(saved) \in Nat
  BY <1>1, AscendingLists, FS_CardinalityType
<1> HIDE DEF A
<1>3. \A i \in 1..Cardinality(saved) : Output(A[i], KindOf(kinds, A[i]).size) \in Texts
  <2> TAKE i \in 1..Cardinality(saved)
  <2>1. A[i] \in saved
    BY <1>2
  <2> DEFINE c == A[i]
             kind == KindOf(kinds, c)
  <2>2. c \in Nat /\ c - Len(returned) \in 1..Len(kinds)
    <3>1. c \in ReturnedCalls(kinds)
      BY <2>1
    <3> HIDE DEF c
    <3> QED
      BY <3>1 DEF ReturnedCalls
  <2> HIDE DEF c
  <2>3. kind \in OutputKinds
    <3> HIDE DEF OutputKinds
    <3> QED
      BY <2>2 DEF KindOf
  <2> HIDE DEF kind
  <2>4. kind.size \in Nat
    BY <2>3 DEF OutputKinds
  <2>5. Output(c, kind.size) \in Texts
    BY <2>2, <2>4, OutputType
  <2> QED
    BY <2>5 DEF c, kind
<1>4. g \in Seq(Texts) /\ Len(g) = Cardinality(saved)
      /\ \A i \in 1..Len(g) : g[i] = Output(A[i], KindOf(kinds, A[i]).size)
  <2> DEFINE T == Texts
             Given(i) == Output(A[i], KindOf(kinds, A[i]).size)
  <2>1. g = [i \in 1..Cardinality(saved) |-> Given(i)] /\ \A i \in 1..Cardinality(saved) : Given(i) \in T
    BY <1>3
  <2> HIDE DEF T, Given, g
  <2>2. g \in Seq(T) /\ Len(g) = Cardinality(saved) /\ \A i \in 1..Len(g) : g[i] = Given(i)
    BY <1>2, <2>1
  <2> QED
    BY <2>2 DEF T, Given
<1> QED
  BY <1>1, <1>4 DEF A

\* Where the files gs of a batch are, and the places at of all outputs.
BatchFiles(kinds, saved, gs, at, all) ==
  /\ Len(files) \in Nat /\ Len(returned) \in Nat /\ Len(kinds) \in Nat
  /\ gs \in Seq(Texts) /\ Len(gs) \in Nat /\ Len(gs) >= Len(files)
  /\ \A p \in 1..Len(files) : p \in 1..Len(gs) /\ gs[p] = files[p]
  /\ all \in Seq(Fates) /\ Len(all) = Len(returned) + Len(kinds)
  /\ \A c \in 1..Len(returned) : c \in 1..Len(all) /\ all[c] = returned[c]
  /\ \A c \in ReturnedCalls(kinds) :
       c \in 1..Len(all) /\ c \notin 1..Len(returned) /\ all[c] = KindOf(kinds, c)
  /\ DOMAIN at = saved \cup DOMAIN spilled
  /\ \A c \in DOMAIN spilled : at[c] = spilled[c]
  /\ \A c \in saved : /\ at[c] = SavedAs(saved)[c] /\ SavedAs(saved)[c] \in 1..Len(gs)
                      /\ SavedAs(saved)[c] > 0
                      /\ gs[SavedAs(saved)[c]] = Output(c, KindOf(kinds, c).size)

\* The files after a batch: the old ones, then those it saved.
LEMMA ReturnedFiles ==
  ASSUME ContextTypes, NEW kinds \in Seq(OutputKinds), NEW saved, NEW lost, NEW t,
         Returns(kinds, saved, files', spilled', returned', lost, t)
  PROVE  BatchFiles(kinds, saved, files', spilled', returned')
<1> DEFINE g == [i \in 1..Cardinality(saved) |-> Output(Ascending(saved)[i], KindOf(kinds, Ascending(saved)[i]).size)]
<1>1. /\ saved \subseteq ReturnedCalls(kinds) /\ files' = files \o g
      /\ spilled' = [c \in saved \cup DOMAIN spilled |-> IF c \in saved THEN SavedAs(saved)[c] ELSE spilled[c]]
      /\ returned' = returned \o kinds
  BY DEF Returns
<1>2. /\ returned \in Seq(Fates) /\ Len(returned) \in Nat /\ Len(kinds) \in Nat
      /\ DOMAIN spilled \subseteq 1..Len(returned)
  BY DEF ContextTypes
<1>3. /\ saved \subseteq Nat /\ IsFiniteSet(saved) /\ g \in Seq(Texts) /\ Len(g) = Cardinality(saved)
      /\ \A i \in 1..Len(g) : g[i] = Output(Ascending(saved)[i], KindOf(kinds, Ascending(saved)[i]).size)
  BY <1>1, <1>2, ReturnedTexts
<1> HIDE DEF g
<1>4. /\ files' \in Seq(Texts) /\ Len(files') = Len(files) + Cardinality(saved)
      /\ Len(files) \in Nat /\ Cardinality(saved) \in Nat
      /\ \A p \in 1..Len(files) : p \in 1..Len(files') /\ files'[p] = files[p]
      /\ \A c \in saved : /\ SavedAs(saved)[c] \in 1..Len(files') /\ SavedAs(saved)[c] > 0
                          /\ \E i \in 1..Len(g) : files'[SavedAs(saved)[c]] = g[i] /\ Ascending(saved)[i] = c
  BY <1>1, <1>3, SavedFiles, ZenonT(40)
<1>5. \A c \in saved : files'[SavedAs(saved)[c]] = Output(c, KindOf(kinds, c).size)
  BY <1>3, <1>4, SMTT(30)
<1>6. /\ returned' \in Seq(Fates) /\ Len(returned') = Len(returned) + Len(kinds)
      /\ \A c \in 1..(Len(returned) + Len(kinds)) :
           returned'[c] = IF c <= Len(returned) THEN returned[c] ELSE kinds[c - Len(returned)]
  <2> DEFINE K == Fates
  <2>1. \A i \in 1..Len(kinds) : kinds[i] \in K
    <3> HIDE DEF OutputKinds
    <3> QED
      BY DEF Fates
  <2>2. returned \in Seq(K) /\ kinds \in Seq(K)
    <3>1. kinds \in Seq(K)
      <4> HIDE DEF K
      <4> QED
        BY <2>1
    <3> QED
      BY <3>1, <1>2
  <2> HIDE DEF K
  <2>3. /\ returned' \in Seq(K) /\ Len(returned') = Len(returned) + Len(kinds)
        /\ \A c \in 1..(Len(returned) + Len(kinds)) :
             returned'[c] = IF c <= Len(returned) THEN returned[c] ELSE kinds[c - Len(returned)]
    BY <1>1, <2>2
  <2> QED
    BY <2>3 DEF K
<1>7. \A c \in 1..Len(returned) : c \in 1..Len(returned') /\ returned'[c] = returned[c]
  BY <1>2, <1>6
<1>8. \A c \in ReturnedCalls(kinds) :
        c \in 1..Len(returned') /\ c \notin 1..Len(returned) /\ returned'[c] = KindOf(kinds, c)
  BY <1>2, <1>6 DEF ReturnedCalls, KindOf
<1>10. DOMAIN spilled \cap saved = {}
  BY <1>1, <1>2, <1>8
<1> DEFINE at == SavedAs(saved)
<1> HIDE DEF at
<1>11. /\ DOMAIN spilled' = saved \cup DOMAIN spilled
       /\ \A c \in DOMAIN spilled : spilled'[c] = spilled[c]
       /\ \A c \in saved : spilled'[c] = at[c]
  <2>1. spilled' = [c \in saved \cup DOMAIN spilled |-> IF c \in saved THEN at[c] ELSE spilled[c]]
    BY <1>1 DEF at
  <2> QED
    BY <1>10, <2>1
<1>12. Len(files') \in Nat /\ Len(files') >= Len(files)
  BY <1>4
<1> QED
  BY <1>2, <1>4, <1>5, <1>6, <1>7, <1>8, <1>11, <1>12 DEF at, BatchFiles

\* The return of a batch keeps the invariant.
LEMMA ReturnKeeps ==
  ASSUME ContextInv, NEW kinds \in SequencesUpTo(Contents, MaxBatch), NEW works, ToolsReturn(kinds, works)
  PROVE  ContextInv'
<1>1. /\ phase = "tools" /\ phase' = "pass"
      /\ UNCHANGED <<config, runStart, request, born>>
      /\ kinds \in Seq(OutputKinds)
      /\ \E saved : Returns(kinds, saved, files', spilled', returned', unsaved', messages')
      /\ messages' \in TranscriptSet /\ messages' # <<>> /\ Last(messages').role = "user"
      /\ Fresh(messages', born)
  BY ReturnEffect
<1>2. ContextTypes /\ BatchInv
  BY DEF ContextInv
<1>3. PICK saved : Returns(kinds, saved, files', spilled', returned', unsaved', messages')
  BY <1>1
<1>4. /\ files' \in Seq(Texts) /\ returned' \in Seq(Fates)
      /\ \A p \in 1..Len(files) : p \in 1..Len(files')
      /\ \A c \in 1..Len(returned) : c \in 1..Len(returned')
      /\ \A c \in ReturnedCalls(kinds) : c \in 1..Len(returned')
      /\ DOMAIN spilled' = saved \cup DOMAIN spilled
      /\ \A c \in DOMAIN spilled : spilled'[c] = spilled[c]
      /\ \A c \in saved : spilled'[c] \in 1..Len(files')
  BY <1>1, <1>2, <1>3, ReturnedFiles DEF BatchFiles
<1>5. saved \subseteq ReturnedCalls(kinds)
      /\ \A b : HasResult(messages', b) => HasResult(messages, b) \/ b.id \in ReturnedCalls(kinds)
  BY <1>3 DEF Returns
<1>6. ContextTypes'
  BY <1>1, <1>2, <1>4, <1>5 DEF ContextTypes
<1>7. BatchInv'
  BY <1>1, <1>2, <1>4, <1>5 DEF BatchInv
<1>8. RequestInv'
  BY <1>1 DEF RequestInv
<1>9. Fresh(messages', born')
  BY <1>1
<1> QED
  BY <1>6, <1>7, <1>8, <1>9 DEF ContextInv

\* The calls of a message are its blocks that are calls.
LEMMA UsesAre ==
  ASSUME NEW m, m \in MessageSet
  PROVE  \A b : (\E i \in 1..Len(Uses(m)) : Uses(m)[i] = b) <=>
               (IsUse(b) /\ \E k \in 1..Len(m.content) : b = m.content[k])
<1>1. /\ \A i \in 1..Len(Uses(m)) : Uses(m)[i] \in CallBlocks
      /\ \A i \in 1..Len(Uses(m)) : \E k \in 1..Len(m.content) : Uses(m)[i] = m.content[k]
      /\ \A k \in 1..Len(m.content) : IsUse(m.content[k]) => \E i \in 1..Len(Uses(m)) : Uses(m)[i] = m.content[k]
  BY UsesType
<1>2. \A b \in CallBlocks : IsUse(b)
  BY DEF CallBlocks, IsUse
<1> QED
  BY <1>1, <1>2

\* What a resume adds are results of calls that never ran.
LEMMA ResumeKeeps ==
  ASSUME ContextInv, Resume
  PROVE  /\ ContextInv'
         /\ Len(returned) \in Nat
         /\ \A c \in 1..Len(returned) : returned'[c] = returned[c]
         /\ \A b : HasResult(messages', b) => HasResult(messages, b) \/ returned'[b.id].what = "unrun"
<1> DEFINE u == Stored(messages)
           uses == Uses(Last(messages))
           failures == [i \in DOMAIN uses |-> NotRun]
<1>1. /\ phase \in {"tools", "pass", "ended"} /\ phase' = "pass" /\ messages' = CloseInterrupted(u)
      /\ phase # "tools" => Last(messages).role = "user"
      /\ returned' = IF phase = "tools" THEN returned \o failures ELSE returned
      /\ spilled' = <<>> /\ UNCHANGED <<config, runStart, request, files, born, unsaved>>
  BY DEF Resume
<1>2. /\ messages \in TranscriptSet /\ Fresh(messages, born) /\ ContextTypes /\ BatchInv
      /\ returned \in Seq(Fates) /\ Len(returned) \in Nat /\ messages # <<>>
  BY <1>1 DEF ContextInv, ContextTypes, BatchInv
<1>3. /\ Rewritten(messages, u) /\ Fresh(u, born)
      /\ \A i \in 1..Len(messages) : \A k \in 1..Len(messages[i].content) :
           u[i].content[k] = Still(messages[i].content[k])
  BY <1>2, StoredBlocks, FreshStored
<1> HIDE DEF u
<1>4. /\ u \in TranscriptSet /\ Len(u) = Len(messages) /\ Len(messages) \in Nat /\ Len(messages) >= 1
      /\ Last(u) = u[Len(u)] /\ Last(messages) = messages[Len(messages)] /\ u # <<>>
      /\ Last(u).role = Last(messages).role /\ Last(u).role \in {"user", "assistant"}
      /\ Last(u) \in MessageSet /\ Last(messages) \in MessageSet
  <2>1. u \in TranscriptSet /\ Len(u) = Len(messages) /\ Len(messages) \in Nat
    BY <1>2, <1>3, TranscriptParts DEF Rewritten
  <2>2. Len(messages) >= 1
    BY <1>2, <2>1, EmptySeq DEF TranscriptSet
  <2>3. Len(messages) \in 1..Len(messages)
    BY <2>1, <2>2
  <2>4. u[Len(u)].role = messages[Len(messages)].role /\ u[Len(u)].role \in {"user", "assistant"}
        /\ u[Len(u)] \in MessageSet /\ messages[Len(messages)] \in MessageSet
    BY <1>2, <1>3, <2>1, <2>3, TranscriptParts DEF Rewritten
  <2>5. u # <<>>
    BY <2>1, <2>2
  <2> QED
    BY <2>1, <2>2, <2>4, <2>5 DEF Last
<1>5. \A b : IsUse(b) => ((\E k \in 1..Len(Last(u).content) : b = Last(u).content[k])
                            <=> (\E k \in 1..Len(Last(messages).content) : b = Last(messages).content[k]))
  <2> DEFINE n == Len(messages)
  <2>1. n \in 1..Len(messages) /\ Last(u) = u[n] /\ Last(messages) = messages[n]
    BY <1>4
  <2> HIDE DEF n
  <2>2. Len(u[n].content) = Len(messages[n].content)
    BY <1>3, <2>1 DEF Rewritten
  <2>3. \A k \in 1..Len(messages[n].content) :
          IsUse(u[n].content[k]) \/ IsUse(messages[n].content[k]) => u[n].content[k] = messages[n].content[k]
    BY <1>2, <1>3, <2>1, StillBlocks, TranscriptParts
  <2> QED
    BY <2>1, <2>2, <2>3
<1>6. \A b : HasResult(u, b) => HasResult(messages, b)
  <2> SUFFICES ASSUME NEW b, HasResult(u, b) PROVE HasResult(messages, b)
    OBVIOUS
  <2>1. PICK i \in 1..Len(u) : \E k \in 1..Len(u[i].content) : b = u[i].content[k]
    BY DEF HasResult
  <2>2. PICK k \in 1..Len(u[i].content) : b = u[i].content[k]
    BY <2>1
  <2>3. i \in 1..Len(messages) /\ k \in 1..Len(messages[i].content) /\ b = Still(messages[i].content[k])
    BY <1>3, <2>2 DEF Rewritten
  <2>4. b = messages[i].content[k]
    BY <1>2, <2>3, StillBlocks, TranscriptParts DEF HasResult
  <2> QED
    BY <2>3, <2>4 DEF HasResult
<1>7. /\ uses \in Seq(CallBlocks) /\ Len(uses) \in Nat /\ DOMAIN uses = 1..Len(uses)
      /\ phase = "tools" => /\ Last(messages).role = "assistant" /\ Len(uses) >= 1
                            /\ \A i \in 1..Len(uses) : uses[i].id = Len(returned) + i
  <2>1. uses \in Seq(CallBlocks) /\ Len(uses) \in Nat /\ DOMAIN uses = 1..Len(uses)
    BY <1>4, UsesType
  <2>2. phase = "tools" => Last(messages).role = "assistant" /\ uses # <<>>
                           /\ \A i \in 1..Len(uses) : uses[i].id = Len(returned) + i
    BY <1>2 DEF BatchInv
  <2> HIDE DEF uses
  <2>3. uses # <<>> => Len(uses) >= 1
    BY <2>1, EmptySeq
  <2> QED
    BY <1>2, <2>1, <2>2, <2>3 DEF BatchInv
<1>8. \A b : (\E i \in 1..Len(Uses(Last(u))) : Uses(Last(u))[i] = b) <=> (\E i \in 1..Len(uses) : uses[i] = b)
  <2> DEFINE m == Last(u)
             n == Last(messages)
  <2>1. m \in MessageSet /\ n \in MessageSet
    BY <1>4
  <2>2. \A b : IsUse(b) => ((\E k \in 1..Len(m.content) : b = m.content[k])
                               <=> (\E k \in 1..Len(n.content) : b = n.content[k]))
    BY <1>5
  <2> HIDE DEF m, n
  <2>3. \A b : (\E i \in 1..Len(Uses(m)) : Uses(m)[i] = b) <=>
              (IsUse(b) /\ \E k \in 1..Len(m.content) : b = m.content[k])
    BY <2>1, UsesAre
  <2>4. \A b : (\E i \in 1..Len(Uses(n)) : Uses(n)[i] = b) <=>
              (IsUse(b) /\ \E k \in 1..Len(n.content) : b = n.content[k])
    BY <2>1, UsesAre
  <2>5. \A b : (\E i \in 1..Len(Uses(m)) : Uses(m)[i] = b) <=> (\E i \in 1..Len(Uses(n)) : Uses(n)[i] = b)
    BY <2>2, <2>3, <2>4
  <2> QED
    BY <2>5 DEF m, n
<1>9. phase = "tools" => Uses(Last(u)) # <<>>
  <2> SUFFICES ASSUME phase = "tools" PROVE Uses(Last(u)) # <<>>
    OBVIOUS
  <2>1. 1 \in 1..Len(uses)
    BY <1>7
  <2> HIDE DEF uses
  <2>2. \E i \in 1..Len(Uses(Last(u))) : Uses(Last(u))[i] = uses[1]
    BY <1>8, <2>1
  <2> QED
    BY <2>2
<1>10. \A i \in 1..Len(Uses(Last(u))) : \E j \in 1..Len(uses) : Uses(Last(u))[i] = uses[j]
  <2> HIDE DEF uses
  <2> QED
    BY <1>8
<1>11. /\ returned' \in Seq(Fates) /\ Len(returned') \in Nat
       /\ \A c \in 1..Len(returned) : c \in 1..Len(returned') /\ returned'[c] = returned[c]
       /\ phase = "tools" => \A i \in 1..Len(uses) : /\ Len(returned) + i \in 1..Len(returned')
                                                     /\ returned'[Len(returned) + i].what = "unrun"
  <2>1. CASE phase # "tools"
    BY <1>1, <1>2, <2>1
  <2>2. CASE phase = "tools"
    <3> DEFINE n == Len(uses)
    <3>1. failures = [i \in 1..n |-> NotRun] /\ n \in Nat
      BY <1>7
    <3> HIDE DEF n, failures
    <3>2. returned' = returned \o failures
      BY <1>1, <2>2
    <3> QED
      BY <1>2, <3>1, <3>2, UnrunFates DEF n
  <2> QED
    BY <2>1, <2>2
<1> HIDE DEF uses, failures
<1> DEFINE late == Uses(Last(u))
<1>12. CASE messages' = u /\ (u = <<>> \/ Last(u).role # "assistant" \/ late = <<>>)
  <2>2. ContextTypes'
    BY <1>1, <1>2, <1>4, <1>11, <1>12 DEF ContextTypes
  <2>3. BatchInv'
    BY <1>1, <1>2, <1>4, <1>6, <1>11, <1>12 DEF BatchInv
  <2>4. RequestInv' /\ Fresh(messages', born')
    BY <1>1, <1>3, <1>12 DEF RequestInv
  <2> QED
    BY <1>2, <1>6, <1>11, <1>12, <2>2, <2>3, <2>4 DEF ContextInv
<1>13. CASE /\ u # <<>> /\ Last(u).role = "assistant" /\ late # <<>>
            /\ messages' \in TranscriptSet /\ Len(messages') = Len(u) + 1
            /\ \A i \in 1..Len(u) : messages'[i] = u[i]
            /\ messages'[Len(messages')].role = "user"
            /\ messages'[Len(messages')].content =
                 [j \in 1..Len(late) |-> ToolResult(late[j].id, Plain(<<Note>>), TRUE, "none")]
  <2>1. phase = "tools"
    BY <1>1, <1>4, <1>7, <1>13
  <2>2. late \in Seq(CallBlocks) /\ Len(late) \in Nat /\ \A j \in 1..Len(late) : late[j].id \in Nat
    BY <1>4, UsesType
  <2>3. \A j \in 1..Len(late) : late[j].id \in 1..Len(returned') /\ returned'[late[j].id].what = "unrun"
    <3> TAKE j \in 1..Len(late)
    <3>1. PICK i \in 1..Len(uses) : late[j] = uses[i]
      BY <1>10
    <3>2. late[j].id = Len(returned) + i
      BY <1>7, <2>1, <3>1
    <3>3. Len(returned) + i \in 1..Len(returned') /\ returned'[Len(returned) + i].what = "unrun"
      BY <1>11, <2>1
    <3> QED
      BY <3>2, <3>3
  <2> HIDE DEF late
  <2> DEFINE m == messages'[Len(messages')]
             B(j) == ToolResult(late[j].id, Plain(<<Note>>), TRUE, "none")
  <2>4. \A j \in 1..Len(late) : ~IsReasoning(B(j)) /\ B(j).id = late[j].id
    BY DEF ToolResult, IsReasoning
  <2>5. m.content = [j \in 1..Len(late) |-> B(j)]
    BY <1>13
  <2>6. \A k \in 1..Len(m.content) : k \in 1..Len(late) /\ m.content[k] = B(k)
    <3> HIDE DEF m, B
    <3> QED
      BY <2>2, <2>5
  <2>7. \A k \in 1..Len(m.content) : /\ ~IsReasoning(m.content[k]) /\ m.content[k].id \in 1..Len(returned')
                                     /\ returned'[m.content[k].id].what = "unrun"
    <3> HIDE DEF m, B
    <3> QED
      BY <2>3, <2>4, <2>6
  <2>8. Len(u) \in Nat /\ Len(messages') \in Nat /\ Last(messages') = m /\ messages' # <<>>
    <3>1. Len(u) \in Nat /\ Len(messages') \in Nat
      BY <1>4, <1>13
    <3>2. messages' # <<>>
      BY <1>13, <3>1
    <3> QED
      BY <3>1, <3>2 DEF Last
  <2>9. \A i \in 1..Len(messages') : (i \in 1..Len(u) /\ messages'[i] = u[i]) \/ (i > Len(u) /\ messages'[i] = m)
    <3> TAKE i \in 1..Len(messages')
    <3>1. i \in 1..Len(u) \/ (i > Len(u) /\ i = Len(messages'))
      BY <1>13, <2>8
    <3> QED
      BY <1>13, <3>1
  <2> HIDE DEF m
  <2>10. \A b : HasResult(messages', b) => HasResult(u, b) \/ (b.id \in 1..Len(returned') /\ returned'[b.id].what = "unrun")
    <3> SUFFICES ASSUME NEW b, HasResult(messages', b), ~HasResult(u, b)
                 PROVE  b.id \in 1..Len(returned') /\ returned'[b.id].what = "unrun"
      OBVIOUS
    <3>1. PICK i \in 1..Len(messages') : \E k \in 1..Len(messages'[i].content) : b = messages'[i].content[k]
      BY DEF HasResult
    <3>2. messages'[i] = m
      BY <2>9, <3>1 DEF HasResult
    <3> QED
      BY <2>7, <3>1, <3>2
  <2>11. Fresh(messages', born)
    <3> DEFINE v == messages'
               bs == born
    <3>1. v \in TranscriptSet /\ bs \in Seq(TranscriptSet) /\ Fresh(u, bs) /\ Len(v) > Len(u)
          /\ \A i \in 1..Len(u) : v[i] = u[i]
      BY <1>2, <1>3, <1>13, <2>8 DEF ContextTypes
    <3>2. \A i \in 1..Len(v) : \A k \in 1..Len(v[i].content) :
             IsReasoning(v[i].content[k]) /\ i > Len(u) =>
               i = Len(u) + 1 /\ v[i].content[k].id = Len(bs) /\ Len(bs) > 0 /\ bs[Len(bs)] = u
      <4> SUFFICES ASSUME NEW i \in 1..Len(messages'), NEW k \in 1..Len(messages'[i].content),
                          IsReasoning(messages'[i].content[k]), i > Len(u)
                   PROVE  FALSE
        OBVIOUS
      <4>1. messages'[i] = m
        BY <2>8, <2>9
      <4> QED
        BY <2>7, <4>1
    <3> HIDE DEF v, bs
    <3>3. Fresh(v, bs)
      BY <1>4, <3>1, <3>2, FreshAnswer
    <3> QED
      BY <3>3 DEF v, bs
  <2>12. ContextTypes'
    BY <1>1, <1>2, <1>11, <1>13 DEF ContextTypes
  <2>13. BatchInv'
    <3>1. \A b : HasResult(messages', b) => b.id \in 1..Len(returned')
      BY <1>2, <1>6, <1>11, <2>10 DEF BatchInv
    <3> QED
      BY <1>1, <2>8, <3>1 DEF BatchInv
  <2>14. RequestInv' /\ Fresh(messages', born')
    BY <1>1, <2>11 DEF RequestInv
  <2> QED
    BY <1>2, <1>6, <1>11, <2>10, <2>12, <2>13, <2>14 DEF ContextInv
<1> QED
  BY <1>1, <1>4, <1>12, <1>13, CloseInterruptedAdds

\* A prompt is a message with neither results nor reasoning.
LEMMA PromptType ==
  ASSUME NEW prompt \in Prompts
  PROVE  /\ Message("user", prompt) \in MessageSet /\ Message("user", prompt).role = "user"
         /\ \A k \in 1..Len(Message("user", prompt).content) :
              ~IsResult(Message("user", prompt).content[k]) /\ ~IsReasoning(Message("user", prompt).content[k])
<1> DEFINE Says == [type : {"text", "image"}, id : STRING, volatile : BOOLEAN]
<1>1. prompt \in Seq(Says)
  BY PromptsAssumption
<1>2. Says \subseteq Speech
  <2>1. STRING \subseteq Words
    BY DEF Words
  <2> HIDE DEF Words
  <2> QED
    BY <2>1 DEF Speech
<1> HIDE DEF Says
<1>3. \A k \in 1..Len(prompt) : prompt[k] \in Speech
  BY <1>1, <1>2
<1>4. prompt \in Seq(Blocks)
  <2>1. Speech \subseteq Blocks
    BY DEF Blocks
  <2> HIDE DEF Blocks, Speech
  <2> QED
    BY <1>1, <1>2, <2>1
<1>5. \A k \in 1..Len(prompt) : ~IsResult(prompt[k]) /\ ~IsReasoning(prompt[k])
  BY <1>3, Kinds
<1> QED
  BY <1>4, <1>5, MessageType

\* A next turn keeps the invariant and adds no result.
LEMMA NewTurnKeeps ==
  ASSUME ContextInv, NEW prompt \in Prompts, NewTurn(prompt)
  PROVE  ContextInv' /\ \A b : HasResult(messages', b) => HasResult(messages, b)
<1> DEFINE h == StripReasoning(WithoutVolatile(messages))
           new == Message("user", prompt)
<1>1. /\ phase' = "pass" /\ messages' = Append(h, new) /\ spilled' = <<>>
      /\ UNCHANGED <<config, request, files, born, returned>>
  BY DEF NewTurn
<1>2. ContextTypes /\ BatchInv /\ messages \in TranscriptSet
  BY DEF ContextInv, ContextTypes
<1>3. h \in TranscriptSet /\ NoReasoning(h) /\ \A b : HasResult(h, b) => HasResult(messages, b)
  BY <1>2, HistoryKeeps
<1> HIDE DEF h
<1>4. /\ new \in MessageSet /\ new.role = "user"
      /\ \A k \in 1..Len(new.content) : ~IsResult(new.content[k]) /\ ~IsReasoning(new.content[k])
  BY PromptType
<1> HIDE DEF new
<1>5. /\ messages' \in TranscriptSet /\ messages' # <<>> /\ Last(messages') = new
      /\ \A i \in 1..Len(messages') : (i \in 1..Len(h) /\ messages'[i] = h[i]) \/ messages'[i] = new
  <2>1. h \in Seq(MessageSet)
    BY <1>3 DEF TranscriptSet
  <2> QED
    BY <1>1, <1>4, <2>1 DEF TranscriptSet, Last
<1>6. NoReasoning(messages')
  BY <1>3, <1>4, <1>5 DEF NoReasoning
<1>7. \A b : HasResult(messages', b) => HasResult(messages, b)
  <2>1. \A b : HasResult(messages', b) => HasResult(h, b)
    BY <1>4, <1>5 DEF HasResult
  <2> QED
    BY <1>3, <2>1
<1>8. ContextTypes'
  BY <1>1, <1>2, <1>5 DEF ContextTypes
<1>9. BatchInv'
  BY <1>1, <1>2, <1>4, <1>5, <1>7 DEF BatchInv
<1>10. RequestInv'
  BY <1>1 DEF RequestInv
<1>11. Fresh(messages', born')
  BY <1>6, FreshWithout
<1> QED
  BY <1>7, <1>8, <1>9, <1>10, <1>11 DEF ContextInv

\* A run starts in the invariant.
LEMMA ContextInitial == ContextInit => ContextInv
<1> SUFFICES ASSUME ContextInit PROVE ContextInv
  OBVIOUS
<1>1. PICK prompt \in Prompts : messages = <<Message("user", prompt)>>
  BY DEF ContextInit
<1> DEFINE new == Message("user", prompt)
<1>2. /\ new \in MessageSet /\ new.role = "user"
      /\ \A k \in 1..Len(new.content) : ~IsResult(new.content[k]) /\ ~IsReasoning(new.content[k])
  BY PromptType
<1>3. messages = <<new>>
  BY <1>1
<1> HIDE DEF new
<1>4. /\ messages \in TranscriptSet /\ messages # <<>> /\ Last(messages) = new
      /\ \A i \in 1..Len(messages) : messages[i] = new
  BY <1>2, <1>3 DEF TranscriptSet, Last
<1>5. NoReasoning(messages) /\ \A b : ~HasResult(messages, b)
  BY <1>2, <1>4 DEF NoReasoning, HasResult
<1>6. /\ config \in Configs /\ phase = "pass" /\ spilled = <<>>
      /\ files = <<>> /\ born = <<>> /\ returned = <<>>
  BY DEF ContextInit
<1>7. ContextTypes
  <2>1. files \in Seq(Texts) /\ returned \in Seq(Fates) /\ born \in Seq(TranscriptSet)
    BY <1>6
  <2>2. DOMAIN spilled = {}
    BY <1>6
  <2> QED
    BY <1>4, <1>6, <2>1, <2>2 DEF ContextTypes
<1>8. BatchInv /\ RequestInv
  BY <1>2, <1>4, <1>5, <1>6 DEF BatchInv, RequestInv
<1>9. Fresh(messages, born)
  BY <1>5, FreshWithout
<1> QED
  BY <1>7, <1>8, <1>9 DEF ContextInv

\* Every step keeps the invariant.
LEMMA ContextStep == ContextInv /\ [ContextNext]_contextVars => ContextInv'
<1> SUFFICES ASSUME ContextInv, [ContextNext]_contextVars PROVE ContextInv'
  OBVIOUS
<1>1. ASSUME NEW steered \in {FALSE} \cup {passes \in ControlPasses}, NEW reached \in {FALSE} \cup {passes \in ControlPasses},
             NEW works, BeginPass(steered, reached, works)
      PROVE  ContextInv'
  <2>1. steered \in BOOLEAN /\ reached \in BOOLEAN
    OBVIOUS
  <2> QED
    BY <1>1, <2>1, BeginPassKeeps
<1>2. ASSUME NEW thought \in BOOLEAN, NEW tooLong \in BOOLEAN,
             NEW toolsets \in SequencesUpTo(ToolsetsOffered, MaxBatch),
             NEW said \in IF toolsets = <<>> THEN {<<>>, <<Text("answer", FALSE)>>} ELSE {<<>>},
             NEW order \in {<<>>} \cup StreamOrders(thought, toolsets), NEW signal,
             ModelAnswers(thought, said, toolsets, order, tooLong, signal)
      PROVE  ContextInv'
  <2>1. said \in {<<>>, <<Text("answer", FALSE)>>}
    OBVIOUS
  <2> QED
    BY <1>2, <2>1, AnswerEffect, ZenonT(40)
<1>3. ASSUME NEW kinds \in SequencesUpTo(Contents, MaxBatch), NEW works, ToolsReturn(kinds, works)
      PROVE  ContextInv'
  BY <1>3, ReturnKeeps
<1>4. CASE Resume
  BY <1>4, ResumeKeeps
<1>5. ASSUME NEW prompt \in Prompts, NewTurn(prompt) PROVE ContextInv'
  BY <1>5, NewTurnKeeps
<1>6. CASE UNCHANGED contextVars
  <2>1. UNCHANGED <<config, phase, messages, files, returned, born, spilled, request>>
    BY <1>6 DEF contextVars
  <2>2. ContextTypes' /\ BatchInv' /\ RequestInv' /\ Fresh(messages', born')
    BY <2>1 DEF ContextInv, ContextTypes, BatchInv, RequestInv
  <2> QED
    BY <2>2 DEF ContextInv
<1>7. CASE \E steered, reached \in {FALSE} \cup {passes \in ControlPasses},
                works \in {TRUE, ~config.workspace} : BeginPass(steered, reached, works)
  BY <1>1, <1>7
<1>8. CASE \E thought, tooLong \in BOOLEAN, toolsets \in SequencesUpTo(ToolsetsOffered, MaxBatch) :
             \E said \in IF toolsets = <<>> THEN {<<>>, <<Text("answer", FALSE)>>} ELSE {<<>>},
                order \in {<<>>} \cup StreamOrders(thought, toolsets), signal \in Signals(toolsets) :
               ModelAnswers(thought, said, toolsets, order, tooLong, signal)
  <2>1. PICK thought \in BOOLEAN, tooLong \in BOOLEAN, toolsets \in SequencesUpTo(ToolsetsOffered, MaxBatch) :
          \E said \in IF toolsets = <<>> THEN {<<>>, <<Text("answer", FALSE)>>} ELSE {<<>>},
             order \in {<<>>} \cup StreamOrders(thought, toolsets), signal \in Signals(toolsets) :
            ModelAnswers(thought, said, toolsets, order, tooLong, signal)
    BY <1>8, Zenon
  <2>2. PICK said \in IF toolsets = <<>> THEN {<<>>, <<Text("answer", FALSE)>>} ELSE {<<>>},
             order \in {<<>>} \cup StreamOrders(thought, toolsets), signal \in Signals(toolsets) :
          ModelAnswers(thought, said, toolsets, order, tooLong, signal)
    BY <2>1, Zenon
  <2> QED
    BY <1>2, <2>2
<1>9. CASE \E kinds \in SequencesUpTo(Contents, MaxBatch), works \in {TRUE, ~config.workspace} :
             ToolsReturn(kinds, works)
  BY <1>3, <1>9
<1>10. CASE \E prompt \in Prompts : NewTurn(prompt)
  BY <1>5, <1>10
<1>11. CASE Stop
  <2>1. UNCHANGED <<config, messages, files, returned, born, spilled, request>> /\ phase' = "ended"
    BY <1>11 DEF Stop
  <2>2. ContextTypes' /\ BatchInv' /\ RequestInv' /\ Fresh(messages', born')
    BY <2>1 DEF ContextInv, ContextTypes, BatchInv, RequestInv
  <2> QED
    BY <2>2 DEF ContextInv
<1> QED
  BY <1>4, <1>6, <1>7, <1>8, <1>9, <1>10, <1>11 DEF ContextNext

\* A run keeps its transcript well formed (agent.py): a batch's calls are
\* numbered on from those that returned, each result is of one that did, a
\* request says the transcript as it is and has reasoning off after an edit, and
\* each reasoning left follows what its request said.
THEOREM ContextAlways == ContextSpec => []ContextInv
BY ContextInitial, ContextStep, PTL DEF ContextSpec

\* A request with reasoning off asks Anthropic for no thinking before its answer.
LEMMA ThinkingOff ==
  ASSUME NEW r, NEW default, NEW ttl, r.reasoning = "off"
  PROVE  AnthropicKwargs(r, default, ttl).thinking \in {"absent", "disabled", "between_tools"}
<1> DEFINE rules == RulesFor(r.model)
<1>1. rules.thinkingOff \in {"none", "disabled", "between_tools"}
  <2> DEFINE listed == {i \in DOMAIN ModelRules : IsPrefix(ModelRules[i][1], r.model)}
  <2>1. DOMAIN ModelRules = 1..11
    BY DEF ModelRules
  <2>2. \A i \in 1..11 : ModelRules[i][2].thinkingOff \in {"none", "disabled", "between_tools"}
    BY DEF ModelRules, AlwaysThinks, AlwaysThinksNoForcing, AdaptiveOnly, Rules
  <2>3. CASE listed = {}
    <3>1. rules = DefaultRules
      BY <2>3 DEF RulesFor
    <3> HIDE DEF rules
    <3> QED
      BY <3>1 DEF DefaultRules, Rules
  <2>4. CASE listed # {}
    <3>1. rules = ModelRules[Min(listed)][2]
      BY <2>4 DEF RulesFor
    <3>2. listed \subseteq 1..11
      BY <2>1
    <3> HIDE DEF rules, listed
    <3>3. Min(listed) \in listed
      <4>1. \E x \in listed : \A y \in listed : x <= y
        <5>1. listed \subseteq Nat
          BY <3>2
        <5> QED
          BY <2>4, <5>1, NatMin
      <4> QED
        BY <4>1 DEF Min
    <3> QED
      BY <2>2, <3>1, <3>2, <3>3
  <2> QED
    BY <2>3, <2>4
<1> HIDE DEF rules
<1>2. AnthropicKwargs(r, default, ttl).thinking = IF rules.thinkingOff = "none" THEN "absent" ELSE rules.thinkingOff
  <2>1. AnthropicKwargs(r, default, ttl).thinking = Asked(r, default).thinking
    BY DEF AnthropicKwargs
  <2>2. Asked(r, default).thinking = IF rules.thinkingOff = "none" THEN "absent" ELSE rules.thinkingOff
    BY DEF Asked, rules
  <2> QED
    BY <2>1, <2>2
<1> QED
  BY <1>1, <1>2

\* The invariant implies ReasoningIsFresh.
LEMMA FreshRequest == ContextInv => ReasoningIsFresh
<1> SUFFICES ASSUME ContextInv, phase = "model" PROVE
      /\ \A mi \in DOMAIN messages : \A bi \in DOMAIN messages[mi].content :
           IsReasoning(messages[mi].content[bi]) =>
             Stored(SubSeq(messages, 1, mi - 1)) = Stored(born[messages[mi].content[bi].id])
      /\ request.edited /\ config.reasoning # "none" => Sending.thinking \notin {"enabled", "adaptive"}
  BY DEF ReasoningIsFresh
<1>1. messages \in TranscriptSet /\ Fresh(messages, born) /\ RequestInv
  BY DEF ContextInv, ContextTypes
<1>2. \A mi \in DOMAIN messages : \A bi \in DOMAIN messages[mi].content :
        IsReasoning(messages[mi].content[bi]) =>
          Stored(SubSeq(messages, 1, mi - 1)) = Stored(born[messages[mi].content[bi].id])
  BY <1>1, TranscriptParts DEF Fresh
<1>3. ASSUME request.edited, config.reasoning # "none" PROVE Sending.thinking \notin {"enabled", "adaptive"}
  <2>1. request.reasoning = "off"
    BY <1>1, <1>3 DEF RequestInv
  <2>2. Sending.thinking \in {"absent", "disabled", "between_tools"}
    BY <2>1, ThinkingOff DEF Sending
  <2> QED
    BY <2>2
<1> QED
  BY <1>2, <1>3

\* The reasoning a request sends back follows exactly what it followed when the
\* model gave it (_context.py, _drop_reasoning; agent.py, reasoning_off_once):
\* no clearing, pruning, resume or next turn leaves reasoning behind what it was
\* bound to, and after an edit an agent that sets reasoning runs with it off.
THEOREM ReasoningIsFreshAlways == ContextSpec => []ReasoningIsFresh
<1>1. ContextSpec => []ContextInv
  BY ContextAlways
<1> QED
  BY <1>1, FreshRequest, PTL

-----------------------------------------------------------------------------
(* What can be found from a text *)

\* What is read in one go: all that the files named so far say.
Opens(fs, seen) == seen \cup UNION {ToSet(fs[p]) : p \in {q \in DOMAIN fs : Path(q) \in seen}}

Reaches(fs, text, within) ==
  within = [n \in 0..Len(fs) |-> IF n = 0 THEN ToSet(text) ELSE Opens(fs, within[n - 1])]

Within(fs, text) == CHOOSE within : Reaches(fs, text, within)
Reach(fs, text) == Within(fs, text)[Len(fs)]

\* Found, the recursive function of the model, is Reach.
LEMMA FoundIs == \A text : Found(text) = Reach(files, text)
BY DEF Found, Reach, Within, Reaches, Opens

\* What is read in one go after another is defined.
LEMMA ReachExists ==
  ASSUME NEW fs \in Seq(Texts), NEW text PROVE \E within : Reaches(fs, text, within)
<1> DEFINE Fits(n, w) == w = [i \in 0..n |-> IF i = 0 THEN ToSet(text) ELSE Opens(fs, w[i - 1])]
           Bad == {n \in Nat : ~\E w : Fits(n, w)}
<1>1. Bad = {}
  <2> SUFFICES ASSUME Bad # {} PROVE FALSE
    OBVIOUS
  <2>1. Bad \subseteq Nat
    OBVIOUS
  <2>2. PICK n \in Bad : \A m \in Bad : n <= m
    <3> HIDE DEF Bad
    <3> QED
      BY <2>1, NatMin
  <2>3. CASE n = 0
    <3> DEFINE w == [i \in 0..0 |-> ToSet(text)]
    <3>1. \A i \in 0..0 : i = 0 /\ w[i] = ToSet(text)
      OBVIOUS
    <3>2. w = [i \in 0..0 |-> IF i = 0 THEN ToSet(text) ELSE Opens(fs, w[i - 1])]
      <4>1. w = [i \in 0..0 |-> w[i]]
        OBVIOUS
      <4> HIDE DEF w
      <4> QED
        BY <3>1, <4>1
    <3>3. Fits(0, w)
      BY <3>2
    <3> QED
      BY <2>3, <3>3, <2>2
  <2>4. CASE n # 0
    <3>1. n \in Nat /\ n >= 1 /\ n - 1 \in Nat
      BY <2>4
    <3>2. n - 1 \notin Bad
      <4> HIDE DEF Bad
      <4> QED
        BY <2>2, <3>1
    <3>3. PICK w : Fits(n - 1, w)
      BY <3>1, <3>2
    <3> DEFINE v == [i \in 0..n |-> IF i = n THEN Opens(fs, w[n - 1]) ELSE w[i]]
    <3>4. \A i \in 0..n : v[i] = IF i = 0 THEN ToSet(text) ELSE Opens(fs, v[i - 1])
      <4> TAKE i \in 0..n
      <4>1. CASE i = n
        <5>1. v[i] = Opens(fs, w[n - 1]) /\ v[n - 1] = w[n - 1]
          BY <4>1, <3>1
        <5> HIDE DEF v
        <5> QED
          BY <4>1, <5>1, <2>4
      <4>2. CASE i # n
        <5>1. i \in 0..(n - 1) /\ v[i] = w[i]
          BY <4>2, <3>1
        <5>2. w[i] = IF i = 0 THEN ToSet(text) ELSE Opens(fs, w[i - 1])
          BY <5>1, <3>3
        <5>3. i # 0 => v[i - 1] = w[i - 1]
          BY <5>1, <3>1
        <5> HIDE DEF v
        <5> QED
          BY <5>1, <5>2, <5>3
      <4> QED
        BY <4>1, <4>2
    <3>5. Fits(n, v)
      <4>1. v = [i \in 0..n |-> v[i]]
        OBVIOUS
      <4> HIDE DEF v
      <4> QED
        BY <3>4, <4>1
    <3> QED
      BY <3>5, <2>2
  <2> QED
    BY <2>3, <2>4
<1>2. Len(fs) \in Nat
  OBVIOUS
<1>3. \E w : Fits(Len(fs), w)
  BY <1>1, <1>2
<1> QED
  BY <1>3 DEF Reaches

\* What is read after n goes follows from what is read after n - 1.
LEMMA WithinSteps ==
  ASSUME NEW fs \in Seq(Texts), NEW text
  PROVE  /\ Len(fs) \in Nat /\ Within(fs, text)[0] = ToSet(text)
         /\ \A n \in 1..Len(fs) : Within(fs, text)[n] = Opens(fs, Within(fs, text)[n - 1])
<1> DEFINE w == Within(fs, text)
<1>1. Len(fs) \in Nat
  OBVIOUS
<1>2. Reaches(fs, text, w)
  BY ReachExists DEF Within
<1> HIDE DEF w
<1>3. /\ w[0] = ToSet(text) /\ \A n \in 1..Len(fs) : w[n] = Opens(fs, w[n - 1])
  <2>1. \A n \in 0..Len(fs) : w[n] = IF n = 0 THEN ToSet(text) ELSE Opens(fs, w[n - 1])
    BY <1>2 DEF Reaches
  <2>2. 0 \in 0..Len(fs) /\ \A n \in 1..Len(fs) : n \in 0..Len(fs) /\ n # 0
    BY <1>1
  <2> QED
    BY <2>1, <2>2
<1> QED
  BY <1>1, <1>3 DEF w

\* More is found from more.
LEMMA OpensMore ==
  ASSUME NEW fs \in Seq(Texts), NEW gs \in Seq(Texts),
         \A p \in 1..Len(fs) : p \in 1..Len(gs) /\ gs[p] = fs[p],
         NEW seen, NEW more, seen \subseteq more
  PROVE  Opens(fs, seen) \subseteq Opens(gs, more)
<1>1. DOMAIN fs = 1..Len(fs) /\ DOMAIN gs = 1..Len(gs)
  OBVIOUS
<1> QED
  BY <1>1 DEF Opens

\* What is read early stays read.
LEMMA WithinGrows ==
  ASSUME NEW fs \in Seq(Texts), NEW text, NEW n \in 0..Len(fs)
  PROVE  Within(fs, text)[n] \subseteq Reach(fs, text)
<1> DEFINE w == Within(fs, text)
           Bad == {m \in Nat : n <= m /\ m <= Len(fs) /\ ~(w[n] \subseteq w[m])}
<1>1. /\ Len(fs) \in Nat /\ n \in Nat /\ \A m \in 1..Len(fs) : w[m] = Opens(fs, w[m - 1])
  BY WithinSteps
<1> HIDE DEF w
<1>2. Bad = {}
  <2> SUFFICES ASSUME Bad # {} PROVE FALSE
    OBVIOUS
  <2>1. Bad \subseteq Nat
    OBVIOUS
  <2>2. PICK m \in Bad : \A k \in Bad : m <= k
    <3> HIDE DEF Bad
    <3> QED
      BY <2>1, NatMin
  <2>3. m # n /\ m \in 1..Len(fs) /\ m - 1 \in Nat /\ n <= m - 1 /\ m - 1 <= Len(fs)
    BY <1>1, <2>2
  <2>4. m - 1 \notin Bad
    <3> HIDE DEF Bad
    <3> QED
      BY <2>2, <2>3
  <2>5. w[n] \subseteq w[m - 1]
    BY <2>3, <2>4
  <2>6. w[m - 1] \subseteq w[m]
    BY <1>1, <2>3 DEF Opens
  <2> QED
    BY <2>2, <2>5, <2>6
<1>3. w[n] \subseteq w[Len(fs)]
  BY <1>1, <1>2
<1> QED
  BY <1>3 DEF w, Reach

\* With more files, and a text that leads to the other one in d steps, there is
\* as much to be found.
LEMMA ReachExtends ==
  ASSUME NEW fs \in Seq(Texts), NEW gs \in Seq(Texts),
         \A p \in 1..Len(fs) : p \in 1..Len(gs) /\ gs[p] = fs[p],
         NEW t, NEW u, NEW d \in Nat, Len(fs) + d <= Len(gs), ToSet(t) \subseteq Within(gs, u)[d]
  PROVE  Reach(fs, t) \subseteq Reach(gs, u)
<1> DEFINE w == Within(fs, t)
           v == Within(gs, u)
           Bad == {n \in Nat : n <= Len(fs) /\ ~(w[n] \subseteq v[n + d])}
<1>1. /\ Len(fs) \in Nat /\ Len(gs) \in Nat /\ w[0] = ToSet(t)
      /\ \A n \in 1..Len(fs) : w[n] = Opens(fs, w[n - 1])
      /\ \A n \in 1..Len(gs) : v[n] = Opens(gs, v[n - 1])
  BY WithinSteps
<1>2. ToSet(t) \subseteq v[d]
  OBVIOUS
<1> HIDE DEF w, v
<1>3. Bad = {}
  <2> SUFFICES ASSUME Bad # {} PROVE FALSE
    OBVIOUS
  <2>1. Bad \subseteq Nat
    OBVIOUS
  <2>2. PICK n \in Bad : \A k \in Bad : n <= k
    <3> HIDE DEF Bad
    <3> QED
      BY <2>1, NatMin
  <2>3. CASE n = 0
    <3>1. n + d = d
      BY <2>3
    <3> QED
      BY <1>1, <1>2, <2>2, <2>3, <3>1
  <2>4. CASE n # 0
    <3>1. n \in 1..Len(fs) /\ n - 1 \in Nat /\ n - 1 <= Len(fs) /\ n + d \in 1..Len(gs) /\ (n + d) - 1 = (n - 1) + d
      BY <1>1, <2>2, <2>4
    <3>2. n - 1 \notin Bad
      <4> HIDE DEF Bad
      <4> QED
        BY <2>2, <3>1
    <3>3. w[n - 1] \subseteq v[(n + d) - 1]
      BY <3>1, <3>2
    <3>4. Opens(fs, w[n - 1]) \subseteq Opens(gs, v[(n + d) - 1])
      <4> DEFINE a == w[n - 1]
                 b == v[(n + d) - 1]
      <4>1. a \subseteq b
        BY <3>3
      <4> HIDE DEF a, b
      <4>2. Opens(fs, a) \subseteq Opens(gs, b)
        BY <4>1, OpensMore
      <4> QED
        BY <4>2 DEF a, b
    <3>5. w[n] \subseteq v[n + d]
      BY <1>1, <3>1, <3>4
    <3> QED
      BY <2>2, <3>5
  <2> QED
    BY <2>3, <2>4
<1>4. w[Len(fs)] \subseteq v[Len(fs) + d]
  BY <1>1, <1>3
<1>5. Len(fs) + d \in 0..Len(gs)
  BY <1>1
<1>6. v[Len(fs) + d] \subseteq Reach(gs, u)
  BY <1>5, WithinGrows DEF v
<1> QED
  BY <1>4, <1>6 DEF w, Reach

\* A text leads to what it says, and to the files it names.
LEMMA ReachOpens ==
  ASSUME NEW fs \in Seq(Texts), NEW text
  PROVE  /\ ToSet(text) \subseteq Reach(fs, text)
         /\ \A p \in 1..Len(fs) : Path(p) \in ToSet(text) =>
              ToSet(fs[p]) \subseteq Within(fs, text)[1] /\ ToSet(fs[p]) \subseteq Reach(fs, text)
<1> DEFINE w == Within(fs, text)
<1>1. Len(fs) \in Nat /\ w[0] = ToSet(text) /\ \A n \in 1..Len(fs) : w[n] = Opens(fs, w[n - 1])
  BY WithinSteps
<1>2. \A n \in 0..Len(fs) : w[n] \subseteq Reach(fs, text)
  BY WithinGrows
<1> HIDE DEF w
<1>3. 0 \in 0..Len(fs)
  BY <1>1
<1>4. ASSUME NEW p \in 1..Len(fs), Path(p) \in ToSet(text)
      PROVE  ToSet(fs[p]) \subseteq w[1] /\ ToSet(fs[p]) \subseteq Reach(fs, text)
  <2>1. 1 \in 1..Len(fs) /\ 1 \in 0..Len(fs) /\ 1 - 1 = 0
    BY <1>1
  <2>2. w[1] = Opens(fs, ToSet(text))
    BY <1>1, <2>1
  <2>3. p \in DOMAIN fs
    OBVIOUS
  <2>4. ToSet(fs[p]) \subseteq Opens(fs, ToSet(text))
    BY <1>4, <2>3 DEF Opens
  <2> QED
    BY <1>2, <2>1, <2>2, <2>4
<1> QED
  BY <1>1, <1>2, <1>3, <1>4 DEF w

-----------------------------------------------------------------------------
(* Every output stays within reach *)

Said(c) == ToSet(Output(c, returned[c].size))

\* Each result that was a text leads to all of it, and so does its file.
ResultsReach ==
  \A b : HasResult(messages, b) /\ returned[b.id].what = "text" /\ b.id \notin unsaved =>
    Said(b.id) \subseteq Reach(files, ContentText(b.content))

\* A spilled output is in its file.
FilesReach ==
  \A c \in DOMAIN spilled : returned[c].what = "text" => Said(c) \subseteq ToSet(files[spilled[c]])

ReachInv == ResultsReach /\ FilesReach

\* As long as nothing is cleared, what led to an output leads to it.
LEMMA ReachStays ==
  ASSUME ContextInv, ReachInv, files' = files, unsaved' = unsaved,
         \A c \in 1..Len(returned) : returned'[c] = returned[c],
         \A b : HasResult(messages', b) => HasResult(messages, b) \/ returned'[b.id].what = "unrun",
         spilled' = spilled \/ spilled' = <<>>
  PROVE  ReachInv'
<1>1. ContextTypes /\ BatchInv
  BY DEF ContextInv
<1>2. DOMAIN spilled \subseteq 1..Len(returned) /\ \A b : HasResult(messages, b) => b.id \in 1..Len(returned)
  BY <1>1 DEF ContextTypes, BatchInv
<1>3. \A c \in 1..Len(returned) : Said(c)' = Said(c)
  BY DEF Said
<1>4. ResultsReach'
  <2> SUFFICES ASSUME NEW b, HasResult(messages', b), returned'[b.id].what = "text", b.id \notin unsaved'
               PROVE  Said(b.id)' \subseteq Reach(files', ContentText(b.content))
    BY DEF ResultsReach, Said
  <2>1. HasResult(messages, b) /\ b.id \in 1..Len(returned)
    BY <1>2
  <2>2. Said(b.id) \subseteq Reach(files, ContentText(b.content))
    BY <2>1 DEF ReachInv, ResultsReach
  <2> QED
    BY <1>3, <2>1, <2>2 DEF Said
<1>5. FilesReach'
  <2>1. CASE spilled' = spilled
    <3> SUFFICES ASSUME NEW c \in DOMAIN spilled, returned'[c].what = "text"
                 PROVE  ToSet(Output(c, returned'[c].size)) \subseteq ToSet(files[spilled[c]])
      BY <2>1 DEF FilesReach, Said
    <3>1. c \in 1..Len(returned)
      BY <1>2
    <3> QED
      BY <3>1 DEF ReachInv, FilesReach, Said
  <2>2. CASE spilled' = <<>>
    <3>1. DOMAIN spilled' = {}
      BY <2>2
    <3> QED
      BY <3>1 DEF FilesReach
  <2> QED
    BY <2>1, <2>2
<1> QED
  BY <1>4, <1>5 DEF ReachInv

\* A cleared result leads to its file, and its file to what it led to.
LEMMA BeginPassReaches ==
  ASSUME ContextInv, ReachInv, NEW steered \in BOOLEAN, NEW reached \in BOOLEAN, NEW works,
         BeginPass(steered, reached, works)
  PROVE  ReachInv'
<1>1. /\ UNCHANGED <<spilled, returned>>
      /\ \E heard, ids, saved : Edits(heard, ids, saved, files', unsaved', messages')
      /\ messages' \in TranscriptSet
  BY BeginPassEffect
<1>2. PICK heard, ids, saved : Edits(heard, ids, saved, files', unsaved', messages')
  BY <1>1
<1>3. ContextTypes /\ BatchInv /\ Clearing(heard, ids, saved)
  BY <1>2 DEF ContextInv, Edits
<1> DEFINE g == [i \in 1..Cardinality(saved) |-> TextOf(heard, Ascending(saved)[i])]
<1>4. files' = files \o g
  BY <1>2 DEF Edits
<1>5. /\ saved \subseteq Nat /\ IsFiniteSet(saved) /\ g \in Seq(Texts) /\ Len(g) = Cardinality(saved)
      /\ \A i \in 1..Len(g) : g[i] = TextOf(heard, Ascending(saved)[i])
  BY <1>3, ClearedTexts
<1> HIDE DEF g
<1> DEFINE fs == files
           gs == files'
<1>6. /\ fs \in Seq(Texts) /\ gs \in Seq(Texts) /\ Len(gs) = Len(fs) + Cardinality(saved)
      /\ Len(fs) \in Nat /\ Cardinality(saved) \in Nat
      /\ \A p \in 1..Len(fs) : p \in 1..Len(gs) /\ gs[p] = fs[p]
      /\ \A c \in saved : /\ SavedAs(saved)[c] \in 1..Len(gs) /\ SavedAs(saved)[c] > 0
                          /\ \E i \in 1..Len(g) : gs[SavedAs(saved)[c]] = g[i] /\ Ascending(saved)[i] = c
  BY <1>3, <1>4, <1>5, SavedFiles, ZenonT(40) DEF ContextTypes
<1>7. /\ DOMAIN spilled \subseteq 1..Len(returned) /\ \A c \in DOMAIN spilled : spilled[c] \in 1..Len(fs)
      /\ \A c \in DOMAIN spilled : returned[c].what = "text" => Said(c) \subseteq ToSet(fs[spilled[c]])
      /\ \A b : HasResult(messages, b) /\ returned[b.id].what = "text" /\ b.id \notin unsaved =>
           Said(b.id) \subseteq Reach(fs, ContentText(b.content))
  BY <1>3 DEF ContextTypes, ReachInv, FilesReach, ResultsReach
<1> HIDE DEF fs, gs
<1>8. ASSUME NEW t PROVE Reach(fs, t) \subseteq Reach(gs, t)
  <2>1. Len(fs) + 0 <= Len(gs) /\ 0 \in Nat
    BY <1>6
  <2>2. ToSet(t) \subseteq Within(gs, t)[0]
    BY <1>6, WithinSteps
  <2> QED
    BY <1>6, <2>1, <2>2, ReachExtends
<1>9. ASSUME NEW b, HasResult(messages', b), returned[b.id].what = "text", b.id \notin unsaved'
      PROVE  Said(b.id) \subseteq Reach(gs, ContentText(b.content))
  <2>1. PICK a : /\ HasResult(heard, a) /\ b.id = a.id
                 /\ ContentText(b.content) =
                      IF a.id \in ids THEN Stub(ContentText(a.content), PathOf(saved, a.id))
                      ELSE ContentText(a.content)
    BY <1>2, <1>9 DEF Edits
  <2> DEFINE c == b.id
             text == ContentText(a.content)
             p == PathOf(saved, c)
  <2>2. HasResult(messages, a) /\ c \notin unsaved /\ (c \in ids => p # 0)
        /\ unsaved' = unsaved \cup {x \in ids : PathOf(saved, x) = 0}
    BY <1>2, <1>3, <1>9, <2>1 DEF Edits, Clearing
  <2>3. CASE c \notin ids
    <3>1. ContentText(b.content) = text /\ Said(c) \subseteq Reach(fs, text)
      BY <1>7, <1>9, <2>1, <2>2, <2>3
    <3> QED
      BY <1>8, <3>1
  <2>4. CASE c \in ids
    <3> DEFINE stub == Stub(text, p)
    <3>1. ContentText(b.content) = stub /\ p # 0 /\ p \in Nat
      BY <1>3, <2>1, <2>2, <2>4, PathsType
    <3>2. Path(p) \in ToSet(stub)
      <4>1. text \in Texts /\ ClearKeep \in Nat
        <5>1. messages \in TranscriptSet
          BY <1>3 DEF ContextTypes
        <5>2. a.content \in ResultContents
          BY <2>2, <5>1, ResultsAreBlocks
        <5> QED
          BY <5>2, ContentTextType, SizesAssumption
      <4> HIDE DEF text, p
      <4> QED
        BY <3>1, <4>1, StubType
    <3> HIDE DEF stub
    <3>3. p \in 1..Len(gs) => /\ ToSet(gs[p]) \subseteq Within(gs, stub)[1]
                              /\ ToSet(gs[p]) \subseteq Reach(gs, stub)
      BY <1>6, <3>2, ReachOpens
    <3>4. CASE c \in DOMAIN spilled
      <4>1. p = spilled[c] /\ p \in 1..Len(fs) /\ Said(c) \subseteq ToSet(fs[p])
        BY <1>7, <1>9, <3>4 DEF PathOf
      <4>2. p \in 1..Len(gs) /\ gs[p] = fs[p]
        BY <1>6, <4>1
      <4> QED
        BY <3>1, <3>3, <4>1, <4>2
    <3>5. CASE c \notin DOMAIN spilled
      <4>1. c \in saved /\ p = SavedAs(saved)[c]
        BY <3>1, <3>5 DEF PathOf
      <4>2. PICK i \in 1..Len(g) : gs[p] = g[i] /\ Ascending(saved)[i] = c
        BY <1>6, <4>1
      <4>3. gs[p] = TextOf(heard, c)
        BY <1>5, <4>2
      <4>4. PICK e : HasResult(heard, e) /\ e.id = c /\ TextOf(heard, c) = ContentText(e.content)
        BY <1>3, <2>1, TextOfResult DEF Clearing
      <4>5. Said(c) \subseteq Reach(fs, gs[p])
        <5>1. HasResult(messages, e)
          BY <1>3, <4>4 DEF Clearing
        <5> QED
          BY <1>7, <1>9, <2>2, <4>3, <4>4, <5>1
      <4>6. Len(fs) + 1 <= Len(gs) /\ 1 \in Nat
        <5>1. Cardinality(saved) >= 1
          BY <1>5, <1>6, <4>2
        <5> QED
          BY <1>6, <5>1
      <4>7. ToSet(gs[p]) \subseteq Within(gs, stub)[1]
        BY <1>6, <3>3, <4>1
      <4> DEFINE saying == gs[p]
      <4>8. ToSet(saying) \subseteq Within(gs, stub)[1] /\ Said(c) \subseteq Reach(fs, saying)
        BY <4>5, <4>7
      <4> HIDE DEF saying
      <4>9. Reach(fs, saying) \subseteq Reach(gs, stub)
        BY <1>6, <4>6, <4>8, ReachExtends
      <4> QED
        BY <3>1, <4>8, <4>9
    <3> QED
      BY <3>4, <3>5
  <2> QED
    BY <2>3, <2>4
<1>10. ResultsReach'
  BY <1>1, <1>9 DEF ResultsReach, Said, gs
<1>11. FilesReach'
  <2> SUFFICES ASSUME NEW c \in DOMAIN spilled, returned[c].what = "text"
               PROVE  Said(c) \subseteq ToSet(files'[spilled[c]])
    BY <1>1 DEF FilesReach, Said
  <2>1. spilled[c] \in 1..Len(fs) /\ Said(c) \subseteq ToSet(fs[spilled[c]])
    BY <1>7
  <2>2. gs[spilled[c]] = fs[spilled[c]]
    BY <1>6, <2>1
  <2> QED
    BY <2>1, <2>2 DEF gs
<1> QED
  BY <1>10, <1>11 DEF ReachInv

\* A result is its output, or the output is behind it.
LEMMA ReturnReaches ==
  ASSUME ContextInv, ReachInv, NEW kinds \in SequencesUpTo(Contents, MaxBatch), NEW works, ToolsReturn(kinds, works)
  PROVE  ReachInv'
<1>1. /\ kinds \in Seq(OutputKinds) /\ UNCHANGED config
      /\ \E saved : Returns(kinds, saved, files', spilled', returned', unsaved', messages')
  BY ReturnEffect
<1>2. PICK saved : Returns(kinds, saved, files', spilled', returned', unsaved', messages')
  BY <1>1
<1>3. ContextTypes /\ BatchInv
  BY DEF ContextInv
<1> DEFINE fs == files
           gs == files'
<1>4. /\ Len(fs) \in Nat /\ Len(returned) \in Nat /\ Len(kinds) \in Nat
      /\ gs \in Seq(Texts) /\ Len(gs) \in Nat /\ Len(gs) >= Len(fs)
      /\ \A p \in 1..Len(fs) : p \in 1..Len(gs) /\ gs[p] = fs[p]
      /\ returned' \in Seq(Fates)
      /\ \A c \in 1..Len(returned) : c \in 1..Len(returned') /\ returned'[c] = returned[c]
      /\ \A c \in ReturnedCalls(kinds) :
           c \in 1..Len(returned') /\ c \notin 1..Len(returned) /\ returned'[c] = KindOf(kinds, c)
      /\ DOMAIN spilled' = saved \cup DOMAIN spilled
      /\ \A c \in DOMAIN spilled : spilled'[c] = spilled[c]
      /\ \A c \in saved : /\ spilled'[c] = SavedAs(saved)[c] /\ SavedAs(saved)[c] \in 1..Len(gs)
                          /\ SavedAs(saved)[c] > 0
                          /\ gs[SavedAs(saved)[c]] = Output(c, KindOf(kinds, c).size)
  <2>1. BatchFiles(kinds, saved, gs, spilled', returned')
    BY <1>1, <1>2, <1>3, ReturnedFiles
  <2> QED
    BY <2>1 DEF BatchFiles
<1>5. /\ saved \subseteq ReturnedCalls(kinds) /\ \A c \in saved : KindOf(kinds, c).what = "text"
      /\ unsaved \subseteq unsaved'
      /\ \A c \in ReturnedCalls(kinds) : c \notin unsaved' =>
           Shown(c, KindOf(kinds, c), Placed(saved, c)) = Uncut(c, KindOf(kinds, c), Placed(saved, c))
      /\ \A b : HasResult(messages', b) =>
           \/ HasResult(messages, b)
           \/ /\ b.id \in ReturnedCalls(kinds)
              /\ b.content = Shown(b.id, KindOf(kinds, b.id), Placed(saved, b.id))
  BY <1>2 DEF Returns, IsCut
<1>6. /\ fs \in Seq(Texts) /\ config \in Configs
      /\ DOMAIN spilled \subseteq 1..Len(returned) /\ \A c \in DOMAIN spilled : spilled[c] \in 1..Len(fs)
      /\ \A b : HasResult(messages, b) => b.id \in 1..Len(returned)
      /\ \A c \in DOMAIN spilled : returned[c].what = "text" => Said(c) \subseteq ToSet(fs[spilled[c]])
      /\ \A b : HasResult(messages, b) /\ returned[b.id].what = "text" /\ b.id \notin unsaved =>
           Said(b.id) \subseteq Reach(fs, ContentText(b.content))
  BY <1>3 DEF ContextTypes, BatchInv, ReachInv, FilesReach, ResultsReach
<1>7. \A c \in ReturnedCalls(kinds) : c \in Nat /\ KindOf(kinds, c) \in OutputKinds /\ KindOf(kinds, c).size \in Nat
  <2> TAKE c \in ReturnedCalls(kinds)
  <2>1. c \in Nat /\ c - Len(returned) \in 1..Len(kinds)
    BY <1>4 DEF ReturnedCalls
  <2>2. KindOf(kinds, c) \in OutputKinds
    <3> HIDE DEF OutputKinds
    <3> QED
      BY <1>1, <2>1 DEF KindOf
  <2> QED
    BY <2>1, <2>2 DEF OutputKinds
<1>8. \A c \in 1..Len(returned) : Said(c)' = Said(c)
  BY <1>4 DEF Said
<1>9. \A c \in ReturnedCalls(kinds) : Said(c)' = ToSet(Output(c, KindOf(kinds, c).size))
  BY <1>4 DEF Said
<1> HIDE DEF fs, gs
<1>10. ASSUME NEW t PROVE Reach(fs, t) \subseteq Reach(gs, t)
  <2>1. Len(fs) + 0 <= Len(gs) /\ 0 \in Nat
    BY <1>4
  <2>2. ToSet(t) \subseteq Within(gs, t)[0]
    BY <1>4, WithinSteps
  <2> QED
    BY <1>4, <1>6, <2>1, <2>2, ReachExtends
<1>11. ASSUME NEW b, HasResult(messages', b), returned'[b.id].what = "text", b.id \notin unsaved'
       PROVE  Said(b.id)' \subseteq Reach(gs, ContentText(b.content))
  <2>1. CASE HasResult(messages, b)
    <3>1. b.id \in 1..Len(returned) /\ returned[b.id].what = "text" /\ b.id \notin unsaved
      BY <1>4, <1>5, <1>6, <1>11, <2>1
    <3>2. Said(b.id) \subseteq Reach(fs, ContentText(b.content))
      BY <1>6, <2>1, <3>1
    <3> QED
      BY <1>8, <1>10, <3>1, <3>2
  <2>2. CASE ~HasResult(messages, b)
    <3> DEFINE c == b.id
               kind == KindOf(kinds, c)
               out == Output(c, kind.size)
    <3>1. c \in ReturnedCalls(kinds) /\ b.content = Shown(c, kind, Placed(saved, c))
      BY <1>5, <1>11, <2>2
    <3>2. c \in Nat /\ kind \in OutputKinds /\ kind.what = "text" /\ Said(c)' = ToSet(out)
      BY <1>4, <1>7, <1>9, <1>11, <3>1
    <3>3. out \in Texts
      BY <1>7, <3>1, OutputType
    <3> HIDE DEF kind, out
    <3>4. CASE c \in saved
      <4> DEFINE p == SavedAs(saved)[c]
                 preview == Preview(out, p)
      <4>1. p \in 1..Len(gs) /\ p > 0 /\ gs[p] = out /\ Placed(saved, c) = p /\ p \in Nat
        BY <1>4, <3>4 DEF Placed, kind, out
      <4> HIDE DEF p
      <4>2. b.content = Plain(preview)
        <5>1. b.content = Uncut(c, kind, p)
          BY <1>5, <1>11, <3>1, <4>1 DEF kind
        <5>2. Uncut(c, kind, p) = Plain(preview)
          BY <1>6, <3>2, <4>1, ShownType DEF out
        <5> QED
          BY <5>1, <5>2
      <4>3. Path(p) \in ToSet(preview)
        BY <3>3, <4>1, PreviewType
      <4> HIDE DEF preview
      <4>4. ContentText(b.content) = preview
        BY <4>2 DEF ContentText, Plain
      <4>5. ToSet(gs[p]) \subseteq Reach(gs, preview)
        BY <1>4, <4>1, <4>3, ReachOpens
      <4> QED
        BY <3>2, <4>1, <4>4, <4>5
    <3>5. CASE c \notin saved
      <4>1. b.content = Whole(c, kind)
        BY <1>5, <1>11, <3>1, <3>5 DEF Placed, kind, Uncut
      <4>2. b.content = Plain(out)
        BY <3>2, <4>1, WholeType DEF out
      <4>3. ContentText(b.content) = out
        BY <4>2 DEF ContentText, Plain
      <4> QED
        BY <1>4, <3>2, <4>3, ReachOpens
    <3> QED
      BY <3>4, <3>5
  <2> QED
    BY <2>1, <2>2
<1>12. ResultsReach'
  BY <1>11 DEF ResultsReach, Said, gs
<1>13. FilesReach'
  <2> SUFFICES ASSUME NEW c \in DOMAIN spilled', returned'[c].what = "text"
               PROVE  Said(c)' \subseteq ToSet(gs[spilled'[c]])
    BY DEF FilesReach, Said, gs
  <2>1. CASE c \in saved
    BY <1>4, <1>5, <1>9, <2>1
  <2>2. CASE c \notin saved
    <3>1. c \in DOMAIN spilled /\ c \in 1..Len(returned) /\ spilled'[c] = spilled[c] /\ returned[c].what = "text"
      BY <1>4, <1>6, <2>2
    <3>2. gs[spilled[c]] = fs[spilled[c]]
      BY <1>4, <1>6, <3>1
    <3> QED
      BY <1>6, <1>8, <3>1, <3>2
  <2> QED
    BY <2>1, <2>2
<1> QED
  BY <1>12, <1>13 DEF ReachInv

\* A run starts with nothing out of reach.
LEMMA ReachInitial == ContextInit => ReachInv
<1> SUFFICES ASSUME ContextInit PROVE ReachInv
  OBVIOUS
<1>1. ContextInv /\ Len(returned) = 0 /\ spilled = <<>>
  BY ContextInitial DEF ContextInit
<1>2. \A b : ~HasResult(messages, b)
  BY <1>1 DEF ContextInv, BatchInv
<1>3. DOMAIN spilled = {}
  BY <1>1
<1> QED
  BY <1>2, <1>3 DEF ReachInv, ResultsReach, FilesReach

\* Every step keeps within reach what a tool returned.
LEMMA ReachStep == ContextInv /\ ReachInv /\ [ContextNext]_contextVars => ReachInv'
<1> SUFFICES ASSUME ContextInv, ReachInv, [ContextNext]_contextVars PROVE ReachInv'
  OBVIOUS
<1>1. ASSUME NEW steered \in {FALSE} \cup {passes \in ControlPasses}, NEW reached \in {FALSE} \cup {passes \in ControlPasses},
             NEW works, BeginPass(steered, reached, works)
      PROVE  ReachInv'
  <2>1. steered \in BOOLEAN /\ reached \in BOOLEAN
    OBVIOUS
  <2> QED
    BY <1>1, <2>1, BeginPassReaches
<1>2. ASSUME NEW thought \in BOOLEAN, NEW tooLong \in BOOLEAN,
             NEW toolsets \in SequencesUpTo(ToolsetsOffered, MaxBatch),
             NEW said \in IF toolsets = <<>> THEN {<<>>, <<Text("answer", FALSE)>>} ELSE {<<>>},
             NEW order \in {<<>>} \cup StreamOrders(thought, toolsets), NEW signal,
             ModelAnswers(thought, said, toolsets, order, tooLong, signal)
      PROVE  ReachInv'
  <2>1. said \in {<<>>, <<Text("answer", FALSE)>>}
    OBVIOUS
  <2>2. /\ \A c \in 1..Len(returned) : returned'[c] = returned[c]
        /\ \A b : HasResult(messages', b) => HasResult(messages, b) \/ returned'[b.id].what = "unrun"
    BY <1>2, <2>1, AnswerEffect, ZenonT(40)
  <2>3. UNCHANGED <<files, unsaved, spilled>>
    BY <1>2 DEF ModelAnswers
  <2> QED
    BY <2>2, <2>3, ReachStays
<1>3. ASSUME NEW kinds \in SequencesUpTo(Contents, MaxBatch), NEW works, ToolsReturn(kinds, works)
      PROVE  ReachInv'
  BY <1>3, ReturnReaches
<1>4. CASE Resume
  <2>1. /\ \A c \in 1..Len(returned) : returned'[c] = returned[c]
        /\ \A b : HasResult(messages', b) => HasResult(messages, b) \/ returned'[b.id].what = "unrun"
    BY <1>4, ResumeKeeps
  <2>2. UNCHANGED <<files, unsaved>> /\ spilled' = <<>>
    BY <1>4 DEF Resume
  <2> QED
    BY <2>1, <2>2, ReachStays
<1>5. ASSUME NEW prompt \in Prompts, NewTurn(prompt) PROVE ReachInv'
  <2>1. \A b : HasResult(messages', b) => HasResult(messages, b)
    BY <1>5, NewTurnKeeps
  <2>2. UNCHANGED <<files, unsaved, returned>> /\ spilled' = <<>>
    BY <1>5 DEF NewTurn
  <2> QED
    BY <2>1, <2>2, ReachStays
<1>6. CASE UNCHANGED contextVars
  <2>1. UNCHANGED <<messages, files, returned, spilled, unsaved>>
    BY <1>6 DEF contextVars
  <2>2. \A b : HasResult(messages', b) => HasResult(messages, b)
    BY <2>1
  <2> QED
    BY <2>1, <2>2, ReachStays
<1>7. CASE \E steered, reached \in {FALSE} \cup {passes \in ControlPasses},
                works \in {TRUE, ~config.workspace} : BeginPass(steered, reached, works)
  BY <1>1, <1>7
<1>8. CASE \E thought, tooLong \in BOOLEAN, toolsets \in SequencesUpTo(ToolsetsOffered, MaxBatch) :
             \E said \in IF toolsets = <<>> THEN {<<>>, <<Text("answer", FALSE)>>} ELSE {<<>>},
                order \in {<<>>} \cup StreamOrders(thought, toolsets), signal \in Signals(toolsets) :
               ModelAnswers(thought, said, toolsets, order, tooLong, signal)
  <2>1. PICK thought \in BOOLEAN, tooLong \in BOOLEAN, toolsets \in SequencesUpTo(ToolsetsOffered, MaxBatch) :
          \E said \in IF toolsets = <<>> THEN {<<>>, <<Text("answer", FALSE)>>} ELSE {<<>>},
             order \in {<<>>} \cup StreamOrders(thought, toolsets), signal \in Signals(toolsets) :
            ModelAnswers(thought, said, toolsets, order, tooLong, signal)
    BY <1>8, Zenon
  <2>2. PICK said \in IF toolsets = <<>> THEN {<<>>, <<Text("answer", FALSE)>>} ELSE {<<>>},
             order \in {<<>>} \cup StreamOrders(thought, toolsets), signal \in Signals(toolsets) :
          ModelAnswers(thought, said, toolsets, order, tooLong, signal)
    BY <2>1, Zenon
  <2> QED
    BY <1>2, <2>2
<1>9. CASE \E kinds \in SequencesUpTo(Contents, MaxBatch), works \in {TRUE, ~config.workspace} :
             ToolsReturn(kinds, works)
  BY <1>3, <1>9
<1>10. CASE \E prompt \in Prompts : NewTurn(prompt)
  BY <1>5, <1>10
<1>11. CASE Stop
  <2>1. UNCHANGED <<messages, files, returned, spilled, unsaved>>
    BY <1>11 DEF Stop
  <2>2. \A b : HasResult(messages', b) => HasResult(messages, b)
    BY <2>1
  <2> QED
    BY <2>1, <2>2, ReachStays
<1> QED
  BY <1>4, <1>6, <1>7, <1>8, <1>9, <1>10, <1>11 DEF ContextNext

\* The two invariants imply OutputsReachable.
LEMMA Reachable == ContextInv /\ ReachInv => OutputsReachable
<1> SUFFICES ASSUME ContextInv, ReachInv, NEW p \in ResultPositions(messages),
                    returned[messages[p[1]].content[p[2]].id].what = "text",
                    messages[p[1]].content[p[2]].id \notin unsaved
             PROVE  ToSet(Output(messages[p[1]].content[p[2]].id, returned[messages[p[1]].content[p[2]].id].size))
                      \subseteq Found(ContentText(messages[p[1]].content[p[2]].content))
  BY DEF OutputsReachable
<1> DEFINE b == messages[p[1]].content[p[2]]
<1>1. messages \in TranscriptSet
  BY DEF ContextInv, ContextTypes
<1>2. HasResult(messages, b)
  BY <1>1, ResultPositionsAre
<1>3. returned[b.id].what = "text" /\ b.id \notin unsaved
  OBVIOUS
<1> HIDE DEF b
<1>4. ToSet(Output(b.id, returned[b.id].size)) \subseteq Reach(files, ContentText(b.content))
  BY <1>2, <1>3 DEF ReachInv, ResultsReach, Said
<1>5. Found(ContentText(b.content)) = Reach(files, ContentText(b.content))
  BY FoundIs
<1> QED
  BY <1>4, <1>5 DEF b

\* All the text a tool returned stays within reach of the transcript through the
\* files it names, however it was spilled to a file, capped, cleared to a stub,
\* resumed or carried into a next turn, unless the workspace refused it or the
\* cap cut what was shown of it (_context.py, spill, cap_result, clear_results).
THEOREM OutputsReachableAlways == ContextSpec => []OutputsReachable
<1>1. ContextSpec => []ContextInv
  BY ContextAlways
<1>2. ContextSpec => [](ContextInv /\ ReachInv)
  BY <1>1, ReachInitial, ReachStep, PTL DEF ContextSpec
<1> QED
  BY <1>2, Reachable, PTL
=============================================================================
