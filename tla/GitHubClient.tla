----------------------------- MODULE GitHubClient -----------------------------
(***************************************************************************)
(* GraphQLClient of the github package: one client shared by goroutines,   *)
(* with two caches under two mutexes (organization -> installation id, and *)
(* organization -> authenticated client), the paged discovery that fills   *)
(* them, ClearCache, and the two queries the slip code asks.               *)
(*                                                                         *)
(* Each critical section and each request is an action; between them other *)
(* goroutines run and GitHub's list of installations may change.  A cached *)
(* client is known by the installation id it was built for.                *)
(***************************************************************************)
EXTENDS Naturals, Sequences, SequencesExt, FiniteSetsExt

CONSTANTS
    Callers,    \* goroutines
    Orgs,       \* organizations
    PageSize,   \* installations per page (100)
    OverFetch,  \* commits fetched per commit asked for (5)
    MaxFetch,   \* GitHub's limit on one history query (100)
    Commits,
    NoCommit,   \* the first parent of a root commit
    Scenarios   \* [asks, ids, order, first]: the requests each goroutine makes,
                \* how many installations GitHub makes (a bound), the history it
                \* lists for the ref, and the first parents of the commits

NoId == 0

Requests ==
    [kind : {"ancestry"}, org : Orgs, depth : Nat]
      \cup [kind : {"pr_head"}, org : Orgs]

ASSUME GitHubAssumption ==
    /\ PageSize \in Nat \ {0} /\ OverFetch \in Nat \ {0} /\ MaxFetch \in Nat \ {0}
    /\ NoCommit \notin Commits
    /\ \A s \in Scenarios :
          /\ s.asks \in [Callers -> SUBSET Requests]
          /\ s.ids \in Nat
          /\ s.order \in Seq(Commits)
          /\ s.first \in [Commits -> Commits \cup {NoCommit}]

VARIABLES
    scenario,           \* which of Scenarios this behaviour plays
    installations,      \* GitHub's list, in the order it pages it
    nextId,             \* the next installation id
    installationCache,  \* organization -> installation id
    clientCache,        \* organization -> the installation id of its client
    clearing,           \* ClearCache has emptied the first cache only
    call,               \* goroutine -> its call, or its last answer
    chain,              \* goroutine -> the ancestry it was given last
    gone,               \* auxiliary: ids removed when ClearCache last began
    old                 \* auxiliary: <<cache, org>> written from before it

caches == <<installationCache, clientCache>>
github == <<installations, nextId>>
vars   == <<scenario, installations, nextId, installationCache, clientCache,
            clearing, call, chain, gone, old>>

-----------------------------------------------------------------------------
(***************************************************************************)
(* GitHub.  An installation may be removed and a new one made, which gets  *)
(* an id of its own.                                                       *)
(***************************************************************************)
Installation == [account : Orgs, id : 1 .. scenario.ids]

Slice(seq, from, to) == SubSeq(seq, from, Min({to, Len(seq)}))

Installed(o) == \E i \in DOMAIN installations : installations[i].account = o

\* The page that starts after "from" entries, and whether the Link header
\* names a next one.
Page(from)     == Slice(installations, from + 1, from + PageSize)
MorePages(from) == Len(installations) > from + PageSize

Install(o) ==
    /\ ~Installed(o) /\ nextId <= scenario.ids
    /\ installations' = Append(installations, [account |-> o, id |-> nextId])
    /\ nextId' = nextId + 1
    /\ UNCHANGED <<scenario, caches, clearing, call, chain, gone, old>>

\* A removal moves later installations up; the calls under way may miss one.
Uninstall(o) ==
    /\ \E i \in DOMAIN installations :
          installations[i].account = o /\ installations' = RemoveAt(installations, i)
    /\ call' = [c \in Callers |-> [call[c] EXCEPT !.steady = FALSE]]
    /\ UNCHANGED <<scenario, nextId, caches, clearing, chain, gone, old>>

-----------------------------------------------------------------------------
(***************************************************************************)
(* A call.  "since" is auxiliary: the call began before ClearCache did, or *)
(* works with what such a call cached.  "steady": no installation was      *)
(* removed since it began, and its organization had one.                   *)
(***************************************************************************)
Idle == [pc |-> "idle", ask |-> <<>>, from |-> 0, page |-> <<>>,
         more |-> FALSE, id |-> NoId, since |-> FALSE, steady |-> FALSE, answer |-> "none"]

At(c, pc) == call[c].pc = pc
OrgOf(c)  == call[c].ask.org

\* The call of c goes on with these fields.
Go(c, next) == call' = [call EXCEPT ![c] = next] /\ UNCHANGED chain

\* Answers the properties are about are kept until the next call; a failure,
\* a head and ErrPRNotFound are not told apart.
NotFound(c) == [Idle EXCEPT !.answer = "not_found", !.steady = call[c].steady]
Chain(c)    == [Idle EXCEPT !.answer = "chain", !.ask = call[c].ask]

Begin(c, r) ==
    /\ At(c, "idle")
    /\ call' = [call EXCEPT ![c] = [Idle EXCEPT !.pc = "client", !.ask = r,
                                                !.steady = Installed(r.org)]]
    /\ chain' = [chain EXCEPT ![c] = <<>>]
    /\ UNCHANGED <<scenario, github, caches, clearing, gone, old>>

\* GetClientForOrg looks its organization's client up.
FindClient(c) ==
    /\ At(c, "client")
    /\ IF clientCache[OrgOf(c)] # NoId
       THEN Go(c, [call[c] EXCEPT !.pc = "query", !.id = clientCache[OrgOf(c)]])
       ELSE Go(c, [call[c] EXCEPT !.pc = "installation"])
    /\ UNCHANGED <<scenario, github, caches, clearing, gone, old>>

\* DiscoverInstallationID looks the installation up.
FindInstallation(c) ==
    /\ At(c, "installation")
    /\ IF installationCache[OrgOf(c)] # NoId
       THEN Go(c, [call[c] EXCEPT !.pc = "build", !.id = installationCache[OrgOf(c)],
                      !.since = @ \/ <<"installation", OrgOf(c)>> \in old])
       ELSE Go(c, [call[c] EXCEPT !.pc = "list"])
    /\ UNCHANGED <<scenario, github, caches, clearing, gone, old>>

\* One request for a page of installations.
ListPage(c) ==
    /\ At(c, "list")
    /\ Go(c, [call[c] EXCEPT !.pc = "page", !.page = Page(call[c].from),
                             !.more = MorePages(call[c].from)])
    /\ UNCHANGED <<scenario, github, caches, clearing, gone, old>>

\* Mutant: the next page is asked for by the number of the page.
NextPageByNumber(c) ==
    /\ At(c, "page") /\ call[c].page = <<>>
    /\ IF call[c].more
       THEN Go(c, [call[c] EXCEPT !.pc = "list", !.from = @ + PageSize + 1])
       ELSE Go(c, NotFound(c))
    /\ UNCHANGED <<scenario, github, caches, clearing, gone, old>>

\* Mutant: a page that is no use is asked for again.
NextPageAgain(c) ==
    /\ At(c, "page") /\ call[c].page = <<>>
    /\ Go(c, [call[c] EXCEPT !.pc = "list"])
    /\ UNCHANGED <<scenario, github, caches, clearing, gone, old>>

\* The page did not have the organization: follow the Link header, or give up.
NextPage(c) ==
    /\ At(c, "page") /\ call[c].page = <<>>
    /\ IF call[c].more
       THEN Go(c, [call[c] EXCEPT !.pc = "list", !.from = @ + PageSize])
       ELSE Go(c, NotFound(c))
    /\ UNCHANGED <<scenario, github, caches, clearing, gone, old>>

\* What is written from before ClearCache is remembered as such.
Mark(cache, o, since) ==
    IF since THEN old \cup {<<cache, o>>} ELSE old \ {<<cache, o>>}

\* The entries of a page are cached one by one, each under the lock, up to
\* the one that was looked for.
CacheInstallation(c) ==
    /\ At(c, "page") /\ call[c].page # <<>>
    /\ LET inst == Head(call[c].page) IN
          /\ installationCache' = [installationCache EXCEPT ![inst.account] = inst.id]
          /\ old' = Mark("installation", inst.account, call[c].since)
          /\ Go(c, IF inst.account = OrgOf(c)
                   THEN [call[c] EXCEPT !.pc = "build", !.id = inst.id,
                            !.from = 0, !.page = <<>>, !.more = FALSE]
                   ELSE [call[c] EXCEPT !.page = Tail(@)])
    /\ UNCHANGED <<scenario, github, clientCache, clearing, gone>>

\* A client for the installation is built and cached.
CacheClient(c) ==
    /\ At(c, "build")
    /\ clientCache' = [clientCache EXCEPT ![OrgOf(c)] = call[c].id]
    /\ old' = Mark("client", OrgOf(c), call[c].since)
    /\ Go(c, [call[c] EXCEPT !.pc = "query"])
    /\ UNCHANGED <<scenario, github, installationCache, clearing, gone>>

\* A request fails: GitHub refuses or cannot be reached, the body does not
\* decode, or the installation of a cached client is gone.
RequestFails(c) ==
    /\ At(c, "list") \/ At(c, "query")
    /\ Go(c, Idle)
    /\ UNCHANGED <<scenario, github, caches, clearing, gone, old>>

-----------------------------------------------------------------------------
(***************************************************************************)
(* The queries.                                                            *)
(***************************************************************************)

\* GetCommitAncestry asks for more than "depth" commits, within GitHub's limit.
FetchDepth(depth) ==
    Min({IF depth = 0 THEN 1 ELSE depth * OverFetch, MaxFetch})

Fetched(depth) ==
    Slice(scenario.order, 1, FetchDepth(depth))

\* Mutant: the commits are taken as GitHub lists them.
LinearHistory(nodes, depth) ==
    Slice(nodes, 1, depth)

\* filterFirstParentChain: from the first node along first parents, as far as
\* they were fetched and not beyond "depth".
FilterFirstParentChain(nodes, depth) ==
    LET commits[n \in Nat] ==
            IF n = 0 THEN <<nodes[1]>>
            ELSE LET walked == commits[n - 1]
                     parent == scenario.first[Last(walked)]
                 IN  IF Len(walked) < depth /\ parent \in ToSet(nodes)
                     THEN Append(walked, parent) ELSE walked
    IN  IF nodes = <<>> THEN <<>> ELSE commits[depth]

GetCommitAncestry(c) ==
    /\ At(c, "query") /\ call[c].ask.kind = "ancestry"
    /\ \E i \in DOMAIN installations : installations[i].id = call[c].id
    /\ LET depth == call[c].ask.depth IN
          chain' = [chain EXCEPT ![c] = FilterFirstParentChain(Fetched(depth), depth)]
    /\ call' = [call EXCEPT ![c] = Chain(c)]
    /\ UNCHANGED <<scenario, github, caches, clearing, gone, old>>

\* The pull request has a head, or there is no such pull request.
GetPRHeadCommit(c) ==
    /\ At(c, "query") /\ call[c].ask.kind = "pr_head"
    /\ \E i \in DOMAIN installations : installations[i].id = call[c].id
    /\ Go(c, Idle)
    /\ UNCHANGED <<scenario, github, caches, clearing, gone, old>>

-----------------------------------------------------------------------------
(***************************************************************************)
(* ClearCache: two critical sections, the installation ids first.          *)
(***************************************************************************)
Removed ==
    {i \in 1 .. nextId - 1 : \A n \in DOMAIN installations : installations[n].id # i}

Empty == [o \in Orgs |-> NoId]

\* Mutant: the clients go first.
ClientsFirst == <<"client", "installation">>

\* The order in which ClearCache empties the caches.
ClearOrder == <<"installation", "client">>

Clear(cache) ==
    /\ installationCache' = IF cache = "installation" THEN Empty ELSE installationCache
    /\ clientCache' = IF cache = "client" THEN Empty ELSE clientCache

\* ClearCache begins: the calls under way are from before it.
ClearFirst ==
    /\ ~clearing /\ clearing' = TRUE
    /\ Clear(ClearOrder[1])
    /\ gone' = Removed /\ old' = {}
    /\ call' = [c \in Callers |-> [call[c] EXCEPT !.since = ~At(c, "idle")]]
    /\ UNCHANGED <<scenario, github, chain>>

ClearSecond ==
    /\ clearing /\ clearing' = FALSE
    /\ Clear(ClearOrder[2])
    /\ old' = {k \in old : k[1] # ClearOrder[2]}
    /\ UNCHANGED <<scenario, github, call, chain, gone>>

-----------------------------------------------------------------------------
Init ==
    /\ scenario \in Scenarios
    /\ installations = <<>> /\ nextId = 1
    /\ installationCache = Empty /\ clientCache = Empty
    /\ clearing = FALSE /\ gone = {} /\ old = {}
    /\ call = [c \in Callers |-> Idle]
    /\ chain = [c \in Callers |-> <<>>]

Step(c) ==
    \/ FindClient(c) \/ FindInstallation(c)
    \/ ListPage(c) \/ CacheInstallation(c) \/ NextPage(c) \/ CacheClient(c)
    \/ GetCommitAncestry(c) \/ GetPRHeadCommit(c)
    \/ RequestFails(c)

Next ==
    \/ \E o \in Orgs : Install(o) \/ Uninstall(o)
    \/ \E c \in Callers : \E r \in scenario.asks[c] : Begin(c, r)
    \/ \E c \in Callers : Step(c)
    \/ ClearFirst \/ ClearSecond

Spec     == Init /\ [][Next]_vars
\* A goroutine that called goes on, and a request has an answer or times out.
FairSpec == Spec /\ \A c \in Callers : WF_vars(Step(c))

-----------------------------------------------------------------------------
(***************************************************************************)
(* Properties.                                                             *)
(***************************************************************************)
Calls ==
    [pc : {"idle", "client", "installation", "list", "page", "build", "query"},
     ask : Requests \cup {<<>>}, from : Nat, page : Seq(Installation), more : BOOLEAN,
     id : 0 .. scenario.ids, since : BOOLEAN, steady : BOOLEAN,
     answer : {"none", "not_found", "chain"}]

TypeOK ==
    /\ scenario \in Scenarios
    /\ installations \in Seq(Installation)
    /\ nextId \in 1 .. scenario.ids + 1
    /\ installationCache \in [Orgs -> 0 .. scenario.ids]
    /\ clientCache \in [Orgs -> 0 .. scenario.ids]
    /\ clearing \in BOOLEAN
    /\ call \in [Callers -> Calls]
    /\ \A c \in Callers :
          /\ ~At(c, "idle") => call[c].ask \in Requests
          /\ At(c, "query") => call[c].id # NoId
    /\ gone \subseteq 1 .. scenario.ids
    /\ old \subseteq {"installation", "client"} \X Orgs

\* Installation ids are never shared: no organization is served with a token
\* of another one, although a discovery caches whatever it pages past.
OneOrgPerId ==
    \A o, p \in Orgs :
        o # p => /\ clientCache[o] = NoId \/ clientCache[o] # clientCache[p]
                 /\ clientCache[o] = NoId \/ clientCache[o] # installationCache[p]

\* What ClearCache promises ("useful when installations change"): afterwards
\* no cache holds an installation that was gone when it began, unless a call
\* that was already under way then put it there.  The two critical sections
\* must come in the code's order for that.
ClearedIsForgotten ==
    ~clearing => \A o \in Orgs :
        /\ <<"installation", o>> \notin old => installationCache[o] \notin gone
        /\ <<"client", o>> \notin old => clientCache[o] \notin gone

\* The two caches, through racing calls, ClearCache and changing installations.
CachesAreSound == TypeOK /\ OneOrgPerId /\ ClearedIsForgotten

\* Discovery reads page by page while the list may change: an organization
\* that had an installation is reported as not found only if some
\* installation was removed meanwhile.
NotFoundIsTrue ==
    \A c \in Callers : call[c].answer = "not_found" => ~call[c].steady

\* An ancestry is the first-parent chain from the head of the history and
\* nothing else: as long as asked for, or up to the first commit whose parent
\* was not among the fetched ones.
AncestryIsFirstParentChain ==
    \A c \in Callers :
        call[c].answer = "chain" /\ scenario.order # <<>> =>
          LET commits == chain[c]
              depth == call[c].ask.depth
              nodes == Fetched(depth)
              bound == IF depth = 0 THEN 1 ELSE depth
          IN
            /\ Len(commits) \in 1 .. bound
            /\ commits[1] = scenario.order[1]
            /\ \A n \in 2 .. Len(commits) : commits[n] = scenario.first[commits[n - 1]]
            /\ Len(commits) = bound \/ scenario.first[Last(commits)] \notin ToSet(nodes)

\* Every call comes to an answer, however the list of installations changes
\* while it is being paged through.
EveryCallAnswers ==
    \A c \in Callers : ~At(c, "idle") ~> At(c, "idle")
=============================================================================
