--------------------------- MODULE GitHubClientProofs ---------------------------
(***************************************************************************)
(* Proofs about GitHubClient, for any goroutines, organizations, page size *)
(* and requests.                                                           *)
(*                                                                         *)
(* What a call found is used long after: in between the caches are emptied *)
(* and GitHub's list changes.  The invariant follows every installation id *)
(* wherever it is held - listed, on a page, in a call, in a cache - and    *)
(* says of a call that pages through the list where its organization is.   *)
(***************************************************************************)
EXTENDS GitHubClient, WellFoundedInduction, TLAPS

-----------------------------------------------------------------------------
(***************************************************************************)
(* An id is held for an organization by what GitHub lists, by a page still *)
(* to be cached, by a call under way, or by a cache.                       *)
(***************************************************************************)
Listed(o, n) ==
    \E i \in DOMAIN installations : installations[i].account = o /\ installations[i].id = n

OnPage(c, o, n) ==
    \E i \in DOMAIN call[c].page : call[c].page[i].account = o /\ call[c].page[i].id = n

Carried(c, o, n) == ~At(c, "idle") /\ OrgOf(c) = o /\ call[c].id = n

Held(o, n) ==
    \/ installationCache[o] = n \/ clientCache[o] = n
    \/ Listed(o, n)
    \/ \E c \in Callers : Carried(c, o, n) \/ (At(c, "page") /\ OnPage(c, o, n))

\* An id is held for one organization, and GitHub made it.
IdInv ==
    /\ \A o \in Orgs, n \in Nat : Held(o, n) => n < nextId
    /\ \A o, p \in Orgs, n \in Nat : n # NoId /\ Held(o, n) /\ Held(p, n) => o = p

\* What was gone when ClearCache began is not listed, not found by a call that
\* began later, and not in a cache that was emptied since, but for what older
\* calls put there.
GoneInv == \A n \in gone : n # NoId /\ n < nextId /\ \A o \in Orgs : ~Listed(o, n)

CachesForget ==
    /\ \A o \in Orgs : <<"installation", o>> \notin old => installationCache[o] \notin gone
    /\ ~clearing => \A o \in Orgs : <<"client", o>> \notin old => clientCache[o] \notin gone

CallForgets(c) ==
    ~call[c].since =>
        /\ At(c, "build") => call[c].id \notin gone
        /\ At(c, "page") => \A o \in Orgs, n \in gone : ~OnPage(c, o, n)

\* While nothing is removed, a call's organization is ahead of where it reads.
Ahead(c, from) ==
    \E i \in DOMAIN installations : i > from /\ installations[i].account = OrgOf(c)

PagingInv(c) ==
    /\ call[c].pc \in {"client", "installation"} => call[c].from = 0
    /\ At(c, "build") => call[c].id # NoId
    /\ call[c].steady =>
          /\ call[c].pc \in {"client", "installation", "list"} => Ahead(c, call[c].from)
          /\ At(c, "page") =>
                \/ \E i \in DOMAIN call[c].page : call[c].page[i].account = OrgOf(c)
                \/ call[c].more /\ Ahead(c, call[c].from + PageSize)

IInv ==
    /\ TypeOK /\ IdInv /\ GoneInv /\ CachesForget /\ NotFoundIsTrue
    /\ \A c \in Callers : PagingInv(c) /\ CallForgets(c)

-----------------------------------------------------------------------------
(***************************************************************************)
(* The list and its pages.                                                 *)
(***************************************************************************)
LEMMA LesserOfTwo ==
    ASSUME NEW a \in Nat, NEW b \in Nat
    PROVE  Min({a, b}) = IF a <= b THEN a ELSE b
BY DEF Min

\* A page holds what is listed in its range, and nothing else.
LEMMA PageIsASlice ==
    ASSUME NEW S, NEW s \in Seq(S), NEW from \in Nat, NEW size \in Nat
    PROVE  LET page == Slice(s, from + 1, from + size)
           IN  /\ page \in Seq(S)
               /\ \A i \in DOMAIN page : from + i \in DOMAIN s /\ page[i] = s[from + i]
               /\ \A j \in DOMAIN s :
                     j > from /\ j <= from + size =>
                         j - from \in DOMAIN page /\ page[j - from] = s[j]
<1> DEFINE to == Min({from + size, Len(s)})
<1>1. /\ to \in Nat /\ to <= Len(s) /\ to <= from + size
      /\ \A j \in Nat : j <= Len(s) /\ j <= from + size => j <= to
  BY LesserOfTwo
<1> HIDE DEF to
<1>2. /\ SubSeq(s, from + 1, to) \in Seq(S)
      /\ DOMAIN SubSeq(s, from + 1, to) = 1 .. (to - from)
      /\ \A i \in 1 .. (to - from) : SubSeq(s, from + 1, to)[i] = s[from + i]
  BY <1>1
<1>3. Slice(s, from + 1, from + size) = SubSeq(s, from + 1, to)
  BY DEF Slice, to
<1>4. \A i \in 1 .. (to - from) : from + i \in DOMAIN s
  BY <1>1
<1>5. \A j \in DOMAIN s : j > from /\ j <= from + size =>
          j - from \in 1 .. (to - from) /\ SubSeq(s, from + 1, to)[j - from] = s[j]
  <2> SUFFICES ASSUME NEW j \in DOMAIN s, j > from, j <= from + size
               PROVE  j - from \in 1 .. (to - from) /\ from + (j - from) = j
    BY <1>2
  <2>1. j \in Nat /\ j <= Len(s)
    OBVIOUS
  <2>2. j <= to
    BY <1>1, <2>1
  <2> QED
    BY <1>1, <2>1, <2>2
<1> QED
  BY <1>2, <1>3, <1>4, <1>5

LEMMA RemovedFrom ==
    ASSUME NEW S, NEW s \in Seq(S), NEW k \in DOMAIN s
    PROVE  /\ RemoveAt(s, k) \in Seq(S)
           /\ \A i \in DOMAIN RemoveAt(s, k) : \E j \in DOMAIN s : RemoveAt(s, k)[i] = s[j]
<1>1. Len(s) \in Nat /\ k \in 1 .. Len(s)
  OBVIOUS
<1> DEFINE a == SubSeq(s, 1, k - 1)
           b == SubSeq(s, k + 1, Len(s))
<1>2. a \in Seq(S) /\ Len(a) = k - 1 /\ \A i \in 1 .. k - 1 : a[i] = s[i]
  BY <1>1
<1>3. b \in Seq(S) /\ Len(b) = Len(s) - k /\ \A i \in 1 .. Len(s) - k : b[i] = s[i + k]
  BY <1>1
<1> HIDE DEF a, b
<1>4. /\ a \o b \in Seq(S)
      /\ \A i \in DOMAIN (a \o b) : \E j \in DOMAIN s : (a \o b)[i] = s[j]
  <2>1. a \o b \in Seq(S) /\ Len(a \o b) = Len(s) - 1
    BY <1>1, <1>2, <1>3
  <2>2. ASSUME NEW i \in DOMAIN (a \o b)
        PROVE  \E j \in DOMAIN s : (a \o b)[i] = s[j]
    <3>1. CASE i <= k - 1
      <4>1. i \in DOMAIN s /\ (a \o b)[i] = s[i]
        BY <1>1, <1>2, <1>3, <2>1, <3>1
      <4> QED
        BY <4>1
    <3>2. CASE ~(i <= k - 1)
      <4>1. i + 1 \in DOMAIN s /\ (a \o b)[i] = b[i - (k - 1)]
        BY <1>1, <1>2, <1>3, <2>1, <3>2
      <4>2. i - (k - 1) \in 1 .. Len(s) - k /\ (i - (k - 1)) + k = i + 1
        BY <1>1, <2>1, <3>2
      <4> QED
        BY <1>3, <4>1, <4>2
    <3> QED
      BY <3>1, <3>2
  <2> QED
    BY <2>1, <2>2
<1> QED
  BY <1>4 DEF RemoveAt, a, b

-----------------------------------------------------------------------------
(***************************************************************************)
(* One goroutine moves.  What remains to show of a step of c: types, what  *)
(* c and the caches hold now was held before, and c's own invariants.      *)
(***************************************************************************)
Moves(c) ==
    /\ UNCHANGED <<scenario, installations, nextId, clearing, gone>>
    /\ call' \in [Callers -> Calls]
    /\ \A d \in Callers \ {c} : call'[d] = call[d]

TypesKept(c) ==
    /\ installationCache' \in [Orgs -> 0 .. scenario.ids]
    /\ clientCache' \in [Orgs -> 0 .. scenario.ids]
    /\ old' \subseteq {"installation", "client"} \X Orgs
    /\ call'[c].pc # "idle" => call'[c].ask \in Requests
    /\ call'[c].pc = "query" => call'[c].id # NoId

HeldByStep(c, o, n) ==
    \/ installationCache'[o] = n \/ clientCache'[o] = n
    \/ Carried(c, o, n)' \/ (At(c, "page") /\ OnPage(c, o, n))'

LEMMA NoNewIds ==
    ASSUME IdInv, nextId' = nextId,
           \A o \in Orgs, n \in Nat : n # NoId /\ Held(o, n)' => Held(o, n),
           nextId \in Nat \ {0}
    PROVE  IdInv'
<1>1. ASSUME NEW o \in Orgs, NEW n \in Nat, Held(o, n)'
      PROVE  n < nextId
  BY <1>1 DEF IdInv, NoId
<1>2. ASSUME NEW o \in Orgs, NEW p \in Orgs, NEW n \in Nat, n # NoId, Held(o, n)', Held(p, n)'
      PROVE  o = p
  BY <1>2 DEF IdInv
<1> QED
  BY <1>1, <1>2 DEF IdInv

LEMMA StepKeepsInv ==
    ASSUME IInv, NEW c \in Callers, Moves(c), TypesKept(c),
           \A o \in Orgs, n \in Nat : n # NoId /\ HeldByStep(c, o, n) => Held(o, n),
           CachesForget', CallForgets(c)', PagingInv(c)',
           call'[c].answer = "not_found" => ~call'[c].steady
    PROVE  IInv'
<1>1. TypeOK /\ IdInv /\ GoneInv /\ NotFoundIsTrue
  BY DEF IInv
<1>2. Calls' = Calls /\ Installation' = Installation
  BY DEF Calls, Installation, Moves
<1>3. TypeOK'
  <2>1. ASSUME NEW d \in Callers
        PROVE  /\ (~At(d, "idle"))' => call'[d].ask \in Requests
               /\ At(d, "query")' => call'[d].id # NoId
    BY <1>1 DEF TypeOK, Moves, TypesKept, At
  <2> QED
    BY <1>1, <1>2, <2>1 DEF TypeOK, Moves, TypesKept
<1>4. IdInv'
  <2>1. nextId \in Nat \ {0}
    BY <1>1, GitHubAssumption DEF TypeOK
  <2>2. ASSUME NEW o \in Orgs, NEW n \in Nat, n # NoId, Held(o, n)'
        PROVE  Held(o, n)
    <3>1. CASE HeldByStep(c, o, n)
      BY <2>2, <3>1
    <3>2. CASE ~HeldByStep(c, o, n)
      BY <2>2, <3>2 DEF Held, HeldByStep, Listed, OnPage, Carried, At, OrgOf, Moves
    <3> QED
      BY <3>1, <3>2
  <2> QED
    BY <1>1, <2>1, <2>2, NoNewIds DEF Moves
<1>5. GoneInv'
  BY <1>1 DEF GoneInv, Listed, Moves
<1>6. NotFoundIsTrue'
  BY <1>1 DEF NotFoundIsTrue, Moves
<1>7. ASSUME NEW d \in Callers \ {c}
      PROVE  PagingInv(d)' /\ CallForgets(d)'
  <2>1. PagingInv(d) /\ CallForgets(d) /\ call'[d] = call[d]
    BY DEF IInv, Moves
  <2> QED
    BY <2>1 DEF PagingInv, CallForgets, At, OnPage, Ahead, OrgOf, Moves
<1> QED
  BY <1>3, <1>4, <1>5, <1>6, <1>7 DEF IInv

LEMMA IdleIsACall ==
    ASSUME TypeOK
    PROVE  Idle \in Calls
<1>1. scenario.ids \in Nat
  BY GitHubAssumption DEF TypeOK
<1>2. <<>> \in Seq(Installation) /\ NoId \in 0 .. scenario.ids
  BY <1>1 DEF NoId
<1> QED
  BY <1>2 DEF Idle, Calls

\* A call begins, or ends without what the properties are about.
LEMMA BeginKeepsInv ==
    ASSUME IInv, NEW c \in Callers, NEW r \in scenario.asks[c], Begin(c, r)
    PROVE  IInv'
<1>1. TypeOK /\ CachesForget
  BY DEF IInv
<1>2. r \in Requests
  BY <1>1, GitHubAssumption DEF TypeOK
<1> DEFINE next == [Idle EXCEPT !.pc = "client", !.ask = r, !.steady = Installed(r.org)]
<1>3. /\ next.pc = "client" /\ next.ask = r /\ next.from = 0 /\ next.id = NoId
      /\ next.answer = "none" /\ next.steady = Installed(r.org)
  BY DEF Idle
<1>4. next \in Calls
  BY <1>1, <1>2, IdleIsACall DEF Calls, Idle, Installed
<1> HIDE DEF next
<1>5. /\ call' = [call EXCEPT ![c] = next]
      /\ UNCHANGED <<scenario, installations, nextId, installationCache, clientCache, clearing,
                     gone, old>>
  BY DEF Begin, next, github, caches
<1>6. call'[c] = next /\ Moves(c)
  BY <1>1, <1>4, <1>5 DEF TypeOK, Moves
<1>7. TypesKept(c)
  BY <1>1, <1>2, <1>3, <1>5, <1>6 DEF TypeOK, TypesKept
<1>8. \A o \in Orgs, n \in Nat : n # NoId /\ HeldByStep(c, o, n) => Held(o, n)
  BY <1>3, <1>5, <1>6 DEF HeldByStep, Held, Carried, At
<1>9. CachesForget' /\ CallForgets(c)'
  BY <1>1, <1>3, <1>5, <1>6 DEF CachesForget, CallForgets, At
<1>10. PagingInv(c)'
  <2>1. installations \in Seq(Installation)
    BY <1>1 DEF TypeOK
  <2>2. Installed(r.org) => \E i \in DOMAIN installations :
                               i > 0 /\ installations[i].account = r.org
    BY <2>1 DEF Installed
  <2> QED
    BY <1>3, <1>5, <1>6, <2>2 DEF PagingInv, At, Ahead, OrgOf
<1> QED
  BY <1>3, <1>6, <1>7, <1>8, <1>9, <1>10, StepKeepsInv

\* A call ends, with an answer or without.
LEMMA EndKeepsInv ==
    ASSUME IInv, NEW c \in Callers,
           UNCHANGED <<scenario, installations, nextId, installationCache, clientCache, clearing,
                       gone, old>>,
           \/ call' = [call EXCEPT ![c] = Idle]
           \/ call' = [call EXCEPT ![c] = Chain(c)]
           \/ call' = [call EXCEPT ![c] = NotFound(c)] /\ ~call[c].steady
    PROVE  IInv'
<1>1. TypeOK /\ CachesForget
  BY DEF IInv
<1>2. call'[c].pc = "idle" /\ ~call'[c].steady
  <2>1. CASE call' = [call EXCEPT ![c] = Idle]
    BY <1>1, <2>1 DEF TypeOK, Idle
  <2>2. CASE call' = [call EXCEPT ![c] = Chain(c)]
    BY <1>1, <2>2 DEF TypeOK, Idle, Chain
  <2>3. CASE call' = [call EXCEPT ![c] = NotFound(c)] /\ ~call[c].steady
    BY <1>1, <2>3 DEF TypeOK, Idle, NotFound
  <2> QED
    BY <2>1, <2>2, <2>3
<1>3. call' \in [Callers -> Calls]
  <2>1. Idle \in Calls /\ call[c] \in Calls
    BY <1>1, IdleIsACall DEF TypeOK
  <2>2. Chain(c) \in Calls /\ (~call[c].steady => NotFound(c) \in Calls)
    BY <2>1 DEF Chain, NotFound, Idle, Calls
  <2> QED
    BY <1>1, <2>1, <2>2 DEF TypeOK
<1>4. Moves(c)
  BY <1>1, <1>3 DEF TypeOK, Moves
<1>5. TypesKept(c)
  BY <1>1, <1>2 DEF TypeOK, TypesKept
<1>6. \A o \in Orgs, n \in Nat : n # NoId /\ HeldByStep(c, o, n) => Held(o, n)
  BY <1>2 DEF HeldByStep, Held, Carried, At
<1>7. CachesForget' /\ CallForgets(c)' /\ PagingInv(c)'
  BY <1>1, <1>2 DEF CachesForget, CallForgets, PagingInv, At
<1> QED
  BY <1>2, <1>4, <1>5, <1>6, <1>7, StepKeepsInv

\* Looking up a client or an installation.
LEMMA FindKeepsInv ==
    ASSUME IInv, NEW c \in Callers, FindClient(c) \/ FindInstallation(c)
    PROVE  IInv'
<1>1. /\ TypeOK /\ CachesForget /\ PagingInv(c) /\ NotFoundIsTrue
      /\ call \in [Callers -> Calls] /\ call[c] \in Calls
      /\ call[c].pc \in {"client", "installation"} /\ call[c].ask \in Requests
  BY DEF IInv, FindClient, FindInstallation, At, TypeOK
<1>2. UNCHANGED <<scenario, installations, nextId, installationCache, clientCache, clearing,
                  gone, old>>
  BY DEF FindClient, FindInstallation, github, caches
<1>3. OrgOf(c) \in Orgs /\ 0 \in 0 .. scenario.ids
  BY <1>1, GitHubAssumption DEF OrgOf, Requests, TypeOK
<1> DEFINE o == OrgOf(c)
<1>4. /\ call' \in [Callers -> Calls]
      /\ \A d \in Callers \ {c} : call'[d] = call[d]
      /\ call'[c].ask = call[c].ask /\ call'[c].from = call[c].from
      /\ call'[c].answer = call[c].answer /\ call'[c].steady = call[c].steady
      /\ \/ call'[c].pc \in {"installation", "list"} /\ call'[c].id = call[c].id
         \/ call'[c].pc = "query" /\ call'[c].id = clientCache[o] /\ clientCache[o] # NoId
         \/ /\ call'[c].pc = "build" /\ call'[c].id = installationCache[o]
            /\ installationCache[o] # NoId
            /\ <<"installation", o>> \in old => call'[c].since
  <2>1. CASE FindClient(c)
    <3>1. CASE clientCache[o] # NoId
      <4>1. clientCache[o] \in 0 .. scenario.ids
        BY <1>1, <1>3 DEF TypeOK
      <4>2. call' = [call EXCEPT ![c] = [call[c] EXCEPT !.pc = "query", !.id = clientCache[o]]]
        BY <2>1, <3>1 DEF FindClient, Go
      <4> QED
        BY <1>1, <3>1, <4>1, <4>2 DEF Calls
    <3>2. CASE ~(clientCache[o] # NoId)
      <4>1. call' = [call EXCEPT ![c] = [call[c] EXCEPT !.pc = "installation"]]
        BY <2>1, <3>2 DEF FindClient, Go
      <4> QED
        BY <1>1, <4>1 DEF Calls
    <3> QED
      BY <3>1, <3>2
  <2>2. CASE FindInstallation(c)
    <3>1. CASE installationCache[o] # NoId
      <4> DEFINE later == call[c].since \/ <<"installation", o>> \in old
      <4>1. installationCache[o] \in 0 .. scenario.ids /\ later \in BOOLEAN
        BY <1>1, <1>3 DEF TypeOK
      <4>2. call' = [call EXCEPT ![c] = [call[c] EXCEPT !.pc = "build",
                        !.id = installationCache[o], !.since = later]]
        BY <2>2, <3>1 DEF FindInstallation, Go
      <4>3. <<"installation", o>> \in old => later
        OBVIOUS
      <4> HIDE DEF later
      <4>4. /\ call' \in [Callers -> Calls] /\ call'[c].since = later
            /\ \A d \in Callers \ {c} : call'[d] = call[d]
            /\ call'[c].ask = call[c].ask /\ call'[c].from = call[c].from
            /\ call'[c].answer = call[c].answer /\ call'[c].steady = call[c].steady
            /\ call'[c].pc = "build" /\ call'[c].id = installationCache[o]
        BY <1>1, <4>1, <4>2 DEF Calls
      <4> QED
        BY <3>1, <4>3, <4>4
    <3>2. CASE ~(installationCache[o] # NoId)
      <4>1. call' = [call EXCEPT ![c] = [call[c] EXCEPT !.pc = "list"]]
        BY <2>2, <3>2 DEF FindInstallation, Go
      <4> QED
        BY <1>1, <4>1 DEF Calls
    <3> QED
      BY <3>1, <3>2
  <2> QED
    BY <2>1, <2>2
<1>5. Moves(c) /\ TypesKept(c)
  BY <1>1, <1>2, <1>4 DEF TypeOK, Moves, TypesKept
<1>6. \A p \in Orgs, n \in Nat : n # NoId /\ HeldByStep(c, p, n) => Held(p, n)
  BY <1>1, <1>2, <1>4 DEF HeldByStep, Held, Carried, OrgOf, At
<1>7. CachesForget' /\ CallForgets(c)'
  BY <1>1, <1>2, <1>3, <1>4 DEF CachesForget, CallForgets, At
<1>8. PagingInv(c)'
  BY <1>1, <1>2, <1>4 DEF PagingInv, At, Ahead, OrgOf
<1>9. call'[c].answer = "not_found" => ~call'[c].steady
  BY <1>1, <1>4 DEF NotFoundIsTrue
<1> QED
  BY <1>5, <1>6, <1>7, <1>8, <1>9, StepKeepsInv

\* A request for a page, and the next one.
LEMMA ListKeepsInv ==
    ASSUME IInv, NEW c \in Callers, ListPage(c)
    PROVE  IInv'
<1>1. /\ TypeOK /\ CachesForget /\ GoneInv /\ PagingInv(c) /\ NotFoundIsTrue
      /\ call \in [Callers -> Calls] /\ call[c] \in Calls
      /\ call[c].pc = "list" /\ call[c].ask \in Requests
      /\ installations \in Seq(Installation) /\ PageSize \in Nat /\ call[c].from \in Nat
  BY GitHubAssumption DEF IInv, ListPage, At, TypeOK, Calls
<1>2. UNCHANGED <<scenario, installations, nextId, installationCache, clientCache, clearing,
                  gone, old>>
  BY DEF ListPage, github, caches
<1> DEFINE page == Page(call[c].from)
           more == MorePages(call[c].from)
<1>3. /\ page \in Seq(Installation) /\ more \in BOOLEAN
      /\ \A i \in DOMAIN page :
            call[c].from + i \in DOMAIN installations /\ page[i] = installations[call[c].from + i]
      /\ \A j \in DOMAIN installations :
            j > call[c].from /\ j <= call[c].from + PageSize =>
                j - call[c].from \in DOMAIN page /\ page[j - call[c].from] = installations[j]
  <2>1. more \in BOOLEAN
    BY DEF MorePages
  <2> QED
    BY <1>1, <2>1, PageIsASlice DEF Page
<1>4. call' = [call EXCEPT ![c] = [call[c] EXCEPT !.pc = "page", !.page = page, !.more = more]]
  BY DEF ListPage, Go
<1>5. more <=> Len(installations) > call[c].from + PageSize
  BY DEF MorePages
<1> HIDE DEF page, more
<1>6. /\ call' \in [Callers -> Calls]
      /\ \A d \in Callers \ {c} : call'[d] = call[d]
      /\ call'[c].ask = call[c].ask /\ call'[c].from = call[c].from
      /\ call'[c].answer = call[c].answer /\ call'[c].steady = call[c].steady
      /\ call'[c].since = call[c].since /\ call'[c].id = call[c].id
      /\ call'[c].pc = "page" /\ call'[c].page = page /\ call'[c].more = more
  BY <1>1, <1>3, <1>4 DEF Calls
<1>7. Moves(c) /\ TypesKept(c)
  BY <1>1, <1>2, <1>6 DEF TypeOK, Moves, TypesKept
<1>8. \A o \in Orgs, n \in Nat : OnPage(c, o, n)' => Listed(o, n)
  BY <1>3, <1>6 DEF OnPage, Listed
<1>9. \A p \in Orgs, n \in Nat : n # NoId /\ HeldByStep(c, p, n) => Held(p, n)
  BY <1>1, <1>2, <1>6, <1>8 DEF HeldByStep, Held, Carried, OrgOf, At
<1>10. CachesForget' /\ CallForgets(c)'
  <2>1. gone \subseteq Nat
    BY <1>1, GitHubAssumption DEF TypeOK
  <2> QED
    BY <1>1, <1>2, <1>6, <1>8, <2>1 DEF CachesForget, CallForgets, GoneInv, At
<1>11. PagingInv(c)'
  <2>1. ASSUME call[c].steady
        PROVE  \/ \E i \in DOMAIN page : page[i].account = OrgOf(c)
               \/ more /\ Ahead(c, call[c].from + PageSize)
    <3>1. PICK j \in DOMAIN installations :
                  j > call[c].from /\ installations[j].account = OrgOf(c)
      BY <1>1, <2>1 DEF PagingInv, Ahead
    <3>2. CASE j <= call[c].from + PageSize
      BY <1>3, <3>1, <3>2
    <3>3. CASE ~(j <= call[c].from + PageSize)
      <4>1. j \in Nat /\ j <= Len(installations) /\ j > call[c].from + PageSize
        BY <1>1, <3>3
      <4>2. Len(installations) > call[c].from + PageSize
        BY <1>1, <4>1
      <4> QED
        BY <1>5, <3>1, <4>1, <4>2 DEF Ahead
    <3> QED
      BY <3>2, <3>3
  <2> QED
    BY <1>1, <1>2, <1>6, <2>1 DEF PagingInv, At, Ahead, OrgOf
<1>12. call'[c].answer = "not_found" => ~call'[c].steady
  BY <1>1, <1>6 DEF NotFoundIsTrue
<1> QED
  BY <1>7, <1>9, <1>10, <1>11, <1>12, StepKeepsInv

LEMMA NextPageKeepsInv ==
    ASSUME IInv, NEW c \in Callers, NextPage(c)
    PROVE  IInv'
<1>1. /\ TypeOK /\ CachesForget /\ PagingInv(c) /\ NotFoundIsTrue
      /\ call \in [Callers -> Calls] /\ call[c] \in Calls
      /\ call[c].pc = "page" /\ call[c].page = <<>> /\ call[c].ask \in Requests
      /\ PageSize \in Nat /\ call[c].from \in Nat
  BY GitHubAssumption DEF IInv, NextPage, At, TypeOK, Calls
<1>2. UNCHANGED <<scenario, installations, nextId, installationCache, clientCache, clearing,
                  gone, old>>
  BY DEF NextPage, github, caches
<1>3. call[c].steady => call[c].more /\ Ahead(c, call[c].from + PageSize)
  BY <1>1 DEF PagingInv, At
<1>4. CASE ~call[c].more
  <2>1. call' = [call EXCEPT ![c] = NotFound(c)]
    BY <1>4 DEF NextPage, Go
  <2> QED
    BY <1>2, <1>3, <1>4, <2>1, EndKeepsInv
<1>5. CASE call[c].more
  <2>1. call' = [call EXCEPT ![c] = [call[c] EXCEPT !.pc = "list", !.from = call[c].from + PageSize]]
    BY <1>5 DEF NextPage, Go
  <2>2. call[c].from + PageSize \in Nat
    BY <1>1
  <2>3. /\ call' \in [Callers -> Calls]
        /\ \A d \in Callers \ {c} : call'[d] = call[d]
        /\ call'[c].ask = call[c].ask /\ call'[c].from = call[c].from + PageSize
        /\ call'[c].answer = call[c].answer /\ call'[c].steady = call[c].steady
        /\ call'[c].id = call[c].id /\ call'[c].pc = "list"
    BY <1>1, <2>1, <2>2 DEF Calls
  <2>4. Moves(c) /\ TypesKept(c)
    BY <1>1, <1>2, <2>3 DEF TypeOK, Moves, TypesKept
  <2>5. \A p \in Orgs, n \in Nat : n # NoId /\ HeldByStep(c, p, n) => Held(p, n)
    BY <1>1, <1>2, <2>3 DEF HeldByStep, Held, Carried, OrgOf, At
  <2>6. CachesForget' /\ CallForgets(c)'
    BY <1>1, <1>2, <2>3 DEF CachesForget, CallForgets, At
  <2>7. PagingInv(c)'
    BY <1>2, <1>3, <2>3 DEF PagingInv, At, Ahead, OrgOf
  <2>8. call'[c].answer = "not_found" => ~call'[c].steady
    BY <1>1, <2>3 DEF NotFoundIsTrue
  <2> QED
    BY <2>4, <2>5, <2>6, <2>7, <2>8, StepKeepsInv
<1> QED
  BY <1>4, <1>5

\* An entry of a page is cached, whoever's it is.
LEMMA CacheInstallationKeepsInv ==
    ASSUME IInv, NEW c \in Callers, CacheInstallation(c)
    PROVE  IInv'
<1>1. /\ TypeOK /\ CachesForget /\ PagingInv(c) /\ CallForgets(c) /\ NotFoundIsTrue
      /\ call \in [Callers -> Calls] /\ call[c] \in Calls
      /\ call[c].pc = "page" /\ call[c].page # <<>> /\ call[c].ask \in Requests
      /\ call[c].page \in Seq(Installation)
  BY DEF IInv, CacheInstallation, At, TypeOK, Calls
<1> DEFINE inst == Head(call[c].page)
           rest == Tail(call[c].page)
<1>2. /\ inst \in Installation /\ 1 \in DOMAIN call[c].page /\ call[c].page[1] = inst
      /\ rest \in Seq(Installation)
      /\ \A i \in DOMAIN rest : i + 1 \in DOMAIN call[c].page /\ rest[i] = call[c].page[i + 1]
      /\ \A i \in DOMAIN call[c].page : i # 1 => i - 1 \in DOMAIN rest
                                              /\ rest[i - 1] = call[c].page[i]
  BY <1>1
<1>3. /\ inst.account \in Orgs /\ inst.id \in Nat /\ inst.id \in 0 .. scenario.ids
      /\ inst.id # NoId
      /\ OnPage(c, inst.account, inst.id)
  <2>1. scenario.ids \in Nat
    BY <1>1, GitHubAssumption DEF TypeOK
  <2>2. inst.account \in Orgs /\ inst.id \in 1 .. scenario.ids
    BY <1>2 DEF Installation
  <2>3. \A n \in 1 .. scenario.ids : n \in Nat /\ n \in 0 .. scenario.ids /\ n # NoId
    BY <2>1 DEF NoId
  <2>4. OnPage(c, inst.account, inst.id)
    BY <1>2 DEF OnPage
  <2> QED
    BY <2>2, <2>3, <2>4
<1>4. /\ UNCHANGED <<scenario, installations, nextId, clientCache, clearing, gone>>
      /\ installationCache' = [installationCache EXCEPT ![inst.account] = inst.id]
      /\ old' = Mark("installation", inst.account, call[c].since)
      /\ \/ /\ inst.account = OrgOf(c)
            /\ call' = [call EXCEPT ![c] = [call[c] EXCEPT !.pc = "build", !.id = inst.id,
                            !.from = 0, !.page = <<>>, !.more = FALSE]]
         \/ /\ inst.account # OrgOf(c)
            /\ call' = [call EXCEPT ![c] = [call[c] EXCEPT !.page = rest]]
  BY DEF CacheInstallation, Go, github
<1> HIDE DEF inst, rest
<1>5. /\ call' \in [Callers -> Calls]
      /\ \A d \in Callers \ {c} : call'[d] = call[d]
      /\ call'[c].ask = call[c].ask /\ call'[c].since = call[c].since
      /\ call'[c].answer = call[c].answer /\ call'[c].steady = call[c].steady
      /\ \/ /\ inst.account = OrgOf(c)
            /\ call'[c].pc = "build" /\ call'[c].id = inst.id
         \/ /\ inst.account # OrgOf(c)
            /\ call'[c].pc = "page" /\ call'[c].id = call[c].id /\ call'[c].page = rest
            /\ call'[c].from = call[c].from /\ call'[c].more = call[c].more
  <2>1. CASE /\ inst.account = OrgOf(c)
             /\ call' = [call EXCEPT ![c] = [call[c] EXCEPT !.pc = "build", !.id = inst.id,
                             !.from = 0, !.page = <<>>, !.more = FALSE]]
    <3> DEFINE next == [call[c] EXCEPT !.pc = "build", !.id = inst.id,
                                       !.from = 0, !.page = <<>>, !.more = FALSE]
    <3>1. <<>> \in Seq(Installation)
      OBVIOUS
    <3>2. next \in Calls
      BY <1>1, <1>3, <3>1 DEF Calls
    <3>3. /\ next.ask = call[c].ask /\ next.since = call[c].since
          /\ next.answer = call[c].answer /\ next.steady = call[c].steady
          /\ next.pc = "build" /\ next.id = inst.id
      BY <1>1 DEF Calls
    <3> HIDE DEF next
    <3>4. call' = [call EXCEPT ![c] = next]
      BY <2>1 DEF next
    <3> QED
      BY <1>1, <2>1, <3>2, <3>3, <3>4
  <2>2. CASE /\ inst.account # OrgOf(c)
             /\ call' = [call EXCEPT ![c] = [call[c] EXCEPT !.page = rest]]
    BY <1>1, <1>2, <2>2 DEF Calls
  <2> QED
    BY <1>4, <2>1, <2>2
<1>6. /\ installationCache'[inst.account] = inst.id
      /\ \A o \in Orgs : o # inst.account => installationCache'[o] = installationCache[o]
      /\ installationCache' \in [Orgs -> 0 .. scenario.ids]
  BY <1>1, <1>3, <1>4 DEF TypeOK
<1>7. Moves(c) /\ TypesKept(c)
  BY <1>1, <1>3, <1>4, <1>5, <1>6 DEF TypeOK, Moves, TypesKept, Mark
<1>8. \A p \in Orgs, n \in Nat : n # NoId /\ HeldByStep(c, p, n) => Held(p, n)
  <2> SUFFICES ASSUME NEW p \in Orgs, NEW n \in Nat, n # NoId, HeldByStep(c, p, n)
               PROVE  Held(p, n)
    OBVIOUS
  <2>1. Held(inst.account, inst.id)
    BY <1>1, <1>3 DEF Held, At
  <2>2. CASE installationCache'[p] = n
    BY <1>6, <2>1, <2>2 DEF Held
  <2>3. CASE clientCache'[p] = n
    BY <1>4, <2>3 DEF Held
  <2>4. CASE Carried(c, p, n)'
    BY <1>1, <1>5, <2>1, <2>4 DEF Carried, Held, OrgOf, At
  <2>5. CASE (At(c, "page") /\ OnPage(c, p, n))'
    <3>1. OnPage(c, p, n)
      BY <1>2, <1>5, <2>5 DEF OnPage, At
    <3> QED
      BY <1>1, <3>1 DEF Held, At
  <2> QED
    BY <2>2, <2>3, <2>4, <2>5 DEF HeldByStep
<1>9. ~call[c].since => inst.id \notin gone
  BY <1>1, <1>3 DEF CallForgets, At
<1>10. CachesForget'
  <2>1. \A o \in Orgs : <<"client", o>> \in old' <=> <<"client", o>> \in old
    BY <1>4 DEF Mark
  <2>2. ASSUME NEW o \in Orgs, <<"installation", o>> \notin old'
        PROVE  installationCache'[o] \notin gone
    <3>1. CASE o = inst.account
      <4>1. ~call[c].since
        BY <1>4, <2>2, <3>1 DEF Mark
      <4> QED
        BY <1>6, <1>9, <3>1, <4>1
    <3>2. CASE o # inst.account
      <4>1. <<"installation", o>> \notin old
        BY <1>4, <2>2, <3>2 DEF Mark
      <4> QED
        BY <1>1, <1>6, <3>2, <4>1 DEF CachesForget
    <3> QED
      BY <3>1, <3>2
  <2> QED
    BY <1>1, <1>4, <2>1, <2>2 DEF CachesForget
<1>11. CallForgets(c)'
  <2>1. \A o \in Orgs, n \in gone : (At(c, "page") /\ OnPage(c, o, n))' => OnPage(c, o, n)
    BY <1>2, <1>5 DEF OnPage, At
  <2> QED
    BY <1>1, <1>4, <1>5, <1>9, <2>1 DEF CallForgets, At
<1>12. PagingInv(c)'
  <2>1. CASE inst.account = OrgOf(c)
    BY <1>3, <1>5, <2>1 DEF PagingInv, At
  <2>2. CASE inst.account # OrgOf(c)
    <3>1. ASSUME NEW i \in DOMAIN call[c].page, call[c].page[i].account = OrgOf(c)
          PROVE  \E j \in DOMAIN rest : rest[j].account = OrgOf(c)
      <4>1. i # 1
        BY <1>2, <2>2, <3>1
      <4> QED
        BY <1>2, <3>1, <4>1
    <3> QED
      BY <1>1, <1>4, <1>5, <2>2, <3>1 DEF PagingInv, At, Ahead, OrgOf
  <2> QED
    BY <2>1, <2>2
<1>13. call'[c].answer = "not_found" => ~call'[c].steady
  BY <1>1, <1>5 DEF NotFoundIsTrue
<1> QED
  BY <1>7, <1>8, <1>10, <1>11, <1>12, <1>13, StepKeepsInv

\* A client is cached for the installation the call carries.
LEMMA CacheClientKeepsInv ==
    ASSUME IInv, NEW c \in Callers, CacheClient(c)
    PROVE  IInv'
<1>1. /\ TypeOK /\ CachesForget /\ PagingInv(c) /\ CallForgets(c) /\ NotFoundIsTrue
      /\ call \in [Callers -> Calls] /\ call[c] \in Calls
      /\ call[c].pc = "build" /\ call[c].ask \in Requests
      /\ call[c].id # NoId /\ call[c].id \in 0 .. scenario.ids
  BY DEF IInv, CacheClient, At, TypeOK, Calls, PagingInv
<1>2. OrgOf(c) \in Orgs
  BY <1>1 DEF OrgOf, Requests
<1>3. /\ UNCHANGED <<scenario, installations, nextId, installationCache, clearing, gone>>
      /\ clientCache' = [clientCache EXCEPT ![OrgOf(c)] = call[c].id]
      /\ old' = Mark("client", OrgOf(c), call[c].since)
      /\ call' = [call EXCEPT ![c] = [call[c] EXCEPT !.pc = "query"]]
  BY DEF CacheClient, Go, github
<1>4. /\ call' \in [Callers -> Calls]
      /\ \A d \in Callers \ {c} : call'[d] = call[d]
      /\ call'[c].ask = call[c].ask /\ call'[c].id = call[c].id
      /\ call'[c].answer = call[c].answer /\ call'[c].steady = call[c].steady
      /\ call'[c].pc = "query"
  BY <1>1, <1>3 DEF Calls
<1>5. /\ clientCache'[OrgOf(c)] = call[c].id
      /\ \A o \in Orgs : o # OrgOf(c) => clientCache'[o] = clientCache[o]
      /\ clientCache' \in [Orgs -> 0 .. scenario.ids]
  BY <1>1, <1>2, <1>3 DEF TypeOK
<1>6. Moves(c) /\ TypesKept(c)
  BY <1>1, <1>2, <1>3, <1>4, <1>5 DEF TypeOK, Moves, TypesKept, Mark
<1>7. Held(OrgOf(c), call[c].id)
  BY <1>1 DEF Held, Carried, At
<1>8. \A p \in Orgs, n \in Nat : n # NoId /\ HeldByStep(c, p, n) => Held(p, n)
  <2> SUFFICES ASSUME NEW p \in Orgs, NEW n \in Nat, n # NoId, HeldByStep(c, p, n)
               PROVE  Held(p, n)
    OBVIOUS
  <2>1. CASE installationCache'[p] = n
    BY <1>3, <2>1 DEF Held
  <2>2. CASE clientCache'[p] = n
    BY <1>5, <1>7, <2>2 DEF Held
  <2>3. CASE Carried(c, p, n)'
    BY <1>4, <1>7, <2>3 DEF Carried, OrgOf
  <2> QED
    BY <1>4, <2>1, <2>2, <2>3 DEF HeldByStep, At
<1>9. CachesForget'
  <2>1. \A o \in Orgs : <<"installation", o>> \in old' <=> <<"installation", o>> \in old
    BY <1>3 DEF Mark
  <2>2. ASSUME ~clearing, NEW o \in Orgs, <<"client", o>> \notin old'
        PROVE  clientCache'[o] \notin gone
    <3>1. CASE o = OrgOf(c)
      <4>1. ~call[c].since
        BY <1>3, <2>2, <3>1 DEF Mark
      <4> QED
        BY <1>1, <1>5, <3>1, <4>1 DEF CallForgets, At
    <3>2. CASE o # OrgOf(c)
      <4>1. <<"client", o>> \notin old
        BY <1>3, <2>2, <3>2 DEF Mark
      <4> QED
        BY <1>1, <1>5, <2>2, <3>2, <4>1 DEF CachesForget
    <3> QED
      BY <3>1, <3>2
  <2> QED
    BY <1>1, <1>3, <2>1, <2>2 DEF CachesForget
<1>10. CallForgets(c)' /\ PagingInv(c)'
  BY <1>4 DEF CallForgets, PagingInv, At
<1>11. call'[c].answer = "not_found" => ~call'[c].steady
  BY <1>1, <1>4 DEF NotFoundIsTrue
<1> QED
  BY <1>6, <1>8, <1>9, <1>10, <1>11, StepKeepsInv

-----------------------------------------------------------------------------
(***************************************************************************)
(* GitHub's list changes, and ClearCache.                                  *)
(***************************************************************************)
LEMMA InstallKeepsInv ==
    ASSUME IInv, NEW o \in Orgs, Install(o)
    PROVE  IInv'
<1>1. /\ TypeOK /\ IdInv /\ GoneInv /\ CachesForget /\ NotFoundIsTrue
      /\ scenario.ids \in Nat /\ nextId \in Nat \ {0}
      /\ installations \in Seq(Installation) /\ gone \subseteq Nat
  BY GitHubAssumption DEF IInv, TypeOK
<1>2. /\ nextId' = nextId + 1 /\ nextId <= scenario.ids
      /\ installations' = Append(installations, [account |-> o, id |-> nextId])
      /\ UNCHANGED <<scenario, installationCache, clientCache, clearing, call, gone, old>>
  BY DEF Install, caches
<1>3. [account |-> o, id |-> nextId] \in Installation
  BY <1>1, <1>2 DEF Installation
<1>4. /\ installations' \in Seq(Installation)
      /\ DOMAIN installations \subseteq DOMAIN installations'
      /\ \A i \in DOMAIN installations : installations'[i] = installations[i]
      /\ \A i \in DOMAIN installations' :
            i \in DOMAIN installations \/ installations'[i] = [account |-> o, id |-> nextId]
  BY <1>1, <1>2, <1>3
<1>5. Installation' = Installation /\ Calls' = Calls
  BY <1>2 DEF Installation, Calls
<1>6. TypeOK'
  <2>1. nextId' \in 1 .. scenario.ids + 1
    BY <1>1, <1>2
  <2> QED
    BY <1>1, <1>2, <1>4, <1>5, <2>1 DEF TypeOK, At
<1>7. \A p \in Orgs, n \in Nat : Listed(p, n)' => Listed(p, n) \/ (p = o /\ n = nextId)
  BY <1>4 DEF Listed
<1>8. \A p \in Orgs, n \in Nat : Held(p, n)' => Held(p, n) \/ (p = o /\ n = nextId)
  BY <1>2, <1>7 DEF Held, Carried, OnPage, OrgOf, At
<1>9. IdInv'
  <2>1. \A p \in Orgs : ~Held(p, nextId)
    BY <1>1 DEF IdInv
  <2>2. ASSUME NEW p \in Orgs, NEW n \in Nat, Held(p, n)'
        PROVE  n < nextId'
    <3>1. n < nextId \/ n = nextId
      BY <1>1, <1>8, <2>2 DEF IdInv
    <3> QED
      BY <1>1, <1>2, <3>1
  <2>3. ASSUME NEW p \in Orgs, NEW q \in Orgs, NEW n \in Nat, n # NoId, Held(p, n)', Held(q, n)'
        PROVE  p = q
    BY <1>1, <1>8, <2>1, <2>3 DEF IdInv
  <2> QED
    BY <2>2, <2>3 DEF IdInv
<1>10. GoneInv'
  <2>1. \A n \in gone : n # NoId /\ n < nextId /\ n < nextId' /\ n # nextId
    BY <1>1, <1>2 DEF GoneInv
  <2> QED
    BY <1>1, <1>2, <1>7, <2>1 DEF GoneInv
<1>11. CachesForget' /\ NotFoundIsTrue'
  BY <1>1, <1>2 DEF CachesForget, NotFoundIsTrue
<1>12. ASSUME NEW c \in Callers
       PROVE  PagingInv(c)' /\ CallForgets(c)'
  <2>1. PagingInv(c) /\ CallForgets(c)
    BY DEF IInv
  <2>2. Ahead(c, call[c].from) => Ahead(c, call[c].from)'
    BY <1>2, <1>4 DEF Ahead, OrgOf
  <2>3. Ahead(c, call[c].from + PageSize) => Ahead(c, call[c].from + PageSize)'
    BY <1>2, <1>4 DEF Ahead, OrgOf
  <2> QED
    BY <1>2, <2>1, <2>2, <2>3 DEF PagingInv, CallForgets, OnPage, At, OrgOf
<1> QED
  BY <1>6, <1>9, <1>10, <1>11, <1>12 DEF IInv

LEMMA UninstallKeepsInv ==
    ASSUME IInv, NEW o \in Orgs, Uninstall(o)
    PROVE  IInv'
<1>1. /\ TypeOK /\ IdInv /\ GoneInv /\ CachesForget
      /\ scenario.ids \in Nat /\ nextId \in Nat \ {0} /\ gone \subseteq Nat
      /\ installations \in Seq(Installation) /\ call \in [Callers -> Calls]
  BY GitHubAssumption DEF IInv, TypeOK
<1>2. /\ UNCHANGED <<scenario, nextId, installationCache, clientCache, clearing, gone, old>>
      /\ call' = [c \in Callers |-> [call[c] EXCEPT !.steady = FALSE]]
  BY DEF Uninstall, caches
<1>3. PICK k \in DOMAIN installations : installations' = RemoveAt(installations, k)
  BY DEF Uninstall
<1>4. /\ installations' \in Seq(Installation)
      /\ \A i \in DOMAIN installations' :
            \E j \in DOMAIN installations : installations'[i] = installations[j]
  BY <1>1, <1>3, RemovedFrom
<1>5. ASSUME NEW c \in Callers
      PROVE  /\ call'[c] \in Calls
             /\ call'[c].pc = call[c].pc /\ call'[c].ask = call[c].ask
             /\ call'[c].from = call[c].from /\ call'[c].page = call[c].page
             /\ call'[c].id = call[c].id /\ call'[c].since = call[c].since
             /\ ~call'[c].steady
  <2>1. call[c] \in Calls /\ call'[c] = [call[c] EXCEPT !.steady = FALSE]
    BY <1>1, <1>2
  <2> QED
    BY <2>1 DEF Calls
<1>6. Installation' = Installation /\ Calls' = Calls /\ call' \in [Callers -> Calls]
  BY <1>2, <1>5 DEF Installation, Calls
<1>7. TypeOK'
  BY <1>1, <1>2, <1>4, <1>5, <1>6 DEF TypeOK, At
<1>8. \A p \in Orgs, n \in Nat : Listed(p, n)' => Listed(p, n)
  BY <1>4 DEF Listed
<1>9. \A p \in Orgs, n \in Nat : Held(p, n)' => Held(p, n)
  <2>1. ASSUME NEW p \in Orgs, NEW n \in Nat, NEW c \in Callers
        PROVE  /\ Carried(c, p, n)' => Carried(c, p, n)
               /\ (At(c, "page") /\ OnPage(c, p, n))' => At(c, "page") /\ OnPage(c, p, n)
    BY <1>5 DEF Carried, OnPage, OrgOf, At
  <2> QED
    BY <1>2, <1>8, <2>1 DEF Held
<1>10. IdInv'
  BY <1>1, <1>2, <1>9, NoNewIds
<1>11. GoneInv' /\ CachesForget' /\ NotFoundIsTrue'
  BY <1>1, <1>2, <1>5, <1>8 DEF GoneInv, CachesForget, NotFoundIsTrue
<1>12. ASSUME NEW c \in Callers
       PROVE  PagingInv(c)' /\ CallForgets(c)'
  <2>1. PagingInv(c) /\ CallForgets(c)
    BY DEF IInv
  <2> QED
    BY <1>2, <1>5, <2>1 DEF PagingInv, CallForgets, OnPage, At
<1> QED
  BY <1>7, <1>10, <1>11, <1>12 DEF IInv

\* ClearCache begins: from now on what is gone counts as such.
LEMMA ClearFirstKeepsInv ==
    ASSUME IInv, ClearFirst
    PROVE  IInv'
<1>1. /\ TypeOK /\ IdInv /\ NotFoundIsTrue
      /\ scenario.ids \in Nat /\ nextId \in Nat \ {0} /\ nextId <= scenario.ids + 1
      /\ installations \in Seq(Installation) /\ call \in [Callers -> Calls]
  BY GitHubAssumption DEF IInv, TypeOK
<1>2. /\ UNCHANGED <<scenario, installations, nextId, clientCache>>
      /\ installationCache' = [o \in Orgs |-> NoId]
      /\ clearing' = TRUE /\ gone' = Removed /\ old' = {}
      /\ call' = [c \in Callers |-> [call[c] EXCEPT !.since = ~At(c, "idle")]]
  BY DEF ClearFirst, Clear, ClearOrder, Empty, github
<1>3. ASSUME NEW c \in Callers
      PROVE  /\ call'[c] \in Calls
             /\ call'[c].pc = call[c].pc /\ call'[c].ask = call[c].ask
             /\ call'[c].from = call[c].from /\ call'[c].page = call[c].page
             /\ call'[c].id = call[c].id /\ call'[c].more = call[c].more
             /\ call'[c].steady = call[c].steady /\ call'[c].answer = call[c].answer
             /\ call'[c].since \/ call[c].pc = "idle"
  <2> DEFINE b == ~At(c, "idle")
  <2>1. b \in BOOLEAN /\ (b \/ call[c].pc = "idle")
    BY DEF At
  <2>2. call[c] \in Calls /\ call'[c] = [call[c] EXCEPT !.since = b]
    BY <1>1, <1>2
  <2> HIDE DEF b
  <2>3. /\ call'[c] \in Calls /\ call'[c].since = b
        /\ call'[c].pc = call[c].pc /\ call'[c].ask = call[c].ask
        /\ call'[c].from = call[c].from /\ call'[c].page = call[c].page
        /\ call'[c].id = call[c].id /\ call'[c].more = call[c].more
        /\ call'[c].steady = call[c].steady /\ call'[c].answer = call[c].answer
    BY <2>1, <2>2 DEF Calls
  <2> QED
    BY <2>1, <2>3
<1>4. Installation' = Installation /\ Calls' = Calls /\ call' \in [Callers -> Calls]
  BY <1>2, <1>3 DEF Installation, Calls
<1>5. TypeOK'
  <2>1. Removed \subseteq 1 .. scenario.ids
    BY <1>1 DEF Removed
  <2>2. installationCache' \in [Orgs -> 0 .. scenario.ids]
    BY <1>1, <1>2 DEF NoId
  <2> QED
    <3>1. \A c \in Callers : /\ (~At(c, "idle"))' => call'[c].ask \in Requests
                             /\ At(c, "query")' => call'[c].id # NoId
      BY <1>1, <1>3 DEF TypeOK, At
    <3>2. clearing' \in BOOLEAN /\ old' \subseteq {"installation", "client"} \X Orgs
      BY <1>2
    <3> QED
      BY <1>1, <1>2, <1>4, <2>1, <2>2, <3>1, <3>2 DEF TypeOK
<1>6. \A p \in Orgs, n \in Nat : n # NoId /\ Held(p, n)' => Held(p, n)
  <2>1. ASSUME NEW p \in Orgs, NEW n \in Nat, NEW c \in Callers
        PROVE  /\ Carried(c, p, n)' => Carried(c, p, n)
               /\ (At(c, "page") /\ OnPage(c, p, n))' => At(c, "page") /\ OnPage(c, p, n)
    BY <1>3 DEF Carried, OnPage, OrgOf, At
  <2>2. \A p \in Orgs, n \in Nat : Listed(p, n)' => Listed(p, n)
    BY <1>2 DEF Listed
  <2> QED
    BY <1>2, <2>1, <2>2 DEF Held
<1>7. IdInv'
  BY <1>1, <1>2, <1>6, NoNewIds
<1>8. GoneInv'
  <2>1. ASSUME NEW n \in Removed
        PROVE  n # NoId /\ n < nextId /\ \A o \in Orgs : ~Listed(o, n)
    BY <1>1, <2>1 DEF Removed, Listed, NoId
  <2> QED
    BY <1>2, <2>1 DEF GoneInv, Listed
<1>9. CachesForget' /\ NotFoundIsTrue'
  <2>1. NoId \notin Removed
    BY <1>1 DEF Removed, NoId
  <2> QED
    BY <1>1, <1>2, <1>3, <2>1 DEF CachesForget, NotFoundIsTrue
<1>10. ASSUME NEW c \in Callers
       PROVE  PagingInv(c)' /\ CallForgets(c)'
  <2>1. PagingInv(c)
    BY DEF IInv
  <2> QED
    BY <1>2, <1>3, <2>1 DEF PagingInv, CallForgets, Ahead, OrgOf, At
<1> QED
  BY <1>5, <1>7, <1>8, <1>9, <1>10 DEF IInv

\* ... and the clients are gone too.
LEMMA ClearSecondKeepsInv ==
    ASSUME IInv, ClearSecond
    PROVE  IInv'
<1>1. /\ TypeOK /\ IdInv /\ GoneInv /\ CachesForget /\ NotFoundIsTrue
      /\ scenario.ids \in Nat /\ nextId \in Nat \ {0}
  BY GitHubAssumption DEF IInv, TypeOK
<1>2. /\ UNCHANGED <<scenario, installations, nextId, installationCache, call, gone>>
      /\ clientCache' = [o \in Orgs |-> NoId]
      /\ clearing' = FALSE
      /\ old' = {k \in old : k[1] # "client"}
  BY DEF ClearSecond, Clear, ClearOrder, Empty, github
<1>3. TypeOK'
  <2>1. clientCache' \in [Orgs -> 0 .. scenario.ids] /\ old' \subseteq old
    BY <1>1, <1>2 DEF NoId
  <2>2. Installation' = Installation /\ Calls' = Calls
    BY <1>2 DEF Installation, Calls
  <2> QED
    BY <1>1, <1>2, <2>1, <2>2 DEF TypeOK, At
<1>4. \A p \in Orgs, n \in Nat : n # NoId /\ Held(p, n)' => Held(p, n)
  BY <1>2 DEF Held, Listed, Carried, OnPage, OrgOf, At
<1>5. IdInv'
  BY <1>1, <1>2, <1>4, NoNewIds
<1>6. GoneInv' /\ NotFoundIsTrue'
  BY <1>1, <1>2 DEF GoneInv, Listed, NotFoundIsTrue
<1>7. CachesForget'
  <2>1. \A o \in Orgs : <<"installation", o>> \in old => <<"installation", o>> \in old'
    BY <1>2
  <2>2. NoId \notin gone
    BY <1>1 DEF GoneInv
  <2> QED
    BY <1>1, <1>2, <2>1, <2>2 DEF CachesForget
<1>8. ASSUME NEW c \in Callers
      PROVE  PagingInv(c)' /\ CallForgets(c)'
  <2>1. PagingInv(c) /\ CallForgets(c)
    BY DEF IInv
  <2> QED
    BY <1>2, <2>1 DEF PagingInv, CallForgets, Ahead, OnPage, OrgOf, At
<1> QED
  BY <1>3, <1>5, <1>6, <1>7, <1>8 DEF IInv

-----------------------------------------------------------------------------
(***************************************************************************)
(* The theorems.                                                           *)
(***************************************************************************)
LEMMA InitHasInv == Init => IInv
<1> SUFFICES ASSUME Init
             PROVE  IInv
  OBVIOUS
<1>1. scenario \in Scenarios /\ scenario.ids \in Nat
  BY GitHubAssumption DEF Init
<1>2. Idle \in Calls
  <2>1. <<>> \in Seq(Installation) /\ NoId \in 0 .. scenario.ids
    BY <1>1 DEF NoId
  <2> QED
    BY <2>1 DEF Idle, Calls
<1>3. /\ call = [c \in Callers |-> Idle] /\ installations = <<>> /\ nextId = 1
      /\ installationCache = [o \in Orgs |-> NoId] /\ clientCache = [o \in Orgs |-> NoId]
      /\ clearing = FALSE /\ gone = {} /\ old = {}
  BY DEF Init, Empty
<1>4. \A c \in Callers : call[c].pc = "idle" /\ ~call[c].steady
  BY <1>3 DEF Idle
<1>5. TypeOK
  <2>1. nextId \in 1 .. scenario.ids + 1 /\ NoId \in 0 .. scenario.ids
    BY <1>1, <1>3 DEF NoId
  <2> QED
    <3>1. /\ installations \in Seq(Installation) /\ call \in [Callers -> Calls]
          /\ installationCache \in [Orgs -> 0 .. scenario.ids]
          /\ clientCache \in [Orgs -> 0 .. scenario.ids]
      BY <1>2, <1>3, <2>1
    <3>2. \A c \in Callers : At(c, "idle") /\ ~At(c, "query")
      BY <1>4 DEF At
    <3> QED
      BY <1>1, <1>3, <2>1, <3>1, <3>2 DEF TypeOK
<1>6. \A o \in Orgs, n \in Nat : Held(o, n) => n = NoId
  BY <1>3, <1>4 DEF Held, Listed, Carried, At
<1>7. IdInv
  BY <1>3, <1>6 DEF IdInv, NoId
<1>8. GoneInv /\ CachesForget /\ NotFoundIsTrue
  BY <1>3, <1>4 DEF GoneInv, CachesForget, NotFoundIsTrue
<1>9. \A c \in Callers : PagingInv(c) /\ CallForgets(c)
  BY <1>4 DEF PagingInv, CallForgets, At
<1> QED
  BY <1>5, <1>7, <1>8, <1>9 DEF IInv

LEMMA NextKeepsInv == IInv /\ [Next]_vars => IInv'
<1> SUFFICES ASSUME IInv, [Next]_vars
             PROVE  IInv'
  OBVIOUS
<1>1. CASE UNCHANGED vars
  <2>1. UNCHANGED <<scenario, installations, nextId, installationCache, clientCache, clearing,
                    call, gone, old>>
    BY <1>1 DEF vars
  <2>2. Installation' = Installation /\ Calls' = Calls
    BY <2>1 DEF Installation, Calls
  <2>3. TypeOK' /\ GoneInv' /\ CachesForget' /\ NotFoundIsTrue'
    BY <2>1, <2>2 DEF IInv, TypeOK, GoneInv, Listed, CachesForget, NotFoundIsTrue, At
  <2>4. IdInv'
    BY <2>1 DEF IInv, IdInv, Held, Listed, Carried, OnPage, OrgOf, At
  <2>5. \A c \in Callers : PagingInv(c)' /\ CallForgets(c)'
    BY <2>1 DEF IInv, PagingInv, CallForgets, Ahead, OnPage, OrgOf, At
  <2> QED
    BY <2>3, <2>4, <2>5 DEF IInv
<1>2. CASE \E o \in Orgs : Install(o) \/ Uninstall(o)
  BY <1>2, InstallKeepsInv, UninstallKeepsInv
<1>3. CASE \E c \in Callers : \E r \in scenario.asks[c] : Begin(c, r)
  BY <1>3, BeginKeepsInv
<1>4. ASSUME NEW c \in Callers, Step(c)
      PROVE  IInv'
  <2>1. CASE GetCommitAncestry(c) \/ GetPRHeadCommit(c) \/ RequestFails(c)
    <3>1. UNCHANGED <<scenario, installations, nextId, installationCache, clientCache, clearing,
                      gone, old>>
      BY <2>1 DEF GetCommitAncestry, GetPRHeadCommit, RequestFails, github, caches
    <3>2. \/ call' = [call EXCEPT ![c] = Idle]
          \/ call' = [call EXCEPT ![c] = Chain(c)]
      BY <2>1 DEF GetCommitAncestry, GetPRHeadCommit, RequestFails, Go
    <3> QED
      BY <3>1, <3>2, EndKeepsInv
  <2> QED
    BY <1>4, <2>1, FindKeepsInv, ListKeepsInv, NextPageKeepsInv, CacheInstallationKeepsInv,
       CacheClientKeepsInv DEF Step
<1>5. CASE ClearFirst \/ ClearSecond
  BY <1>5, ClearFirstKeepsInv, ClearSecondKeepsInv
<1> QED
  BY <1>1, <1>2, <1>3, <1>4, <1>5 DEF Next

LEMMA IsInvariant == Spec => []IInv
BY InitHasInv, NextKeepsInv, PTL DEF Spec

\* However many goroutines share the client, whatever installations GitHub makes
\* and removes and whenever ClearCache runs: no organization is served with
\* another one's installation, and what was gone when ClearCache began is in no
\* cache after it, unless a call from before put it there.
THEOREM CachesStaySound == Spec => []CachesAreSound
<1>1. IInv => CachesAreSound
  <2> SUFFICES ASSUME IInv
               PROVE  CachesAreSound
    OBVIOUS
  <2>1. TypeOK /\ IdInv /\ CachesForget /\ scenario.ids \in Nat
    BY GitHubAssumption DEF IInv, TypeOK
  <2>2. ClearedIsForgotten
    BY <2>1 DEF CachesForget, ClearedIsForgotten
  <2>3. OneOrgPerId
    <3> SUFFICES ASSUME NEW o \in Orgs, NEW p \in Orgs, o # p, clientCache[o] # NoId
                 PROVE  clientCache[o] # clientCache[p] /\ clientCache[o] # installationCache[p]
      BY DEF OneOrgPerId
    <3>1. clientCache[o] \in Nat /\ Held(o, clientCache[o])
      BY <2>1 DEF TypeOK, Held
    <3>2. clientCache[p] = clientCache[o] \/ installationCache[p] = clientCache[o]
            => Held(p, clientCache[o])
      BY DEF Held
    <3> QED
      BY <2>1, <3>1, <3>2 DEF IdInv
  <2> QED
    BY <2>1, <2>2, <2>3 DEF CachesAreSound
<1> QED
  BY <1>1, IsInvariant, PTL

\* A discovery of any number of pages reports an organization as not installed
\* only if it had no installation when the call began, or one was removed
\* meanwhile.
THEOREM NotFoundMeansGone == Spec => []NotFoundIsTrue
<1>1. IInv => NotFoundIsTrue
  BY DEF IInv
<1> QED
  BY <1>1, IsInvariant, PTL

-----------------------------------------------------------------------------
(***************************************************************************)
(* The walk along first parents.                                           *)
(*                                                                         *)
(* It is defined by recursion on its length, so two things come first: an  *)
(* iteration exists, and what holds of 0 and of each successor holds of    *)
(* all numbers - both from the least counterexample.                       *)
(***************************************************************************)
LEMMA SetInduction ==
    ASSUME NEW S \in SUBSET Nat, 0 \in S, \A n \in S : n + 1 \in S
    PROVE  S = Nat
<1> SUFFICES ASSUME S # Nat PROVE FALSE
  OBVIOUS
<1> DEFINE T == Nat \ S
<1>1. T \subseteq Nat /\ T # {}
  OBVIOUS
<1>2. PICK x \in T : \A y \in T : ~(<<y, x>> \in OpToRel(<, Nat))
  BY <1>1, NatLessThanWellFounded, WFMin
<1>3. ASSUME NEW y \in T PROVE ~(y < x)
  BY <1>2, <1>3 DEF OpToRel
<1>4. x \in Nat /\ x # 0 /\ x \notin S
  OBVIOUS
<1>5. x - 1 \in Nat /\ x - 1 < x /\ (x - 1) + 1 = x
  BY <1>4
<1>6. x - 1 \in S
  BY <1>3, <1>5
<1> QED
  BY <1>4, <1>5, <1>6

IsIteration(f, X, first, next) ==
    f \in [Nat -> X] /\ f[0] = first /\ \A n \in Nat : f[n + 1] = next[f[n]]

LEMMA IterationExists ==
    ASSUME NEW X, NEW first, NEW next, first \in X, next \in [X -> X]
    PROVE  \E f : IsIteration(f, X, first, next)
<1> DEFINE Upto(n, f) ==
              /\ f \in [0 .. n -> X] /\ f[0] = first
              /\ \A i \in 0 .. n : i < n => f[i + 1] = next[f[i]]
           S == {n \in Nat : \E f \in [0 .. n -> X] : Upto(n, f)}
           U == {n \in Nat : \A m \in Nat : \A f \in [0 .. n -> X], g \in [0 .. m -> X] :
                                n <= m /\ Upto(n, f) /\ Upto(m, g) => f[n] = g[n]}
<1>1. S = Nat
  <2>1. 0 \in S
    <3>1. Upto(0, [i \in 0 .. 0 |-> first])
      OBVIOUS
    <3> QED
      BY <3>1
  <2>2. ASSUME NEW n \in S PROVE n + 1 \in S
    <3>1. PICK f \in [0 .. n -> X] : Upto(n, f)
      OBVIOUS
    <3> DEFINE g == [i \in 0 .. n + 1 |-> IF i <= n THEN f[i] ELSE next[f[n]]]
    <3>2. f[n] \in X /\ next[f[n]] \in X
      BY <3>1
    <3>3. g \in [0 .. n + 1 -> X]
      BY <3>1, <3>2
    <3>4. g[0] = first /\ \A i \in 0 .. n : g[i] = f[i]
      BY <3>1
    <3>5. g[n + 1] = next[f[n]]
      OBVIOUS
    <3>6. ASSUME NEW i \in 0 .. n + 1, i < n + 1 PROVE g[i + 1] = next[g[i]]
      <4>1. CASE i < n
        BY <3>1, <3>4, <4>1
      <4>2. CASE i = n
        BY <3>4, <3>5, <4>2
      <4> QED
        BY <3>6, <4>1, <4>2
    <3>7. Upto(n + 1, g)
      BY <3>3, <3>4, <3>6
    <3> HIDE DEF g
    <3> QED
      BY <3>3, <3>7
  <2> HIDE DEF S
  <2>3. S \in SUBSET Nat
    BY DEF S
  <2> QED
    BY <2>1, <2>2, <2>3, SetInduction
<1>2. U = Nat
  <2>1. 0 \in U
    OBVIOUS
  <2>2. ASSUME NEW n \in U PROVE n + 1 \in U
    <3> SUFFICES ASSUME NEW m \in Nat, NEW f \in [0 .. n + 1 -> X], NEW g \in [0 .. m -> X],
                        n + 1 <= m, Upto(n + 1, f), Upto(m, g)
                 PROVE  f[n + 1] = g[n + 1]
      OBVIOUS
    <3> DEFINE h == [i \in 0 .. n |-> f[i]]
    <3>1. n \in Nat /\ n <= m /\ n \in 0 .. n + 1 /\ n \in 0 .. m
      OBVIOUS
    <3>2. h \in [0 .. n -> X] /\ Upto(n, h) /\ h[n] = f[n]
      OBVIOUS
    <3> HIDE DEF h
    <3>3. h[n] = g[n]
      BY <3>1, <3>2
    <3>4. f[n + 1] = next[f[n]] /\ g[n + 1] = next[g[n]]
      <4>1. n < n + 1 /\ n < m
        BY <3>1
      <4> QED
        BY <3>1, <4>1
    <3> QED
      BY <3>2, <3>3, <3>4
  <2> HIDE DEF U
  <2>3. U \in SUBSET Nat
    BY DEF U
  <2> QED
    BY <2>1, <2>2, <2>3, SetInduction
<1> DEFINE F(n) == CHOOSE f \in [0 .. n -> X] : Upto(n, f)
           G == [n \in Nat |-> F(n)[n]]
<1>3. ASSUME NEW n \in Nat PROVE F(n) \in [0 .. n -> X] /\ Upto(n, F(n))
  <2>1. \E f \in [0 .. n -> X] : Upto(n, f)
    BY <1>1
  <2> QED
    BY <2>1
<1>4. ASSUME NEW n \in Nat, NEW m \in Nat, NEW f \in [0 .. n -> X], NEW g \in [0 .. m -> X],
             n <= m, Upto(n, f), Upto(m, g)
      PROVE  f[n] = g[n]
  BY <1>2, <1>4
<1>5. G \in [Nat -> X]
  <2>1. ASSUME NEW n \in Nat PROVE F(n)[n] \in X
    <3>1. F(n) \in [0 .. n -> X]
      BY <1>3
    <3> HIDE DEF F
    <3> QED
      BY <3>1
  <2> QED
    BY <2>1
<1> HIDE DEF F
<1>6. G[0] = first
  BY <1>3
<1>7. ASSUME NEW n \in Nat PROVE G[n + 1] = next[G[n]]
  <2>1. /\ F(n) \in [0 .. n -> X] /\ Upto(n, F(n))
        /\ F(n + 1) \in [0 .. n + 1 -> X] /\ Upto(n + 1, F(n + 1))
    BY <1>3
  <2>2. F(n)[n] = F(n + 1)[n]
    <3>1. n + 1 \in Nat /\ n <= n + 1
      OBVIOUS
    <3> HIDE DEF Upto
    <3> QED
      BY <1>4, <2>1, <3>1
  <2>3. F(n + 1)[n + 1] = next[F(n + 1)[n]]
    BY <2>1
  <2> QED
    BY <2>2, <2>3
<1> QED
  BY <1>5, <1>6, <1>7 DEF IsIteration

\* What a walk of n steps is: a chain from the first node, which took all its
\* steps, or is as long as asked for, or ends where the next parent is missing.
IsWalk(nodes, depth, n, walked) ==
    /\ walked \in Seq(Commits) /\ walked # <<>>
    /\ Len(walked) <= (IF depth = 0 THEN 1 ELSE depth)
    /\ walked[1] = nodes[1]
    /\ \A i \in 2 .. Len(walked) : walked[i] = scenario.first[walked[i - 1]]
    /\ \/ Len(walked) = n + 1 \/ Len(walked) >= depth
       \/ scenario.first[Last(walked)] \notin ToSet(nodes)

Walk(nodes, depth, walked) ==
    LET parent == scenario.first[Last(walked)]
    IN  IF Len(walked) < depth /\ parent \in ToSet(nodes)
        THEN Append(walked, parent) ELSE walked

LEMMA WalkGoesOn ==
    ASSUME NEW nodes \in Seq(Commits), NEW depth \in Nat, NEW n \in Nat, NEW walked,
           IsWalk(nodes, depth, n, walked)
    PROVE  IsWalk(nodes, depth, n + 1, Walk(nodes, depth, walked))
<1> DEFINE parent == scenario.first[Last(walked)]
<1>1. /\ walked \in Seq(Commits) /\ Len(walked) \in Nat /\ Len(walked) >= 1
      /\ Len(walked) <= (IF depth = 0 THEN 1 ELSE depth)
      /\ walked[1] = nodes[1]
      /\ \A i \in 2 .. Len(walked) : walked[i] = scenario.first[walked[i - 1]]
  BY DEF IsWalk
<1>2. Last(walked) = walked[Len(walked)]
  BY DEF Last
<1>3. CASE Len(walked) < depth /\ parent \in ToSet(nodes)
  <2> DEFINE longer == Append(walked, parent)
  <2>1. parent \in Commits
    BY <1>3 DEF ToSet
  <2> HIDE DEF parent
  <2>2. /\ longer \in Seq(Commits) /\ Len(longer) = Len(walked) + 1
        /\ \A i \in 1 .. Len(walked) : longer[i] = walked[i]
        /\ longer[Len(walked) + 1] = parent
    BY <1>1, <2>1
  <2>3. Walk(nodes, depth, walked) = longer
    BY <1>3 DEF Walk, parent
  <2> HIDE DEF longer
  <2>4. ASSUME NEW i \in 2 .. Len(longer)
        PROVE  longer[i] = scenario.first[longer[i - 1]]
    <3>1. CASE i = Len(walked) + 1
      <4>1. longer[i - 1] = walked[Len(walked)]
        BY <1>1, <2>2, <3>1
      <4> QED
        BY <1>2, <2>2, <3>1, <4>1 DEF parent
    <3>2. CASE i # Len(walked) + 1
      <4>1. i \in 2 .. Len(walked) /\ i \in 1 .. Len(walked) /\ i - 1 \in 1 .. Len(walked)
        BY <1>1, <2>2, <3>2
      <4> QED
        BY <1>1, <2>2, <4>1
    <3> QED
      BY <3>1, <3>2
  <2>5. \/ Len(longer) = (n + 1) + 1 \/ Len(longer) >= depth
        \/ scenario.first[Last(longer)] \notin ToSet(nodes)
    <3>1. Len(walked) = n + 1 \/ Len(walked) >= depth \/ parent \notin ToSet(nodes)
      BY DEF IsWalk, parent
    <3> QED
      BY <1>1, <1>3, <2>2, <3>1 DEF parent
  <2>6. longer # <<>> /\ longer[1] = nodes[1] /\ Len(longer) <= (IF depth = 0 THEN 1 ELSE depth)
    BY <1>1, <1>3, <2>2
  <2> QED
    BY <2>2, <2>3, <2>4, <2>5, <2>6 DEF IsWalk
<1>4. CASE ~(Len(walked) < depth /\ parent \in ToSet(nodes))
  <2>1. Walk(nodes, depth, walked) = walked
    BY <1>4 DEF Walk
  <2>2. Len(walked) >= depth \/ parent \notin ToSet(nodes)
    BY <1>1, <1>4
  <2> QED
    BY <2>1, <2>2 DEF IsWalk
<1> QED
  BY <1>3, <1>4

\* FilterFirstParentChain is the walk of "depth" steps.
LEMMA FilterIsAWalk ==
    ASSUME scenario \in Scenarios, NEW nodes \in Seq(Commits), nodes # <<>>, NEW depth \in Nat
    PROVE  IsWalk(nodes, depth, depth, FilterFirstParentChain(nodes, depth))
<1> DEFINE X == {w \in Seq(Commits) : w # <<>>}
           IsDef(g) == g = [n \in Nat |->
               IF n = 0 THEN <<nodes[1]>>
               ELSE LET walked == g[n - 1]
                        parent == scenario.first[Last(walked)]
                    IN  IF Len(walked) < depth /\ parent \in ToSet(nodes)
                        THEN Append(walked, parent) ELSE walked]
           commits == CHOOSE g : IsDef(g)
<1>1. nodes[1] \in Commits /\ <<nodes[1]>> \in X
  OBVIOUS
<1>2. \A w \in X : Walk(nodes, depth, w) \in X
  <2> SUFFICES ASSUME NEW w \in X PROVE Walk(nodes, depth, w) \in X
    OBVIOUS
  <2> DEFINE parent == scenario.first[Last(w)]
  <2>1. parent \in ToSet(nodes) => parent \in Commits
    BY DEF ToSet
  <2> HIDE DEF parent
  <2>2. parent \in Commits => Append(w, parent) \in X
    OBVIOUS
  <2> QED
    BY <2>1, <2>2 DEF Walk, parent
<1>3. \E g : IsDef(g)
  <2> DEFINE next == [w \in X |-> Walk(nodes, depth, w)]
  <2>1. next \in [X -> X]
    BY <1>2
  <2> DEFINE start == <<nodes[1]>>
  <2>2. start \in X
    BY <1>1
  <2> HIDE DEF X, next, start, IsDef, commits
  <2>3. PICK f : IsIteration(f, X, start, next)
    BY <2>1, <2>2, IterationExists
  <2>4. f \in [Nat -> X] /\ f[0] = <<nodes[1]>> /\ \A n \in Nat : f[n + 1] = next[f[n]]
    BY <2>3 DEF IsIteration, start
  <2>5. ASSUME NEW n \in Nat, n # 0 PROVE f[n] = Walk(nodes, depth, f[n - 1])
    <3>1. n - 1 \in Nat /\ (n - 1) + 1 = n
      BY <2>5
    <3>2. f[n - 1] \in X /\ f[n] = next[f[n - 1]]
      BY <2>4, <3>1
    <3> QED
      BY <3>2 DEF next
  <2>6. f = [n \in Nat |-> IF n = 0 THEN <<nodes[1]>> ELSE Walk(nodes, depth, f[n - 1])]
    BY <2>4, <2>5
  <2>7. IsDef(f)
    BY <2>6 DEF Walk, IsDef
  <2> QED
    BY <2>7
<1>4. IsDef(commits)
  BY <1>3
<1>5. FilterFirstParentChain(nodes, depth) = commits[depth]
  BY DEF FilterFirstParentChain
<1>6. /\ commits[0] = <<nodes[1]>>
      /\ \A n \in Nat : commits[n + 1] = Walk(nodes, depth, commits[n])
  <2> HIDE DEF commits
  <2>1. commits = [n \in Nat |-> IF n = 0 THEN <<nodes[1]>>
                                  ELSE Walk(nodes, depth, commits[n - 1])]
    BY <1>4 DEF Walk
  <2>2. ASSUME NEW n \in Nat PROVE commits[n + 1] = Walk(nodes, depth, commits[n])
    <3>1. n + 1 \in Nat /\ n + 1 # 0 /\ (n + 1) - 1 = n
      OBVIOUS
    <3> QED
      BY <2>1, <3>1
  <2> QED
    BY <2>1, <2>2
<1> HIDE DEF commits, IsDef, X
<1> DEFINE S == {n \in Nat : IsWalk(nodes, depth, n, commits[n])}
<1>7. 0 \in S
  <2>1. Len(<<nodes[1]>>) = 1 /\ <<nodes[1]>>[1] = nodes[1]
    OBVIOUS
  <2> QED
    <3>1. <<nodes[1]>> \in Seq(Commits) /\ <<nodes[1]>> # <<>>
      BY <1>1
    <3>2. IsWalk(nodes, depth, 0, <<nodes[1]>>)
      BY <2>1, <3>1 DEF IsWalk
    <3> QED
      BY <1>6, <3>2
<1>8. ASSUME NEW n \in S PROVE n + 1 \in S
  <2>1. n \in Nat /\ IsWalk(nodes, depth, n, commits[n])
    OBVIOUS
  <2>2. IsWalk(nodes, depth, n + 1, Walk(nodes, depth, commits[n]))
    BY <2>1, WalkGoesOn
  <2>3. commits[n + 1] = Walk(nodes, depth, commits[n])
    BY <1>6, <2>1
  <2>4. IsWalk(nodes, depth, n + 1, commits[n + 1])
    BY <2>2, <2>3, Zenon
  <2>5. n + 1 \in Nat
    BY <2>1
  <2> QED
    BY <2>4, <2>5
<1>9. S \in SUBSET Nat
  OBVIOUS
<1> HIDE DEF S
<1>10. depth \in S
  BY <1>7, <1>8, <1>9, SetInduction
<1> QED
  BY <1>5, <1>10 DEF S

\* Of a history that is not empty something is fetched, from its head on.
LEMMA FetchedFromTheHead ==
    ASSUME scenario \in Scenarios, scenario.order # <<>>, NEW depth \in Nat
    PROVE  Fetched(depth) \in Seq(Commits) /\ Fetched(depth) # <<>>
           /\ Fetched(depth)[1] = scenario.order[1]
<1> DEFINE size == FetchDepth(depth)
<1>1. scenario.order \in Seq(Commits)
  BY GitHubAssumption
<1>2. size \in Nat /\ size >= 1
  <2>1. OverFetch \in Nat /\ OverFetch >= 1 /\ MaxFetch \in Nat /\ MaxFetch >= 1
    BY GitHubAssumption
  <2>2. depth # 0 => depth * OverFetch \in Nat /\ depth * OverFetch >= 1
    BY <2>1
  <2> DEFINE wanted == IF depth = 0 THEN 1 ELSE depth * OverFetch
  <2>3. wanted \in Nat /\ wanted >= 1
    BY <2>2
  <2>4. size = IF wanted <= MaxFetch THEN wanted ELSE MaxFetch
    BY <2>1, <2>3, LesserOfTwo DEF FetchDepth
  <2> QED
    BY <2>1, <2>3, <2>4
<1> HIDE DEF size
<1> DEFINE to == Min({size, Len(scenario.order)})
<1>3. Len(scenario.order) \in Nat /\ Len(scenario.order) >= 1
  BY <1>1
<1>4. to \in Nat /\ to >= 1 /\ to <= Len(scenario.order)
  BY <1>2, <1>3, LesserOfTwo
<1>5. Fetched(depth) = SubSeq(scenario.order, 1, to)
  BY DEF Fetched, Slice, size
<1> HIDE DEF to
<1>6. /\ SubSeq(scenario.order, 1, to) \in Seq(Commits)
      /\ Len(SubSeq(scenario.order, 1, to)) = to
      /\ SubSeq(scenario.order, 1, to)[1] = scenario.order[1]
  BY <1>1, <1>4
<1> QED
  BY <1>4, <1>5, <1>6

\* What AncestryIsFirstParentChain asks of one answer, in a given scenario.
IsChainOf(s, commits, depth) ==
    LET bound == IF depth = 0 THEN 1 ELSE depth
    IN  /\ Len(commits) \in 1 .. bound
        /\ commits[1] = s.order[1]
        /\ \A n \in 2 .. Len(commits) : commits[n] = s.first[commits[n - 1]]
        /\ \/ Len(commits) = bound
           \/ s.first[Last(commits)] \notin ToSet(Slice(s.order, 1, FetchDepth(depth)))

\* What FilterFirstParentChain makes of what was fetched.
LEMMA AnswerIsAChain ==
    ASSUME scenario \in Scenarios, scenario.order # <<>>, NEW depth \in Nat
    PROVE  IsChainOf(scenario, FilterFirstParentChain(Fetched(depth), depth), depth)
<1> DEFINE commits == FilterFirstParentChain(Fetched(depth), depth)
<1>1. IsWalk(Fetched(depth), depth, depth, commits)
  BY FetchedFromTheHead, FilterIsAWalk
<1>2. Fetched(depth)[1] = scenario.order[1]
  BY FetchedFromTheHead
<1> HIDE DEF commits
<1>3. commits \in Seq(Commits) /\ Len(commits) \in Nat /\ Len(commits) >= 1
  BY <1>1 DEF IsWalk
<1>4. /\ Len(commits) \in 1 .. (IF depth = 0 THEN 1 ELSE depth)
      /\ \/ Len(commits) = (IF depth = 0 THEN 1 ELSE depth)
         \/ scenario.first[Last(commits)] \notin ToSet(Fetched(depth))
  <2> DEFINE stuck == scenario.first[Last(commits)] \notin ToSet(Fetched(depth))
  <2>1. /\ Len(commits) <= (IF depth = 0 THEN 1 ELSE depth)
        /\ Len(commits) = depth + 1 \/ Len(commits) >= depth \/ stuck
    BY <1>1 DEF IsWalk
  <2> HIDE DEF stuck
  <2>2. ASSUME NEW k \in Nat, k >= 1, k <= (IF depth = 0 THEN 1 ELSE depth),
               k = depth + 1 \/ k >= depth \/ stuck
        PROVE  k \in 1 .. (IF depth = 0 THEN 1 ELSE depth)
               /\ (k = (IF depth = 0 THEN 1 ELSE depth) \/ stuck)
    BY <2>2
  <2> QED
    BY <1>3, <2>1, <2>2 DEF stuck
<1>5. /\ commits[1] = scenario.order[1]
      /\ \A n \in 2 .. Len(commits) : commits[n] = scenario.first[commits[n - 1]]
  BY <1>1, <1>2 DEF IsWalk
<1>6. IsChainOf(scenario, commits, depth)
  BY <1>4, <1>5 DEF IsChainOf, Fetched
<1> QED
  BY <1>6 DEF commits

\* A call that goes on, or ends without an ancestry, leaves the answers there were.
KeepsAnswer(d) ==
    /\ \A b \in Callers \ {d} : call'[b] = call[b]
    /\ \/ call'[d].answer # "chain"
       \/ call'[d].answer = call[d].answer /\ call'[d].ask = call[d].ask

LEMMA StepKeepsAnswer ==
    ASSUME TypeOK, NEW d \in Callers,
           \/ FindClient(d) \/ FindInstallation(d) \/ ListPage(d) \/ CacheInstallation(d)
           \/ NextPage(d) \/ CacheClient(d) \/ GetPRHeadCommit(d) \/ RequestFails(d)
    PROVE  KeepsAnswer(d)
<1> DEFINE o == OrgOf(d)
<1>1. call \in [Callers -> Calls] /\ call[d] \in Calls
  BY DEF TypeOK
<1>2. CASE FindClient(d)
  <2>1. CASE clientCache[o] # NoId
    <3>1. call' = [call EXCEPT ![d] = [call[d] EXCEPT !.pc = "query", !.id = clientCache[o]]]
      BY <1>2, <2>1 DEF FindClient, Go
    <3> QED
      BY <1>1, <3>1 DEF KeepsAnswer, Calls
  <2>2. CASE ~(clientCache[o] # NoId)
    <3>1. call' = [call EXCEPT ![d] = [call[d] EXCEPT !.pc = "installation"]]
      BY <1>2, <2>2 DEF FindClient, Go
    <3> QED
      BY <1>1, <3>1 DEF KeepsAnswer, Calls
  <2> QED
    BY <2>1, <2>2
<1>3. CASE FindInstallation(d)
  <2>1. CASE installationCache[o] # NoId
    <3> DEFINE later == call[d].since \/ <<"installation", o>> \in old
    <3>1. call' = [call EXCEPT ![d] = [call[d] EXCEPT !.pc = "build",
                      !.id = installationCache[o], !.since = later]]
      BY <1>3, <2>1 DEF FindInstallation, Go
    <3> HIDE DEF later
    <3> QED
      BY <1>1, <3>1 DEF KeepsAnswer, Calls
  <2>2. CASE ~(installationCache[o] # NoId)
    <3>1. call' = [call EXCEPT ![d] = [call[d] EXCEPT !.pc = "list"]]
      BY <1>3, <2>2 DEF FindInstallation, Go
    <3> QED
      BY <1>1, <3>1 DEF KeepsAnswer, Calls
  <2> QED
    BY <2>1, <2>2
<1>4. CASE ListPage(d)
  <2> DEFINE page == Page(call[d].from)
             more == MorePages(call[d].from)
  <2>1. call' = [call EXCEPT ![d] = [call[d] EXCEPT !.pc = "page", !.page = page, !.more = more]]
    BY <1>4 DEF ListPage, Go
  <2> HIDE DEF page, more
  <2> QED
    BY <1>1, <2>1 DEF KeepsAnswer, Calls
<1>5. CASE CacheInstallation(d)
  <2> DEFINE inst == Head(call[d].page)
             rest == Tail(call[d].page)
  <2>1. CASE inst.account = o
    <3>1. call' = [call EXCEPT ![d] = [call[d] EXCEPT !.pc = "build", !.id = inst.id,
                      !.from = 0, !.page = <<>>, !.more = FALSE]]
      BY <1>5, <2>1 DEF CacheInstallation, Go
    <3> HIDE DEF inst
    <3> QED
      BY <1>1, <3>1 DEF KeepsAnswer, Calls
  <2>2. CASE ~(inst.account = o)
    <3>1. call' = [call EXCEPT ![d] = [call[d] EXCEPT !.page = rest]]
      BY <1>5, <2>2 DEF CacheInstallation, Go
    <3> HIDE DEF rest
    <3> QED
      BY <1>1, <3>1 DEF KeepsAnswer, Calls
  <2> QED
    BY <2>1, <2>2
<1>6. CASE NextPage(d)
  <2>1. CASE call[d].more
    <3> DEFINE from == call[d].from + PageSize
    <3>1. call' = [call EXCEPT ![d] = [call[d] EXCEPT !.pc = "list", !.from = from]]
      BY <1>6, <2>1 DEF NextPage, Go
    <3> HIDE DEF from
    <3> QED
      BY <1>1, <3>1 DEF KeepsAnswer, Calls
  <2>2. CASE ~call[d].more
    <3>1. call' = [call EXCEPT ![d] = NotFound(d)] /\ NotFound(d).answer = "not_found"
      BY <1>6, <2>2 DEF NextPage, NotFound, Idle, Go
    <3> QED
      BY <1>1, <3>1 DEF KeepsAnswer
  <2> QED
    BY <2>1, <2>2
<1>7. CASE CacheClient(d)
  <2>1. call' = [call EXCEPT ![d] = [call[d] EXCEPT !.pc = "query"]]
    BY <1>7 DEF CacheClient, Go
  <2> QED
    BY <1>1, <2>1 DEF KeepsAnswer, Calls
<1>8. CASE GetPRHeadCommit(d) \/ RequestFails(d)
  <2>1. call' = [call EXCEPT ![d] = Idle] /\ Idle.answer = "none"
    BY <1>8 DEF GetPRHeadCommit, RequestFails, Idle, Go
  <2> QED
    BY <1>1, <2>1 DEF KeepsAnswer
<1> QED
  BY <1>2, <1>3, <1>4, <1>5, <1>6, <1>7, <1>8

\* A goroutine keeps the ancestry it was given, or is given a new one.
LEMMA AnswersAreKept ==
    ASSUME TypeOK, DOMAIN chain = Callers, [Next]_vars, NEW c \in Callers, call'[c].answer = "chain"
    PROVE  /\ DOMAIN chain' = Callers
           /\ \/ GetCommitAncestry(c)
              \/ call[c].answer = "chain" /\ call'[c].ask = call[c].ask /\ chain'[c] = chain[c]
<1> DEFINE Kept == call[c].answer = "chain" /\ call'[c].ask = call[c].ask /\ chain'[c] = chain[c]
<1>1. call \in [Callers -> Calls] /\ call[c] \in Calls
  BY DEF TypeOK
<1>2. CASE UNCHANGED vars
  BY <1>2 DEF vars
<1>3. CASE \E o \in Orgs : Install(o) \/ Uninstall(o)
  BY <1>1, <1>3 DEF Install, Uninstall, Calls
<1>4. CASE ClearFirst \/ ClearSecond
  BY <1>1, <1>4 DEF ClearFirst, ClearSecond, Calls
<1>5. CASE \E d \in Callers : \E r \in scenario.asks[d] : Begin(d, r)
  <2>1. PICK d \in Callers : \E r \in scenario.asks[d] : Begin(d, r)
    BY <1>5
  <2>2. DOMAIN chain' = Callers /\ (d # c => chain'[c] = chain[c])
    BY <2>1 DEF Begin
  <2>3. CASE d = c
    <3>1. call'[c].answer = "none"
      BY <1>1, <2>1, <2>3 DEF Begin, Idle
    <3> QED
      BY <3>1
  <2>4. CASE d # c
    <3>1. call'[c] = call[c]
      BY <1>1, <2>1, <2>4 DEF Begin
    <3> QED
      BY <2>2, <2>4, <3>1
  <2> QED
    BY <2>3, <2>4
<1>6. CASE \E d \in Callers : Step(d)
  <2>1. PICK d \in Callers : Step(d)
    BY <1>6
  <2>2. CASE GetCommitAncestry(d)
    <3>1. DOMAIN chain' = Callers /\ (d # c => chain'[c] = chain[c])
      BY <2>2 DEF GetCommitAncestry
    <3>2. d # c => call'[c] = call[c]
      BY <1>1, <2>2 DEF GetCommitAncestry
    <3> QED
      BY <2>2, <3>1, <3>2
  <2>3. CASE ~GetCommitAncestry(d)
    <3>1. KeepsAnswer(d)
      BY <2>1, <2>3, StepKeepsAnswer DEF Step
    <3>2. chain' = chain
      BY <2>1, <2>3 DEF Step, FindClient, FindInstallation, ListPage, CacheInstallation, NextPage,
         CacheClient, GetPRHeadCommit, RequestFails, Go
    <3> QED
      BY <1>1, <3>1, <3>2 DEF KeepsAnswer
  <2> QED
    BY <2>2, <2>3
<1> QED
  BY <1>2, <1>3, <1>4, <1>5, <1>6 DEF Next

\* Whatever the history and the depth: GetCommitAncestry answers with the
\* first-parent chain from the head, as long as asked for or up to the first
\* parent that was not fetched, and with nothing else.
THEOREM AncestryIsAChain == Spec => []AncestryIsFirstParentChain
<1> DEFINE ChainInv ==
             /\ DOMAIN chain = Callers
             /\ \A c \in Callers : call[c].answer = "chain" /\ scenario.order # <<>> =>
                                      IsChainOf(scenario, chain[c], call[c].ask.depth)
<1>1. Init => ChainInv
  BY DEF Init, Idle
<1>2. IInv /\ ChainInv /\ [Next]_vars => ChainInv'
  <2> SUFFICES ASSUME TypeOK, ChainInv, [Next]_vars PROVE ChainInv'
    BY DEF IInv
  <2>1. scenario' = scenario /\ scenario \in Scenarios
    BY DEF TypeOK, Next, vars, Install, Uninstall, ClearFirst, ClearSecond, Begin, Step, FindClient,
       FindInstallation, ListPage, CacheInstallation, NextPage, CacheClient, GetCommitAncestry,
       GetPRHeadCommit, RequestFails
  <2>2. DOMAIN chain' = Callers
    BY DEF vars, Next, Install, Uninstall, ClearFirst, ClearSecond, Begin, Step, FindClient,
       FindInstallation, ListPage, CacheInstallation, NextPage, CacheClient, GetCommitAncestry,
       GetPRHeadCommit, RequestFails, Go
  <2>3. ASSUME NEW c \in Callers, call'[c].answer = "chain", scenario'.order # <<>>
        PROVE  IsChainOf(scenario', chain'[c], call'[c].ask.depth)
    <3> DEFINE depth == call[c].ask.depth
    <3>1. CASE GetCommitAncestry(c)
      <4>1. call[c].ask \in Requests /\ call[c].ask.kind = "ancestry"
        BY <3>1 DEF TypeOK, GetCommitAncestry, At
      <4>2. depth \in Nat
        BY <4>1 DEF Requests
      <4>3. call'[c].ask = call[c].ask
        BY <3>1 DEF TypeOK, GetCommitAncestry, Chain, Idle
      <4>4. chain'[c] = FilterFirstParentChain(Fetched(depth), depth)
        BY <3>1 DEF GetCommitAncestry
      <4>5. IsChainOf(scenario, chain'[c], depth)
        BY <2>1, <2>3, <4>2, <4>4, AnswerIsAChain
      <4> QED
        BY <2>1, <4>3, <4>5
    <3>2. CASE call[c].answer = "chain" /\ call'[c].ask = call[c].ask /\ chain'[c] = chain[c]
      BY <2>1, <2>3, <3>2
    <3> QED
      BY <2>3, <3>1, <3>2, AnswersAreKept
  <2> QED
    BY <2>2, <2>3
<1>3. ChainInv => AncestryIsFirstParentChain
  BY DEF AncestryIsFirstParentChain, IsChainOf, Fetched
<1> QED
  BY <1>1, <1>2, <1>3, IsInvariant, PTL DEF Spec
=============================================================================
