----------------------------- MODULE SlipLookups -----------------------------
(***************************************************************************)
(* The four commit lookups of a SlipStore, as PostgresStore's queries and  *)
(* as MockStore's loops over its map answer them.                          *)
(*                                                                         *)
(* Before migration v5 several slips may share a commit, and a push acts   *)
(* on the one LoadByCommit returns: an ended one is repaved. Rows are      *)
(* seeded one by one (the double's AddSlip), in any state.                 *)
(***************************************************************************)
EXTENDS SlipStatus, Naturals, FiniteSets, FiniteSetsExt, SequencesExt

CONSTANTS
    Ids,           \* correlation ids: numbers, for the double's tie-break
    Commits,
    SeedStatuses,  \* slip statuses of the seeded rows
    Times,         \* updated_at
    Searches       \* the commit lists searched for

ASSUME LookupsAssumption ==
    /\ Ids \subseteq Nat /\ Times \subseteq Nat
    /\ SeedStatuses \subseteq SlipStatuses
    /\ Searches \subseteq Seq(Commits)

VARIABLE rows   \* the slips: a set of [id, commit, status, updated]

Row == [id : Ids, commit : Commits, status : SeedStatuses, updated : Times]

NotFound == [id |-> "ErrSlipNotFound"]

\* status NOT IN ('abandoned', 'promoted', 'compensated')
SupersededTerminal(r) == r.status \in {"abandoned", "promoted", "compensated"}

-----------------------------------------------------------------------------
(***************************************************************************)
(* PostgresStore.  A query with ORDER BY and LIMIT 1 returns one of the    *)
(* rows none comes before: the answers are a set.                          *)
(***************************************************************************)
RowsOf(commit) == {r \in rows : r.commit = commit}

\* LIMIT 1 over the rows of S, the order given by Before.
FirstOf(S, Before(_, _)) ==
    IF S = {} THEN {NotFound} ELSE {r \in S : \A q \in S : ~Before(q, r)}

\* ORDER BY updated_at DESC
Newer(q, r) == q.updated > r.updated

\* Mutant: recency alone.
NewestFirst(q, r) == Newer(q, r)

\* ORDER BY (status IN (repaveable)) ASC, updated_at DESC
LiveFirst(q, r) ==
    \/ q.status \notin Repaveable /\ r.status \in Repaveable
    \/ (q.status \in Repaveable <=> r.status \in Repaveable) /\ Newer(q, r)

LoadByCommit(commit) == FirstOf(RowsOf(commit), LiveFirst)

LoadLiveByCommit(commit) ==
    FirstOf({r \in RowsOf(commit) : ~SupersededTerminal(r)}, LiveFirst)

\* The join with unnest(commits) WITH ORDINALITY: pairs of a row and the
\* place of its commit, by place and then by recency.
Matches(commits) == {p \in (DOMAIN commits) \X rows : p[2].commit = commits[p[1]]}
ByPriority(p, q) == p[1] < q[1] \/ (p[1] = q[1] /\ Newer(p[2], q[2]))

FindByCommits(commits) ==
    LET found == {p \in Matches(commits) : ~SupersededTerminal(p[2])}
    IN  IF found = {} THEN {NotFound} ELSE {p[2] : p \in FirstOf(found, ByPriority)}

\* FindAllByCommits has no LIMIT: any order that respects the ORDER BY.
IsFindAllByCommits(commits, answer) ==
    /\ ToSet(answer) = Matches(commits)
    /\ \A i, j \in DOMAIN answer : i < j =>
          answer[i] # answer[j] /\ ~ByPriority(answer[j], answer[i])

-----------------------------------------------------------------------------
(***************************************************************************)
(* MockStore sorts the rows of a commit and takes the first that will do.  *)
(***************************************************************************)

\* Newest first, the smaller id among equals.
TieBreak(a, b) ==
    IF a.updated # b.updated THEN a.updated > b.updated ELSE a.id < b.id

\* Live rows first.
LoadOrder(a, b) ==
    IF SlipLive(a.status) <=> SlipLive(b.status) THEN TieBreak(a, b) ELSE SlipLive(a.status)

FindOrder(a, b) == TieBreak(a, b)

\* sort.Slice with an order of all of S: the place of an element is the number
\* of those before it.
Sorted(S, Before(_, _)) ==
    [n \in 1..Cardinality(S) |->
        CHOOSE r \in S : Cardinality({q \in S : Before(q, r)}) = n - 1]

MockLoadByCommit(commit) ==
    IF RowsOf(commit) = {} THEN NotFound ELSE Sorted(RowsOf(commit), LoadOrder)[1]

Useful(commit) == {r \in RowsOf(commit) : ~SupersededTerminal(r)}

\* The first row that is not superseded, where there is one.
FirstUseful(sorted) ==
    sorted[Min({n \in DOMAIN sorted : ~SupersededTerminal(sorted[n])})]

MockLoadLiveByCommit(commit) ==
    IF Useful(commit) = {} THEN NotFound
    ELSE FirstUseful(Sorted(RowsOf(commit), LoadOrder))

\* Commit by commit, the first that has a useful row.
MockFindByCommits(commits) ==
    LET found == {i \in DOMAIN commits : Useful(commits[i]) # {}}
    IN  IF found = {} THEN NotFound
        ELSE FirstUseful(Sorted(RowsOf(commits[Min(found)]), FindOrder))

\* Every row of every commit: commit by commit, each one's in FindOrder.
PlaceOrder(p, q) == p[1] < q[1] \/ (p[1] = q[1] /\ FindOrder(p[2], q[2]))

MockFindAllByCommits(commits) == Sorted(Matches(commits), PlaceOrder)

-----------------------------------------------------------------------------
LookupsInit == rows = {}

\* AddSlip, and what Create does before there is a unique index.
AddSlip(r) ==
    /\ \A q \in rows : q.id # r.id
    /\ rows' = rows \cup {r}

\* Reset empties the double for the next scenario.
Reset == rows # {} /\ rows' = {}

LookupsNext == (\E r \in Row : AddSlip(r)) \/ Reset

LookupsSpec == LookupsInit /\ [][LookupsNext]_rows

-----------------------------------------------------------------------------
\* The double answers every lookup as Postgres may: for the same rows it
\* returns one of the rows a query may return, or the same miss.
LookupsAgree ==
    /\ \A k \in Commits :
          /\ MockLoadByCommit(k) \in LoadByCommit(k)
          /\ MockLoadLiveByCommit(k) \in LoadLiveByCommit(k)
    /\ \A ks \in Searches :
          /\ MockFindByCommits(ks) \in FindByCommits(ks)
          /\ IsFindAllByCommits(ks, MockFindAllByCommits(ks))

\* What the push path relies on: a commit with a live slip is never answered
\* with an ended one, however much newer, and a slip that is not superseded
\* hides behind none that is.
LiveSlipIsFound ==
    \A k \in Commits : (\E r \in RowsOf(k) : SlipLive(r.status)) =>
        \A r \in LoadByCommit(k) \cup LoadLiveByCommit(k) : SlipLive(r.status)

\* Postgres answers a lookup as SlipStore promises, and the double as Postgres.
LookupsSound == LiveSlipIsFound /\ LookupsAgree
=============================================================================
