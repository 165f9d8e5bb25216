----------------------------- MODULE SlipAncestry -----------------------------
(***************************************************************************)
(* Lineage: the slips a push supersedes and the links it records to them.  *)
(*                                                                         *)
(* CreateSlipForPush reads the slip of its commit, searches the slips of   *)
(* the commits before it (GitHub's first-parent history, then the heads of *)
(* the pull requests its message names), abandons or promotes the first    *)
(* one that may still run, writes its own slip and links it to the nearest *)
(* ancestor.  None of it is one transaction: other pushes create, repave   *)
(* and abandon the same slips meanwhile.  The rows that hang on a slip, its*)
(* link (slip_ancestry) and its rollback records (slip_rollbacks), go with *)
(* it when it is repaved (migrations v5 and v7).                           *)
(*                                                                         *)
(* A repave is one transaction, at READ COMMITTED, but two of its reads    *)
(* are older than its writes: the superseded slip's own link is read before*)
(* the DELETE locks anything, and the UPDATE that repoints descendants sees*)
(* the links that were committed when it began.  They are steps of their   *)
(* own here.  Its writes hold their locks until it commits, and so are one *)
(* step, the last.                                                         *)
(*                                                                         *)
(* SlipPush has the decisions about the push's own commit in full.  Here   *)
(* they are kept for pushes that start a run and slips nobody claims.      *)
(***************************************************************************)
EXTENDS SlipStatus, Naturals, FiniteSets, SequencesExt

CONSTANTS
    Ids,          \* correlation ids
    CommitOf,     \* the commit a delivery pushes
    BranchOf,     \* the branch it pushes it to; NoBranch where it is unknown
    NoBranch,
    Pushes,       \* calls of CreateSlipForPush
    IdOf,         \* the delivery each is made for
    Casts,        \* the sets of pushes and resolutions that come together
    Near, Far,    \* a commit -> the commits before it, to the two depths
    Mentions,     \* a commit -> the pull requests its message names, in order
    PRHead,       \* a pull request -> its head commit
    Outage,       \* the pushes whose search for ancestors may fail
    Flaky,        \* the pushes whose writes may fail
    RunStatuses,  \* the statuses that are written for each run
    Handlers,     \* the (correlation id, workflow) pairs of rollback handlers
    RollbackStatuses, \* the outcomes they report
    Resolutions,  \* calls of ResolveSlip
    RefOf,        \* the ref each of them resolves
    TagOf,        \* the hexadecimal text in the image tag it falls back on: a
                  \* commit, or the abbreviation of one
    LoadFails     \* the resolutions whose load by that text may fail

None == "none"
Commits == DOMAIN Near

ASSUME AncestryAssumption ==
    /\ CommitOf \in [Ids -> Commits] /\ IdOf \in [Pushes -> Ids]
    /\ None \notin Ids \cup SlipStatuses \cup RollbackStatuses
    /\ Near \in [Commits -> Seq(Commits)] /\ Far \in [Commits -> Seq(Commits)]
    /\ \A c \in Commits : c \notin ToSet(Near[c]) \cup ToSet(Far[c])
    /\ Mentions \in [Commits -> Seq(DOMAIN PRHead)]
    /\ \A r \in DOMAIN PRHead : PRHead[r] \in Commits
    /\ \A x \in Casts : x \subseteq Pushes \cup Resolutions
    /\ RefOf \in [Resolutions -> Commits] /\ LoadFails \subseteq Resolutions
    /\ RunStatuses \in [Ids -> SUBSET SlipStatuses]
    /\ \A h \in Handlers : h[1] \in Ids

VARIABLES
    slips,      \* correlation id -> slip status, or None
    link,       \* slip_ancestry: correlation id -> its parent, as recorded
    rollback,   \* slip_rollbacks: handler -> recorded outcome
    pc,         \* where each push is
    existing,   \* the slip it found for its own commit, or None
    search,     \* the search for ancestors it is at
    parent,     \* the nearest ancestor it found, as it will be recorded
    target,     \* the ancestor it abandons or promotes, or None
    ownLink,    \* the link of the slip it repaves, read before the DELETE
    seen,       \* the slips whose links its repoint saw naming that slip
    resolved,   \* how far the resolution of each of Resolutions has come
    had,        \* auxiliary: which of the statuses "in_progress", a run's first,
                \* and "failed" each slip has had
    supersededBy, \* auxiliary: the push that abandoned or promoted a slip
    raced,      \* auxiliary: slips repaved while a push held them as parent
    late        \* auxiliary: pushes whose slip to repave got a link after they
                \* had read that it had none

pushVars == <<pc, existing, search, parent, target>>
txVars == <<ownLink, seen, late>>
vars == <<slips, link, rollback, pushVars, txVars, resolved, had, supersededBy, raced>>

NoLink == [id |-> None]
Entries == [id : Ids, branch : {BranchOf[i] : i \in Ids}, status : SlipStatuses, failedStep : BOOLEAN]

Exists(i) == slips[i] # None
Commit(p) == CommitOf[IdOf[p]]

\* The slip of a commit: LoadByCommit (there is one at most).
SlipsOf(c) == {i \in Ids : Exists(i) /\ CommitOf[i] = c}

\* FindAllByCommits answers with slips in the order of the commits: here, with
\* the places of the commits that have one, and SlipAt is the slip there.
FindAllByCommits(commits) == {k \in DOMAIN commits : SlipsOf(commits[k]) # {}}

SlipAt(commits, k) == CHOOSE i \in SlipsOf(commits[k]) : TRUE

\* The slip at the first of these places.
FirstAt(commits, places) == SlipAt(commits, Min(places))

\* The AncestryEntry of slip i.  A failed slip has a step that failed.
EntryOf(i) ==
    [id |-> i, branch |-> BranchOf[i], status |-> slips[i], failedStep |-> slips[i] = "failed"]

\* One hop of ResolveAncestry: the link of a slip, by branch and id.
Hop(branch, i) == IF BranchOf[i] = branch THEN link[i] ELSE NoLink

-----------------------------------------------------------------------------
(***************************************************************************)
(* The store.                                                              *)
(***************************************************************************)
SetStatuses(new) ==
    /\ slips' = new
    /\ had' = [i \in Ids |-> had[i] \cup ({new[i]} \cap {"in_progress", "failed"})]

\* createTx: an upsert on the correlation id under the unique commit index.
Duplicate(c, gone) == SlipsOf(CommitOf[c]) \ ({c} \cup gone) # {}

Create(c) ==
    /\ ~Duplicate(c, {})
    /\ SetStatuses([slips EXCEPT ![c] = "in_progress"])
    /\ UNCHANGED <<link, rollback, raced>>

\* Mutant: the repoint rewrites the parent's id and status only.
RepointId(p, i) ==
    IF link[i].id = existing[p] /\ i \in seen[p]
    THEN [link[i] EXCEPT !.id = IdOf[p], !.status = "in_progress"] ELSE link[i]

\* The repoint of slip i's link from the slip removed to its successor: of a
\* link that the UPDATE saw, and that still names that slip.
Repoint(p, i) ==
    IF link[i].id = existing[p] /\ i \in seen[p]
    THEN [id |-> IdOf[p], branch |-> BranchOf[IdOf[p]], status |-> "in_progress", failedStep |-> FALSE]
    ELSE link[i]

\* An upsert of slip c's link; without a link nothing is written.
Linked(c, l) == IF l = NoLink THEN link[c] ELSE l

\* Mutant: the superseded run's own link is read after the DELETE cascaded.
LinkAfterDelete(p) == parent[p]

\* The successor's link: the push's own, else the one read to be carried forward.
Carried(p) == IF parent[p] # NoLink THEN parent[p] ELSE ownLink[p]

\* The links once the slip that push p found has been replaced by its own.
Removed(p) ==
    [i \in Ids |-> IF i = IdOf[p] THEN Linked(i, Carried(p)) ELSE IF i = existing[p] THEN NoLink
                   ELSE Repoint(p, i)]

\* Pushes that hold slip i as the parent they will record, found or carried.
Holding(i) ==
    {p \in Pushes : i \in {parent[p].id, ownLink[p].id} /\ pc[p] \notin {"done", "failed"}}

\* Links to the slip push p repaves that were committed after its repoint looked.
Missed(p) == {i \in Ids : link[i].id = existing[p]} \ seen[p]

\* Pushes in a repave of slip i that will carry no link forward.
Repaving == {"delete", "replace", "backstop delete", "backstop replace"}
WithoutLink(i) == {p \in Pushes : pc[p] \in Repaving /\ existing[p] = i /\ Carried(p) = NoLink}

\* Rows that are deleted are no longer those that another repoint saw.
TxEnds(p, deleted) ==
    /\ ownLink' = [ownLink EXCEPT ![p] = NoLink]
    /\ seen' = [q \in Pushes |-> IF q = p THEN {} ELSE seen[q] \ deleted]

\* Mutant: the delete and the create as two calls, of which the second fails.
RepaveDeletes(p, linked) ==
    /\ Exists(existing[p]) => slips[existing[p]] \in Repaveable
    /\ ~Duplicate(IdOf[p], {existing[p]})
    /\ link' = [i \in Ids |-> IF i = existing[p] THEN NoLink ELSE link[i]]
    /\ SetStatuses([slips EXCEPT ![existing[p]] = None])
    /\ rollback' = [h \in Handlers |-> IF h[1] = existing[p] THEN None ELSE rollback[h]]
    /\ TxEnds(p, {existing[p]})
    /\ UNCHANGED <<raced, late>>

(***************************************************************************)
(* The writes of a Repave, by push p, of slip old, which is ended, by slip *)
(* c.  Where old is gone already, only c is written.  "linked" is FALSE    *)
(* where the savepoint around the successor's link was rolled back.        *)
(***************************************************************************)
Repave(p, linked) ==
    LET old   == existing[p]
        c     == IdOf[p]
        links == IF Exists(old) THEN Removed(p) ELSE [link EXCEPT ![c] = Linked(c, parent[p])]
    IN  /\ Exists(old) => slips[old] \in Repaveable
        /\ ~Duplicate(c, {old})
        /\ link' = IF linked THEN links ELSE [links EXCEPT ![c] = link[c]]
        /\ SetStatuses([slips EXCEPT ![old] = None, ![c] = "in_progress"])
        /\ rollback' = [h \in Handlers |-> IF h[1] = old THEN None ELSE rollback[h]]
        /\ TxEnds(p, {old})
        /\ raced' = IF Exists(old) /\ Holding(old) \cup Missed(p) # {} THEN raced \cup {old} ELSE raced
        /\ late' = late \cup WithoutLink(c)

-----------------------------------------------------------------------------
(***************************************************************************)
(* CreateSlipForPush up to the search for ancestors.                       *)
(***************************************************************************)
Goto(p, where) == pc' = [pc EXCEPT ![p] = where]

Unwritten == UNCHANGED <<slips, link, rollback, had, supersededBy, raced, txVars, resolved>>

Start(p) ==
    /\ pc[p] = "idle"
    /\ Goto(p, "load")
    /\ Unwritten /\ UNCHANGED <<existing, search, parent, target>>

\* A live slip is the push's answer.
LoadByCommit(p) ==
    /\ pc[p] = "load"
    /\ \E i \in IF SlipsOf(Commit(p)) = {} THEN {None} ELSE SlipsOf(Commit(p)) :
          /\ existing' = [existing EXCEPT ![p] = i]
          /\ IF i # None /\ SlipLive(slips[i]) THEN Goto(p, "done") ELSE Goto(p, "search")
    /\ Unwritten /\ UNCHANGED <<search, parent, target>>

(***************************************************************************)
(* findAncestorSlipsWithProgressiveDepth, then findAncestorViaSquashMerge  *)
(* for every pull request the message names, each to two depths.  A search *)
(* is known by the pull request's place in the message, 0 for the commit's *)
(* own first-parent history, and its depth.                                *)
(***************************************************************************)
FirstSearch == [pull |-> 0, far |-> FALSE]

Squash(s) == s.pull # 0

NextPull(s) == [pull |-> s.pull + 1, far |-> FALSE]

\* Another depth of the same search, or the next pull request.
Deeper(s) == IF s.far THEN NextPull(s) ELSE [s EXCEPT !.far = TRUE]

Exhausted(p) == search[p].pull > Len(Mentions[Commit(p)])

\* The commits a search goes through.  A pull request's head is one of them.
Searches(c, s) ==
    LET Depth(x) == IF s.far THEN Far[x] ELSE Near[x]
        head     == PRHead[Mentions[c][s.pull]]
    IN  IF Squash(s) THEN <<head>> \o Depth(head) ELSE Depth(c)

\* Of a pull request's history only the first slip counts; D3.4: unless it is
\* the pushed commit's own, as after a fast-forward merge.
Found(c, s) ==
    LET hits == FindAllByCommits(Searches(c, s))
    IN  IF Squash(s)
        THEN {k \in hits : (\A n \in hits : k <= n) /\ Searches(c, s)[k] # c}
        ELSE hits

\* A slip of another branch is left alone, unless it was squash-merged.
Supersedes(p, i, squash) ==
    \/ squash
    \/ NoBranch \in {BranchOf[i], BranchOf[IdOf[p]]}
    \/ BranchOf[i] = BranchOf[IdOf[p]]

\* The ancestor the push abandons or promotes: the first that has not ended.
TargetOf(p, commits, found, squash) ==
    LET open == {k \in found : /\ slips[SlipAt(commits, k)] \notin SlipTerminal
                               /\ Supersedes(p, SlipAt(commits, k), squash)}
    IN  IF open = {} THEN None ELSE FirstAt(commits, open)

\* dropSelfAncestorLink: the push's own commit's slip is not recorded.
NearestOf(p, commits, found) ==
    LET others == {k \in found : SlipAt(commits, k) # existing[p]}
    IN  IF others = {} THEN NoLink ELSE EntryOf(FirstAt(commits, others))

\* One search: GitHub's answer and the slips of its commits.
SearchAncestors(p) ==
    /\ pc[p] = "search"
    /\ LET s       == search[p]
           commits == Searches(Commit(p), s)
           found   == Found(Commit(p), s)
       IN  IF Exhausted(p)
           THEN Goto(p, "persist") /\ UNCHANGED <<search, parent, target>>
           ELSE IF found # {}
           THEN /\ target' = [target EXCEPT ![p] = TargetOf(p, commits, found, Squash(s))]
                /\ parent' = [parent EXCEPT ![p] = NearestOf(p, commits, found)]
                /\ Goto(p, IF target'[p] = None THEN "persist" ELSE "supersede")
                /\ UNCHANGED search
           ELSE /\ search' = [search EXCEPT ![p] =
                       IF commits = <<>> \/ FindAllByCommits(commits) # {}
                       THEN NextPull(s) ELSE Deeper(s)]
                /\ UNCHANGED <<pc, parent, target>>
    /\ Unwritten /\ UNCHANGED existing

\* GitHub or the store fails the search: no ancestry at all when it is the
\* first-parent one, on to the next pull request otherwise.
SearchFails(p) ==
    /\ p \in Outage /\ pc[p] = "search" /\ ~Exhausted(p)
    /\ IF Squash(search[p])
       THEN search' = [search EXCEPT ![p] = NextPull(@)] /\ UNCHANGED pc
       ELSE Goto(p, "persist") /\ UNCHANGED search
    /\ Unwritten /\ UNCHANGED <<existing, parent, target>>

-----------------------------------------------------------------------------
(***************************************************************************)
(* AbandonSlip and PromoteSlip: a load, and a status write unless the slip *)
(* has ended.  They answer nil for a slip that has ended.                  *)
(***************************************************************************)
Ending(p) == IF Squash(search[p]) THEN "promoted" ELSE "abandoned"

\* The entry's copy of the status, once the call has answered nil.
Noted(p) ==
    parent' = [parent EXCEPT ![p] = IF @.id = target[p] THEN [@ EXCEPT !.status = Ending(p)] ELSE @]

Supersede(p) ==
    /\ pc[p] = "supersede"
    /\ IF Exists(target[p]) /\ slips[target[p]] \notin SlipTerminal
       THEN Goto(p, "write") /\ UNCHANGED parent
       ELSE /\ Goto(p, "persist")
            /\ IF Exists(target[p]) THEN Noted(p) ELSE UNCHANGED parent
    /\ Unwritten /\ UNCHANGED <<existing, search, target>>

\* A slip repaved since is not found: a warning.
SupersedeWrite(p) ==
    /\ pc[p] = "write"
    /\ Goto(p, "persist")
    /\ IF Exists(target[p])
       THEN /\ SetStatuses([slips EXCEPT ![target[p]] = Ending(p)])
            /\ supersededBy' = [supersededBy EXCEPT ![target[p]] = p]
            /\ Noted(p)
       ELSE UNCHANGED <<slips, had, supersededBy, parent>>
    /\ UNCHANGED <<link, rollback, raced, txVars, resolved, existing, search, target>>

SupersedeFails(p) ==
    /\ p \in Flaky /\ pc[p] \in {"supersede", "write"}
    /\ Goto(p, "persist")
    /\ Unwritten /\ UNCHANGED <<existing, search, parent, target>>

-----------------------------------------------------------------------------
(***************************************************************************)
(* persistSlipForPush, with the backstop of a duplicate.                   *)
(***************************************************************************)
Written(p) == /\ Goto(p, IF parent[p] = NoLink THEN "done" ELSE "link")
              /\ UNCHANGED <<existing, supersededBy, txVars>>

Refused(p, where) == /\ Goto(p, where) /\ TxEnds(p, {})
                     /\ UNCHANGED <<slips, link, rollback, had, supersededBy, raced, late, existing>>

Kept == UNCHANGED <<search, parent, target, resolved>>

\* createFreshSlip and resetSlipInPlace, whose link is written afterwards.
CreateSlip(p) ==
    /\ pc[p] = "persist" /\ existing[p] \in {None, IdOf[p]}
    /\ \/ Create(IdOf[p]) /\ Written(p)
       \/ Duplicate(IdOf[p], {}) /\ Refused(p, "backstop")
    /\ Kept

\* The links a push's own link write may end in.
LinkOutcomes(p) == IF p \in Flaky THEN BOOLEAN ELSE {TRUE}

\* repaveExistingSlip.  Without a parent to record, Repave first reads the link
\* to carry forward.
RepaveReads(p) ==
    /\ \/ pc[p] = "persist" /\ existing[p] \notin {None, IdOf[p]} /\ Goto(p, "delete")
       \/ pc[p] = "backstop repave" /\ Goto(p, "backstop delete")
    /\ ownLink' = [ownLink EXCEPT ![p] = IF parent[p] = NoLink THEN link[existing[p]] ELSE NoLink]
    /\ late' = late \ {p}
    /\ UNCHANGED <<slips, link, rollback, had, supersededBy, raced, existing, seen>>
    /\ Kept

\* The snapshot of the repoint, inside the transaction: nobody else sees the
\* DELETE and the INSERT that came before it.
RepointReads(p) ==
    /\ \/ pc[p] = "delete" /\ Goto(p, "replace")
       \/ pc[p] = "backstop delete" /\ Goto(p, "backstop replace")
    /\ seen' = [seen EXCEPT ![p] = {i \in Ids : link[i].id = existing[p]}]
    /\ UNCHANGED <<slips, link, rollback, had, supersededBy, raced, existing, ownLink, late>>
    /\ Kept

\* The writes, whose conditions hold from when the DELETE and the INSERT take
\* their locks.  A slip that went live is the push's answer, if it is still
\* there to be loaded; a duplicate goes to the backstop, once.
RepaveSlip(p) ==
    /\ pc[p] \in {"replace", "backstop replace"}
    /\ \/ /\ \E linked \in LinkOutcomes(p) : Repave(p, linked)
          /\ Goto(p, "done") /\ UNCHANGED <<existing, supersededBy>>
       \/ Exists(existing[p]) /\ slips[existing[p]] \notin Repaveable /\ Refused(p, "reload")
       \/ /\ Exists(existing[p]) => slips[existing[p]] \in Repaveable
          /\ Duplicate(IdOf[p], {existing[p]})
          /\ Refused(p, IF pc[p] = "replace" THEN "backstop" ELSE "failed")
    /\ Kept

\* handleDuplicateSlipBackstop over the conflicting slip.  (SlipPush shows that
\* there is one.)
Backstop(p) ==
    /\ pc[p] = "backstop"
    /\ \E i \in SlipsOf(Commit(p)) :
          /\ existing' = [existing EXCEPT ![p] = i]
          /\ Goto(p, IF SlipLive(slips[i]) THEN "done"
                     ELSE IF i = IdOf[p] THEN "backstop reset" ELSE "backstop repave")
    /\ Unwritten /\ UNCHANGED <<search, parent, target>>

BackstopReset(p) ==
    /\ pc[p] = "backstop reset"
    /\ \/ Create(IdOf[p]) /\ Written(p)
       \/ Duplicate(IdOf[p], {}) /\ Refused(p, "failed")
    /\ Kept

Reload(p) ==
    /\ pc[p] = "reload"
    /\ Goto(p, IF Exists(existing[p]) THEN "done" ELSE "failed")
    /\ Unwritten /\ UNCHANGED <<existing, search, parent, target>>

\* Mutant: no foreign key on the link's own slip.
AnyMayLink(i) == TRUE

\* fk_ancestry_slip
MayLink(i) == Exists(i)

\* writeAncestryLink: an upsert that fk_ancestry_slip refuses when the slip has
\* been repaved meanwhile; a failure is a warning.
WriteAncestryLink(p) ==
    /\ pc[p] = "link"
    /\ \E linked \in LinkOutcomes(p) :
          IF linked /\ MayLink(IdOf[p])
          THEN /\ link' = [link EXCEPT ![IdOf[p]] = parent[p]]
               /\ late' = late \cup WithoutLink(IdOf[p])
          ELSE UNCHANGED <<link, late>>
    /\ Goto(p, "done")
    /\ UNCHANGED <<slips, rollback, had, supersededBy, raced, existing, ownLink, seen>>
    /\ Kept

\* The push dies or its write fails; a redelivery is another push of its id.
PushFails(p) ==
    /\ p \in Flaky /\ pc[p] \notin {"idle", "absent", "done", "failed", "link"}
    /\ Refused(p, "failed")
    /\ Kept

Push(p) ==
    \/ Start(p) \/ LoadByCommit(p) \/ SearchAncestors(p) \/ SearchFails(p)
    \/ Supersede(p) \/ SupersedeWrite(p) \/ SupersedeFails(p)
    \/ CreateSlip(p) \/ RepaveReads(p) \/ RepointReads(p) \/ RepaveSlip(p)
    \/ Backstop(p) \/ BackstopReset(p) \/ Reload(p)
    \/ WriteAncestryLink(p) \/ PushFails(p)

-----------------------------------------------------------------------------
(***************************************************************************)
(* Runs, rollback workflows, and the resolution of slips.                  *)
(***************************************************************************)
\* Unguarded: a completion check that read the slip before it was ended writes
\* over the status that ended it.
UpdateSlipStatus(i, s) ==
    /\ Exists(i) /\ slips[i] # s
    /\ SetStatuses([slips EXCEPT ![i] = s])
    /\ UNCHANGED <<link, rollback, pushVars, txVars, resolved, supersededBy, raced>>

\* Mutant: the upsert of RecordRollback has no WHERE.
ReplacesAny(was) == TRUE

\* An exit handler that is run again replaces only a failure.
Replaces(was) == was = "failed"

\* RecordRollback: refused by the foreign key when the slip is gone.
RecordRollback(h, s) ==
    /\ Exists(h[1])
    /\ rollback[h] = None \/ Replaces(rollback[h])
    /\ rollback' = [rollback EXCEPT ![h] = s]
    /\ UNCHANGED <<slips, link, pushVars, txVars, resolved, had, supersededBy, raced>>

\* Mutant: LoadLiveByCommit.
ByImageTagLive(text) ==
    {i \in SlipsOf(text) : slips[i] \notin {"abandoned", "promoted", "compensated"}}

\* LoadByCommit, and not LoadLiveByCommit: the image of a superseded run may
\* still be deployed.  The text is compared with whole commits: the abbreviation
\* of one, which a tag may bear too, is that of no slip.
ByImageTag(text) == SlipsOf(text)

\* FindByCommits: the nearest slip that was not superseded.
ByAncestry(ref) ==
    LET commits == <<ref>> \o Near[ref]
        open    == {k \in FindAllByCommits(commits) :
                       slips[SlipAt(commits, k)] \notin {"abandoned", "promoted", "compensated"}}
    IN  IF open = {} THEN {} ELSE {FirstAt(commits, open)}

\* ResolveSlip reads by ancestry, then by the image tag; GitHub may fail.
ResolveByAncestry(r) ==
    /\ resolved[r] = "asked"
    /\ \E answer \in {"tag"} \cup (IF ByAncestry(RefOf[r]) = {} THEN {} ELSE {"found"}) :
          resolved' = [resolved EXCEPT ![r] = answer]
    /\ UNCHANGED <<slips, link, rollback, pushVars, txVars, had, supersededBy, raced>>

\* A load that fails is answered like one that finds nothing.
ResolveByImageTag(r) ==
    /\ resolved[r] = "tag"
    /\ \E fails \in IF r \in LoadFails THEN BOOLEAN ELSE {FALSE} :
          resolved' = [resolved EXCEPT ![r] =
                          IF fails \/ ByImageTag(TagOf[r]) = {} THEN None ELSE "found"]
    /\ UNCHANGED <<slips, link, rollback, pushVars, txVars, had, supersededBy, raced>>

-----------------------------------------------------------------------------
Init ==
    /\ slips = [i \in Ids |-> None] /\ link = [i \in Ids |-> NoLink]
    /\ rollback = [h \in Handlers |-> None]
    /\ \E cast \in Casts :
          /\ pc = [p \in Pushes |-> IF p \in cast THEN "idle" ELSE "absent"]
          /\ resolved = [r \in Resolutions |-> IF r \in cast THEN "asked" ELSE "absent"]
    /\ existing = [p \in Pushes |-> None] /\ target = [p \in Pushes |-> None]
    /\ search = [p \in Pushes |-> FirstSearch]
    /\ parent = [p \in Pushes |-> NoLink] /\ ownLink = [p \in Pushes |-> NoLink]
    /\ seen = [p \in Pushes |-> {}]
    /\ had = [i \in Ids |-> {}] /\ supersededBy = [i \in Ids |-> None]
    /\ raced = {} /\ late = {}

Next ==
    \/ \E p \in Pushes : Push(p)
    \/ \E i \in Ids : \E s \in RunStatuses[i] : UpdateSlipStatus(i, s)
    \/ \E h \in Handlers, s \in RollbackStatuses : RecordRollback(h, s)
    \/ \E r \in Resolutions : ResolveByAncestry(r) \/ ResolveByImageTag(r)

Spec == Init /\ [][Next]_vars

-----------------------------------------------------------------------------
(***************************************************************************)
(* Properties.                                                             *)
(***************************************************************************)
Places == {"absent", "idle", "load", "search", "supersede", "write", "persist", "link",
           "backstop", "backstop reset", "backstop repave", "reload", "done", "failed"} \cup Repaving

\* A commit has one slip at most, and links and rollback records hang on slips
\* that exist (fk_ancestry_slip, fk_slip_rollbacks_slip).
TypeOK ==
    /\ slips \in [Ids -> SlipStatuses \cup {None}]
    /\ link \in [Ids -> Entries \cup {NoLink}]
    /\ rollback \in [Handlers -> RollbackStatuses \cup {None}]
    /\ pc \in [Pushes -> Places]
    /\ existing \in [Pushes -> Ids \cup {None}]
    /\ target \in [Pushes -> Ids \cup {None}]
    /\ resolved \in [Resolutions -> {"absent", "asked", "tag", "found", None}]
    /\ parent \in [Pushes -> Entries \cup {NoLink}]
    /\ ownLink \in [Pushes -> Entries \cup {NoLink}]
    /\ seen \in [Pushes -> SUBSET Ids] /\ late \subseteq Pushes
    /\ \A c \in Commits : Cardinality(SlipsOf(c)) <= 1
    /\ \A i \in Ids : link[i] # NoLink => Exists(i)
    /\ \A h \in Handlers : rollback[h] # None => Exists(h[1])

\* SlipStore.Repave: descendants are repointed "rather than left dangling".  A
\* recorded parent that is gone was repaved while a push that had found it, or a
\* repave that had read a link to it, was still to write its own link, or did so
\* after the repoint had looked: no other order of pushes cuts a lineage.
DanglesOnlyByRace ==
    \A i \in Ids : link[i] # NoLink => Exists(link[i].id) \/ link[i].id \in raced

\* A repave loses no lineage hop that was recorded before it began: where the
\* slip it replaces had a parent, so has its successor, even if GitHub could not
\* be asked.  The one hop it may lose is that of a slip whose own push writes
\* its link between the repave's read of it and its DELETE.
LineageSurvivesRepave ==
    [][\A p \in Pushes \ Flaky, i \in Ids :
          pc'[p] # pc[p] /\ Exists(i) /\ ~Exists(i)' /\ link[i] # NoLink /\ p \notin late
             => link'[IdOf[p]] # NoLink]_vars

\* Through any number of repaves an entry describes one run.  Its branch is that
\* of the run it names, so that ResolveAncestry, which selects the next hop by
\* both, goes on from there; and no failed step stands beside a run that did not
\* fail.
EntriesNameOneRun ==
    \A i \in Ids : link[i] # NoLink =>
        /\ Hop(link[i].branch, link[i].id) = link[link[i].id]
        /\ link[i].failedStep => "failed" \in had[link[i].id]

\* D3.4: no slip is recorded as a descendant of a run of its own commit, which
\* a repave of it would have removed.
NoOwnAncestor ==
    \A i \in Ids : link[i] # NoLink => CommitOf[link[i].id] # CommitOf[i]

\* The recorded lineage, through every order of pushes and repaves.
LinksAreSound == DanglesOnlyByRace /\ EntriesNameOneRun /\ NoOwnAncestor

\* A slip that was abandoned or promoted for a push is not ended for nothing:
\* once that push returned without an error, its commit has a slip, its own or
\* the one it was deduplicated onto.
SupersededHasSuccessor ==
    \A i \in Ids : supersededBy[i] # None /\ pc[supersededBy[i]] = "done"
        => SlipsOf(Commit(supersededBy[i])) # {}

\* A rollback that was recorded as done stays so for as long as its slip is
\* there, whatever its handler reports when it is run again.
RollbackSticks ==
    [][\A h \in Handlers : rollback[h] = "success" /\ Exists(h[1])' => rollback'[h] = "success"]_vars

\* resolve.go: an image whose tag bears a commit that has had a slip is attached
\* to one, also when its run was abandoned, promoted or repaved since, unless the
\* store could not be asked.
ImageAttaches ==
    [][\A r \in Resolutions \ LoadFails : resolved[r] # None /\ resolved'[r] = None
          => \A i \in Ids : CommitOf[i] = TagOf[r] => had[i] = {}]_vars
=============================================================================
