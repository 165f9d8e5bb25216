-------------------------- MODULE SlipAncestryProofs --------------------------
(***************************************************************************)
(* Proofs about SlipAncestry, for any commits, any pushes in any order,    *)
(* any failures of GitHub and of the writes.                               *)
(*                                                                         *)
(* The invariant: a commit has one slip at most and, once it had one,      *)
(* always one; what a push found for its commit is a slip of its commit,   *)
(* and what it is to record as its parent is of another one, so that a     *)
(* repave, which stays within a commit, can always tell the links that     *)
(* name the slip it removes from the link it writes; an entry, recorded,   *)
(* about to be, or read to be carried forward, describes one run.          *)
(***************************************************************************)
EXTENDS SlipAncestry, FiniteSetTheorems, WellFoundedInduction, TLAPS

-----------------------------------------------------------------------------
(***************************************************************************)
(* The invariant: the store's part, and each push's.                       *)
(***************************************************************************)
StoreTypeOK ==
    /\ slips \in [Ids -> SlipStatuses \cup {None}]
    /\ link \in [Ids -> Entries \cup {NoLink}]
    /\ rollback \in [Handlers -> RollbackStatuses \cup {None}]
    /\ had \in [Ids -> SUBSET SlipStatuses]
    /\ raced \subseteq Ids

PushTypeOK ==
    /\ pc \in [Pushes -> Places]
    /\ existing \in [Pushes -> Ids \cup {None}]
    /\ search \in [Pushes -> [pull : Nat, far : BOOLEAN]]
    /\ target \in [Pushes -> Ids \cup {None}]
    /\ parent \in [Pushes -> Entries \cup {NoLink}]
    /\ ownLink \in [Pushes -> Entries \cup {NoLink}]
    /\ seen \in [Pushes -> SUBSET Ids]
    /\ late \subseteq Pushes
    /\ supersededBy \in [Ids -> Pushes \cup {None}]

\* uq_routing_slips_commit
OneSlipPerCommit ==
    \A i, j \in Ids : Exists(i) /\ Exists(j) /\ CommitOf[i] = CommitOf[j] => i = j

\* What hangs on a slip goes with it.
RowsHang ==
    /\ \A i \in Ids : link[i] # NoLink => Exists(i)
    /\ \A h \in Handlers : rollback[h] # None => Exists(h[1])

HasSlip(c) == \E j \in Ids : Exists(j) /\ CommitOf[j] = c

\* A slip that has failed is known to have, and a commit that had a slip has one.
SlipsStay == \A i \in Ids :
    /\ slips[i] = "failed" => "failed" \in had[i]
    /\ had[i] # {} => HasSlip(CommitOf[i])

\* An entry that names the run of another commit, and describes it alone.
Sound(l, c) ==
    /\ CommitOf[l.id] # c
    /\ l.branch = BranchOf[l.id]
    /\ l.failedStep => "failed" \in had[l.id]
    /\ Exists(l.id) \/ l.id \in raced

LinksSound == \A i \in Ids : link[i] # NoLink => Sound(link[i], CommitOf[i])

StoreInv == StoreTypeOK /\ OneSlipPerCommit /\ RowsHang /\ SlipsStay /\ LinksSound

\* What push p found is of its own commit, what it will record or carry forward
\* is of another (a push that is over records nothing), and its commit has a slip
\* once it wrote one or was answered with one.
PushKnows(p) ==
    /\ existing[p] # None => CommitOf[existing[p]] = Commit(p)
    /\ pc[p] \in Repaving \cup {"backstop repave", "reload"} => existing[p] # None
    /\ pc[p] \in Repaving \cup {"backstop repave"} => existing[p] # IdOf[p]
    /\ pc[p] \in {"supersede", "write"} => target[p] # None
    /\ pc[p] \in {"link", "done"} => HasSlip(Commit(p))
    /\ parent[p] # NoLink /\ pc[p] \notin {"done", "failed"} => Sound(parent[p], Commit(p))
    /\ ownLink[p] # NoLink => pc[p] \in Repaving /\ Sound(ownLink[p], Commit(p))

LineageInv ==
    /\ StoreInv /\ PushTypeOK
    /\ resolved \in [Resolutions -> {"absent", "asked", "tag", "found", None}]
    /\ \A p \in Pushes : PushKnows(p)

-----------------------------------------------------------------------------
(***************************************************************************)
(* What the store's writes do.                                             *)
(***************************************************************************)

LEMMA EntriesAreLinks ==
    ASSUME NEW l \in Entries \cup {NoLink}
    PROVE  /\ l # NoLink => l \in Entries /\ l.id \in Ids
           /\ l.id \in Ids => l # NoLink
BY AncestryAssumption DEF Entries, NoLink

\* No slip is forgotten: a commit keeps a slip, and a slip that goes away is
\* remembered in "raced" when a push that is not one of
\* these movers still means to link to it.
Keeps(movers) ==
    /\ \A i \in Ids : had[i] \subseteq had'[i]
    /\ raced \subseteq raced'
    /\ \A i \in Ids : Exists(i) => HasSlip(CommitOf[i])'
    /\ \A i \in Ids, q \in Pushes \ movers :
          Exists(i) /\ pc[q] \notin {"done", "failed"} /\ i \in {parent[q].id, ownLink[q].id}
             => Exists(i)' \/ i \in raced'

\* What a push knows stays true while other steps are taken.
LEMMA KnowsStays ==
    ASSUME PushTypeOK, NEW movers, NEW q \in Pushes \ movers, PushKnows(q), Keeps(movers),
           pc'[q] = pc[q], existing'[q] = existing[q], target'[q] = target[q],
           parent'[q] = parent[q], ownLink'[q] = ownLink[q]
    PROVE  PushKnows(q)'
<1>1. HasSlip(Commit(q)) => HasSlip(Commit(q))'
  BY DEF Keeps, HasSlip
<1>2. ASSUME NEW l \in {parent[q], ownLink[q]}, l # NoLink, pc[q] \notin {"done", "failed"},
             Sound(l, Commit(q))
      PROVE  /\ CommitOf[l.id] # Commit(q) /\ l.branch = BranchOf[l.id]
             /\ l.failedStep => "failed" \in had'[l.id]
             /\ slips'[l.id] # None \/ l.id \in raced'
  <2>1. l.id \in Ids
    BY <1>2, EntriesAreLinks DEF PushTypeOK
  <2>2. Exists(l.id) => Exists(l.id)' \/ l.id \in raced'
    BY <1>2, <2>1 DEF Keeps
  <2> QED
    BY <1>2, <2>1, <2>2 DEF Sound, Keeps, Exists
<1>3. parent[q] # NoLink /\ pc[q] \notin {"done", "failed"} => Sound(parent[q], Commit(q))'
  BY <1>2 DEF PushKnows, Sound, Exists, Commit
<1>4. ownLink[q] # NoLink => Sound(ownLink[q], Commit(q))'
  BY <1>2 DEF PushKnows, Sound, Exists, Commit, Repaving
<1> QED
  BY <1>1, <1>3, <1>4 DEF PushKnows, Sound, Commit

\* SetStatuses remembers the statuses it writes; where no commit loses its
\* slip, what is known of slips stays.
LEMMA StatusesSet ==
    ASSUME StoreInv, NEW new \in [Ids -> SlipStatuses \cup {None}], SetStatuses(new),
           \A i \in Ids : Exists(i) => HasSlip(CommitOf[i])'
    PROVE  /\ slips' \in [Ids -> SlipStatuses \cup {None}]
           /\ had' \in [Ids -> SUBSET SlipStatuses]
           /\ \A i \in Ids : had[i] \subseteq had'[i]
           /\ SlipsStay'
<1>1. /\ slips' = new
      /\ had' = [i \in Ids |-> had[i] \cup ({new[i]} \cap {"in_progress", "failed"})]
  BY DEF SetStatuses
<1>2. \A i \in Ids : had[i] \subseteq SlipStatuses /\ {new[i]} \cap {"in_progress", "failed"} \subseteq SlipStatuses
  BY DEF StoreInv, StoreTypeOK, SlipStatuses
<1>3. had' \in [Ids -> SUBSET SlipStatuses]
  BY <1>1, <1>2
<1>4. \A i \in Ids : had[i] \subseteq had'[i]
  BY <1>1
<1>5. SlipsStay'
  <2> SUFFICES ASSUME NEW i \in Ids
               PROVE  /\ slips'[i] = "failed" => "failed" \in had'[i]
                      /\ had'[i] # {} => HasSlip(CommitOf[i])'
    BY DEF SlipsStay, Exists
  <2>1. slips'[i] = "failed" => "failed" \in had'[i]
    BY <1>1
  <2>2. had'[i] # {} => had[i] # {} \/ Exists(i)'
    BY <1>1, AncestryAssumption DEF Exists, None
  <2>3. had[i] # {} => HasSlip(CommitOf[i])'
    BY DEF StoreInv, SlipsStay, HasSlip
  <2>4. Exists(i)' => HasSlip(CommitOf[i])'
    BY DEF HasSlip
  <2> QED
    BY <2>1, <2>2, <2>3, <2>4
<1> QED
  BY <1>1, <1>3, <1>4, <1>5

\* A new status for a slip that is there.
LEMMA StatusWritten ==
    ASSUME StoreInv, NEW i \in Ids, Exists(i), NEW s \in SlipStatuses,
           SetStatuses([slips EXCEPT ![i] = s]), UNCHANGED <<link, rollback, raced>>
    PROVE  /\ StoreInv'
           /\ \A movers : Keeps(movers)
<1>1. /\ slips' = [slips EXCEPT ![i] = s]
      /\ [slips EXCEPT ![i] = s] \in [Ids -> SlipStatuses \cup {None}]
  BY DEF SetStatuses, StoreInv, StoreTypeOK
<1>2. \A j \in Ids : Exists(j)' <=> Exists(j)
  BY <1>1, AncestryAssumption DEF Exists, StoreInv, StoreTypeOK
<1>3. \A j \in Ids : Exists(j) => HasSlip(CommitOf[j])'
  BY <1>2 DEF HasSlip
<1>4. /\ had' \in [Ids -> SUBSET SlipStatuses]
      /\ \A j \in Ids : had[j] \subseteq had'[j]
      /\ SlipsStay'
  BY <1>1, <1>3, StatusesSet
<1>5. \A movers : Keeps(movers)
  BY <1>2, <1>3, <1>4 DEF Keeps
<1>6. StoreTypeOK'
  BY <1>1, <1>4 DEF StoreInv, StoreTypeOK
<1>7. OneSlipPerCommit'
  BY <1>2 DEF StoreInv, OneSlipPerCommit
<1>8. RowsHang'
  BY <1>2, AncestryAssumption DEF StoreInv, RowsHang
<1>10. LinksSound'
  BY <1>2, <1>4, EntriesAreLinks DEF StoreInv, StoreTypeOK, LinksSound, Sound
<1> QED
  BY <1>4, <1>5, <1>6, <1>7, <1>8, <1>10 DEF StoreInv

\* A slip that is written under the unique commit index.
LEMMA Created ==
    ASSUME StoreInv, NEW c \in Ids, Create(c)
    PROVE  /\ StoreInv' /\ HasSlip(CommitOf[c])'
           /\ \A movers : Keeps(movers)
<1>1. /\ slips' = [slips EXCEPT ![c] = "in_progress"]
      /\ [slips EXCEPT ![c] = "in_progress"] \in [Ids -> SlipStatuses \cup {None}]
      /\ UNCHANGED <<link, rollback, raced>>
  BY DEF Create, SetStatuses, StoreInv, StoreTypeOK, SlipStatuses
<1>2. /\ Exists(c)'
      /\ \A j \in Ids \ {c} : Exists(j)' <=> Exists(j)
  BY <1>1, AncestryAssumption DEF Exists, StoreInv, StoreTypeOK, SlipStatuses
<1>3. \A j \in Ids : Exists(j) => HasSlip(CommitOf[j])'
  BY <1>2 DEF HasSlip
<1>4. /\ had' \in [Ids -> SUBSET SlipStatuses]
      /\ \A j \in Ids : had[j] \subseteq had'[j]
      /\ SlipsStay'
  BY <1>1, <1>3, StatusesSet DEF Create
<1>5. \A movers : Keeps(movers)
  BY <1>1, <1>2, <1>3, <1>4 DEF Keeps
<1>6. StoreTypeOK'
  BY <1>1, <1>4 DEF StoreInv, StoreTypeOK
<1>7. OneSlipPerCommit'
  <2>1. \A j \in Ids : Exists(j) /\ CommitOf[j] = CommitOf[c] => j = c
    BY DEF Create, Duplicate, SlipsOf
  <2> QED
    BY <1>2, <2>1 DEF StoreInv, OneSlipPerCommit
<1>8. RowsHang'
  BY <1>1, <1>2, AncestryAssumption DEF StoreInv, RowsHang
<1>9. LinksSound'
  BY <1>1, <1>2, <1>4, EntriesAreLinks DEF StoreInv, StoreTypeOK, LinksSound, Sound
<1> QED
  BY <1>2, <1>4, <1>5, <1>6, <1>7, <1>8, <1>9 DEF StoreInv, HasSlip

\* The links after push p repaved the slip it found.
LEMMA RepavedLinks ==
    ASSUME StoreInv, PushTypeOK, NEW p \in Pushes, NEW old \in Ids, NEW c \in Ids \ {old},
           existing[p] = old, IdOf[p] = c, NEW linked, Repave(p, linked)
    PROVE  /\ link' \in [Ids -> Entries \cup {NoLink}]
           /\ link'[c] \in {parent[p], ownLink[p], link[c]}
           /\ link'[old] = NoLink
           /\ \A i \in Ids \ {c, old} :
                 \/ link'[i] = link[i] /\ (link[i].id # old \/ ~Exists(old) \/ old \in raced')
                 \/ /\ link[i].id = old
                    /\ link'[i] = [id |-> c, branch |-> BranchOf[c], status |-> "in_progress",
                                   failedStep |-> FALSE]
<1> DEFINE repointed == [id |-> c, branch |-> BranchOf[c], status |-> "in_progress", failedStep |-> FALSE]
           links == IF Exists(old) THEN Removed(p) ELSE [link EXCEPT ![c] = Linked(c, parent[p])]
<1>1. /\ repointed \in Entries
      /\ link \in [Ids -> Entries \cup {NoLink}]
      /\ parent[p] \in Entries \cup {NoLink} /\ ownLink[p] \in Entries \cup {NoLink}
  BY DEF Entries, SlipStatuses, StoreInv, StoreTypeOK, PushTypeOK
<1>2. link' = IF linked THEN links ELSE [links EXCEPT ![c] = link[c]]
  BY DEF Repave
<1>3. CASE Exists(old)
  <2>1. /\ links \in [Ids -> Entries \cup {NoLink}]
        /\ links[c] \in {parent[p], ownLink[p], link[c]}
        /\ links[old] = NoLink
        /\ \A i \in Ids \ {c, old} :
              links[i] = IF link[i].id = old /\ i \in seen[p] THEN repointed ELSE link[i]
    BY <1>1, <1>3 DEF Removed, Repoint, Linked, Carried
  <2> HIDE DEF links, repointed
  <2>2. link' \in [Ids -> Entries \cup {NoLink}] /\ link'[c] \in {parent[p], ownLink[p], link[c]}
    BY <1>1, <1>2, <2>1
  <2>3. \A i \in Ids \ {c} : link'[i] = links[i]
    BY <1>1, <1>2, <2>1
  <2>4. \A i \in Ids : link[i].id = old /\ i \notin seen[p] => old \in raced'
    BY <1>3 DEF Repave, Missed
  <2> QED
    BY <2>1, <2>2, <2>3, <2>4 DEF repointed
<1>4. CASE ~Exists(old)
  <2>1. link[old] = NoLink
    BY <1>4 DEF StoreInv, RowsHang
  <2>2. /\ links \in [Ids -> Entries \cup {NoLink}]
        /\ links[c] \in {parent[p], link[c]}
        /\ \A i \in Ids \ {c} : links[i] = link[i]
    BY <1>1, <1>4 DEF Linked
  <2> HIDE DEF links, repointed
  <2>3. link' \in [Ids -> Entries \cup {NoLink}] /\ link'[c] \in {parent[p], link[c]}
    BY <1>1, <1>2, <2>2
  <2>4. \A i \in Ids \ {c} : link'[i] = link[i]
    BY <1>1, <1>2, <2>2
  <2> QED
    BY <1>4, <2>1, <2>3, <2>4
<1> QED
  BY <1>3, <1>4

\* A slip that is repaved by another of its commit.
LEMMA Repaved ==
    ASSUME StoreInv, PushTypeOK, NEW p \in Pushes, NEW old \in Ids, old = existing[p],
           NEW c, c = IdOf[p], c # old, CommitOf[old] = CommitOf[c],
           parent[p] # NoLink => Sound(parent[p], CommitOf[c]),
           ownLink[p] # NoLink => Sound(ownLink[p], CommitOf[c]),
           NEW linked, Repave(p, linked)
    PROVE  StoreInv' /\ HasSlip(CommitOf[c])' /\ Keeps({p})
<1> c \in Ids
  BY AncestryAssumption
<1>1. /\ slips' = [slips EXCEPT ![old] = None, ![c] = "in_progress"]
      /\ [slips EXCEPT ![old] = None, ![c] = "in_progress"] \in [Ids -> SlipStatuses \cup {None}]
  BY DEF Repave, SetStatuses, StoreInv, StoreTypeOK, SlipStatuses
<1>2. /\ Exists(c)' /\ ~Exists(old)'
      /\ \A j \in Ids \ {c, old} : Exists(j)' <=> Exists(j)
  BY <1>1, AncestryAssumption DEF Exists, StoreInv, StoreTypeOK, SlipStatuses
<1>3. \A j \in Ids : Exists(j) => HasSlip(CommitOf[j])'
  BY <1>2 DEF HasSlip
<1>4. /\ had' \in [Ids -> SUBSET SlipStatuses]
      /\ \A j \in Ids : had[j] \subseteq had'[j]
      /\ SlipsStay'
  BY <1>1, <1>3, StatusesSet DEF Repave
<1>5. /\ raced \subseteq raced' /\ raced' \subseteq Ids
      /\ Exists(old) /\ Holding(old) # {} => old \in raced'
  BY DEF Repave, StoreInv, StoreTypeOK
<1>6. Keeps({p})
  <2> SUFFICES ASSUME NEW i \in Ids, NEW q \in Pushes \ {p}, Exists(i),
                      pc[q] \notin {"done", "failed"}, i \in {parent[q].id, ownLink[q].id}
               PROVE  Exists(i)' \/ i \in raced'
    BY <1>3, <1>4, <1>5 DEF Keeps
  <2>1. q \in Holding(i)
    BY DEF Holding
  <2> QED
    BY <1>2, <1>5, <2>1
<1>7. /\ link' \in [Ids -> Entries \cup {NoLink}]
      /\ link'[c] \in {parent[p], ownLink[p], link[c]}
      /\ link'[old] = NoLink
      /\ \A i \in Ids \ {c, old} :
            \/ link'[i] = link[i] /\ (link[i].id # old \/ ~Exists(old) \/ old \in raced')
            \/ /\ link[i].id = old
               /\ link'[i] = [id |-> c, branch |-> BranchOf[c], status |-> "in_progress",
                              failedStep |-> FALSE]
  BY RepavedLinks
<1>8. StoreTypeOK'
  BY <1>1, <1>4, <1>5, <1>7 DEF StoreInv, StoreTypeOK, Repave
<1>9. OneSlipPerCommit'
  <2>1. \A j \in Ids \ {old} : Exists(j) /\ CommitOf[j] = CommitOf[c] => j = c
    BY DEF Repave, Duplicate, SlipsOf
  <2> QED
    BY <1>2, <2>1 DEF StoreInv, OneSlipPerCommit
<1>10. RowsHang'
  <2>1. ASSUME NEW i \in Ids, link'[i] # NoLink
        PROVE  Exists(i)'
    <3>1. CASE i \in {c, old}
      BY <1>2, <1>7, <2>1, <3>1
    <3>2. CASE i \notin {c, old}
      <4>1. link[i] # NoLink
        BY <1>7, <2>1, <3>2, AncestryAssumption DEF NoLink
      <4> QED
        BY <1>2, <3>2, <4>1 DEF StoreInv, RowsHang
    <3> QED
      BY <3>1, <3>2
  <2>2. ASSUME NEW h \in Handlers, rollback'[h] # None
        PROVE  Exists(h[1])'
    <3>1. h[1] # old /\ rollback[h] # None
      BY <2>2 DEF Repave
    <3> QED
      BY <1>2, <3>1, AncestryAssumption DEF StoreInv, RowsHang
  <2> QED
    BY <2>1, <2>2 DEF RowsHang
<1>11. LinksSound'
  <2> DEFINE StillSound(l, d) ==
        /\ CommitOf[l.id] # d
        /\ l.branch = BranchOf[l.id]
        /\ l.failedStep => "failed" \in had'[l.id]
        /\ slips'[l.id] # None \/ l.id \in raced'
  <2>1. \A l \in Entries : \A d :
           Sound(l, d) /\ (l.id # old \/ ~Exists(old) \/ old \in raced') => StillSound(l, d)
    <3> SUFFICES ASSUME NEW l \in Entries, NEW d, Sound(l, d),
                        l.id # old \/ ~Exists(old) \/ old \in raced'
                 PROVE  StillSound(l, d)
      OBVIOUS
    <3>1. l.id \in Ids
      BY DEF Entries
    <3>2. slips[l.id] # None => slips'[l.id] # None \/ l.id \in raced'
      BY <1>2, <3>1 DEF Exists
    <3> QED
      BY <1>4, <1>5, <3>1, <3>2 DEF Sound, Exists
  <2>2. link \in [Ids -> Entries \cup {NoLink}] /\ \A j \in Ids : link[j] # NoLink => Sound(link[j], CommitOf[j])
    BY DEF StoreInv, StoreTypeOK, LinksSound
  <2> SUFFICES ASSUME NEW i \in Ids, link'[i] # NoLink
               PROVE  StillSound(link'[i], CommitOf[i])
    BY DEF LinksSound, Sound, Exists
  <2>3. CASE i = c
    <3>1. Sound(link'[c], CommitOf[c]) /\ link'[c] \in Entries
      BY <1>7, <2>2, <2>3 DEF PushTypeOK
    <3>2. link'[c].id # old
      BY <3>1 DEF Sound
    <3> QED
      BY <2>1, <2>3, <3>1, <3>2
  <2>4. CASE i = old
    BY <1>7, <2>4
  <2>5. CASE /\ i \notin {c, old} /\ link'[i] = link[i]
             /\ link[i].id # old \/ ~Exists(old) \/ old \in raced'
    <3>1. Sound(link[i], CommitOf[i]) /\ link[i] \in Entries
      BY <2>2, <2>5
    <3> QED
      BY <2>1, <2>5, <3>1
  <2>6. CASE /\ i \notin {c, old} /\ link[i].id = old
             /\ link'[i] = [id |-> c, branch |-> BranchOf[c], status |-> "in_progress", failedStep |-> FALSE]
    <3>1. link[i] # NoLink
      BY <2>6, AncestryAssumption DEF NoLink
    <3>2. CommitOf[old] # CommitOf[i]
      BY <2>2, <2>6, <3>1 DEF Sound
    <3> QED
      BY <1>2, <2>6, <3>2 DEF Exists
  <2> QED
    BY <1>7, <2>3, <2>4, <2>5, <2>6
<1> QED
  BY <1>2, <1>4, <1>6, <1>8, <1>9, <1>10, <1>11 DEF StoreInv, HasSlip

\* Nothing is written.
LEMMA NothingWritten ==
    ASSUME StoreInv, UNCHANGED <<slips, link, rollback, had, raced>>
    PROVE  StoreInv' /\ \A movers : Keeps(movers)
<1>1. \A i \in Ids : Exists(i) => HasSlip(CommitOf[i])
  BY DEF HasSlip
<1> QED
  BY <1>1 DEF StoreInv, StoreTypeOK, OneSlipPerCommit, RowsHang, SlipsStay, HasSlip, LinksSound,
              Sound, Exists, Keeps

-----------------------------------------------------------------------------
(***************************************************************************)
(* What a search finds.                                                    *)
(***************************************************************************)
LEMMA MinIsMember ==
    ASSUME NEW S \in SUBSET Nat, S # {}
    PROVE  Min(S) \in S
<1>1. PICK x \in S : \A y \in S : ~(<<y, x>> \in OpToRel(<, Nat))
  BY NatLessThanWellFounded, WFMin
<1>2. \A y \in S : x <= y
  <2> TAKE y \in S
  <2>1. ~(y < x)
    BY <1>1 DEF OpToRel
  <2> QED
    BY <2>1
<1> QED
  BY <1>2 DEF Min

\* FirstAt answers with a slip of one of the commits.
LEMMA FirstIsSlip ==
    ASSUME NEW commits \in Seq(Commits), NEW places \in SUBSET FindAllByCommits(commits),
           places # {}
    PROVE  LET i == FirstAt(commits, places)
           IN  /\ i \in Ids /\ Exists(i)
               /\ \E k \in places : CommitOf[i] = commits[k] /\ i = SlipAt(commits, k)
<1>1. places \subseteq Nat
  BY DEF FindAllByCommits
<1>2. Min(places) \in places
  BY <1>1, MinIsMember
<1>3. PICK k \in places : k = Min(places)
  BY <1>2
<1>4. SlipAt(commits, k) \in SlipsOf(commits[k])
  BY DEF FindAllByCommits, SlipAt
<1> QED
  BY <1>3, <1>4 DEF FirstAt, SlipsOf

\* A search goes through commits, and finds places of commits other than its
\* own (D3.4 for the pull requests).
LEMMA SearchFinds ==
    ASSUME PushTypeOK, NEW p \in Pushes, ~Exhausted(p)
    PROVE  LET commits == Searches(Commit(p), search[p])
               found   == Found(Commit(p), search[p])
           IN  /\ commits \in Seq(Commits)
               /\ found \in SUBSET FindAllByCommits(commits)
               /\ \A k \in found : commits[k] # Commit(p)
<1> DEFINE c == Commit(p)
           s == search[p]
           commits == Searches(c, s)
<1>1. c \in Commits /\ s \in [pull : Nat, far : BOOLEAN]
  BY AncestryAssumption DEF PushTypeOK, Commit
<1>2. CASE Squash(s)
  <2>1. Mentions[c] \in Seq(DOMAIN PRHead) /\ s.pull \in 1..Len(Mentions[c])
    BY <1>1, <1>2, AncestryAssumption DEF Exhausted, Squash
  <2>2. PRHead[Mentions[c][s.pull]] \in Commits
    <3>1. PICK m \in Seq(DOMAIN PRHead) : m = Mentions[c]
      BY <2>1
    <3>2. m[s.pull] \in DOMAIN PRHead
      BY <2>1, <3>1
    <3> QED
      BY <3>1, <3>2, AncestryAssumption
  <2>3. PICK head \in Commits : head = PRHead[Mentions[c][s.pull]]
    BY <2>2
  <2>4. Near[head] \in Seq(Commits) /\ Far[head] \in Seq(Commits)
    BY AncestryAssumption
  <2>5. commits = <<head>> \o (IF s.far THEN Far[head] ELSE Near[head])
    BY <1>2, <2>3 DEF Searches
  <2>6. commits \in Seq(Commits)
    BY <2>4, <2>5
  <2>7. Found(c, s) \subseteq FindAllByCommits(commits) /\ \A k \in Found(c, s) : commits[k] # c
    BY <1>2 DEF Found
  <2> QED
    BY <2>6, <2>7
<1>3. CASE ~Squash(s)
  <2>1. commits = IF s.far THEN Far[c] ELSE Near[c]
    BY <1>3 DEF Searches
  <2>2. commits \in Seq(Commits) /\ c \notin ToSet(commits)
    BY <1>1, <2>1, AncestryAssumption
  <2>3. \A k \in DOMAIN commits : commits[k] # c
    BY <2>2 DEF ToSet
  <2>4. Found(c, s) = FindAllByCommits(commits)
    BY <1>3 DEF Found
  <2> QED
    BY <2>2, <2>3, <2>4 DEF FindAllByCommits
<1> QED
  BY <1>2, <1>3

\* What it finds may be abandoned, and recorded.
LEMMA FoundIsSound ==
    ASSUME StoreInv, PushTypeOK, NEW p \in Pushes, ~Exhausted(p),
           NEW squash
    PROVE  LET commits == Searches(Commit(p), search[p])
               found   == Found(Commit(p), search[p])
               nearest == NearestOf(p, commits, found)
           IN  /\ TargetOf(p, commits, found, squash) \in Ids \cup {None}
               /\ nearest \in Entries \cup {NoLink}
               /\ nearest # NoLink => Sound(nearest, Commit(p))
<1> DEFINE commits == Searches(Commit(p), search[p])
           found   == Found(Commit(p), search[p])
           open == {k \in found : /\ slips[SlipAt(commits, k)] \notin SlipTerminal
                                  /\ Supersedes(p, SlipAt(commits, k), squash)}
           others == {k \in found : SlipAt(commits, k) # existing[p]}
           nearest == NearestOf(p, commits, found)
<1>1. /\ commits \in Seq(Commits)
      /\ found \in SUBSET FindAllByCommits(commits)
      /\ \A k \in found : commits[k] # Commit(p)
  BY SearchFinds
<1> HIDE DEF commits, found
<1>2. TargetOf(p, commits, found, squash) \in Ids \cup {None}
  <2>1. open \in SUBSET FindAllByCommits(commits)
    BY <1>1
  <2>2. TargetOf(p, commits, found, squash) = IF open = {} THEN None ELSE FirstAt(commits, open)
    BY DEF TargetOf
  <2> HIDE DEF open
  <2> QED
    BY <1>1, <2>1, <2>2, FirstIsSlip
<1>3. /\ nearest \in Entries \cup {NoLink}
      /\ nearest # NoLink => Sound(nearest, Commit(p))
  <2>1. others \in SUBSET FindAllByCommits(commits) /\ others \subseteq found
    BY <1>1
  <2>2. nearest = IF others = {} THEN NoLink ELSE EntryOf(FirstAt(commits, others))
    BY DEF NearestOf
  <2> HIDE DEF others
  <2>3. CASE others = {}
    BY <2>2, <2>3
  <2>4. CASE others # {}
    <3>1. PICK i \in Ids : /\ i = FirstAt(commits, others) /\ Exists(i)
                           /\ \E k \in others : CommitOf[i] = commits[k]
      BY <1>1, <2>1, <2>4, FirstIsSlip
    <3>2. CommitOf[i] # Commit(p)
      BY <1>1, <2>1, <3>1
    <3>3. slips[i] \in SlipStatuses /\ (slips[i] = "failed" => "failed" \in had[i])
      BY <3>1 DEF StoreInv, StoreTypeOK, SlipsStay, Exists
    <3>4. nearest = EntryOf(i)
      BY <2>2, <2>4, <3>1
    <3>5. EntryOf(i) \in Entries
      BY <3>3 DEF EntryOf, Entries
    <3>6. Sound(EntryOf(i), Commit(p))
      BY <3>1, <3>2, <3>3 DEF EntryOf, Sound
    <3> QED
      BY <3>4, <3>5, <3>6
  <2> QED
    BY <2>3, <2>4
<1> QED
  BY <1>2, <1>3 DEF commits, found

-----------------------------------------------------------------------------
(***************************************************************************)
(* The invariant, step by step.                                            *)
(***************************************************************************)

\* One push moves.
LEMMA PushMoves ==
    ASSUME LineageInv, NEW p \in Pushes, StoreInv', Keeps({p}), PushTypeOK', PushKnows(p)',
           resolved' = resolved,
           \A q \in Pushes \ {p} : /\ pc'[q] = pc[q] /\ existing'[q] = existing[q]
                                   /\ target'[q] = target[q] /\ parent'[q] = parent[q]
                                   /\ ownLink'[q] = ownLink[q]
    PROVE  LineageInv'
<1>1. \A q \in Pushes \ {p} : PushKnows(q)'
  BY KnowsStays DEF LineageInv
<1> QED
  BY <1>1 DEF LineageInv

\* No push moves.
LEMMA NoPushMoves ==
    ASSUME LineageInv, StoreInv', Keeps({}), UNCHANGED <<pushVars, txVars, supersededBy>>
    PROVE  /\ PushTypeOK'
           /\ \A q \in Pushes : PushKnows(q)'
<1>1. \A q \in Pushes : PushKnows(q)'
  BY KnowsStays DEF LineageInv, pushVars, txVars
<1> QED
  BY <1>1 DEF LineageInv, PushTypeOK, pushVars, txVars

\* A push goes on without a write.
LEMMA ReadStep ==
    ASSUME LineageInv, NEW p \in Pushes,
           Start(p) \/ LoadByCommit(p) \/ SearchFails(p) \/ SupersedeFails(p) \/ Backstop(p)
             \/ Reload(p)
    PROVE  LineageInv'
<1> USE DEF LineageInv
<1>1. StoreInv' /\ Keeps({p}) /\ resolved' = resolved
  BY NothingWritten DEF Start, LoadByCommit, SearchFails, SupersedeFails, Backstop, Reload,
                        Unwritten
<1>2. /\ supersededBy' = supersededBy /\ target' = target /\ parent' = parent
      /\ ownLink' = ownLink /\ seen' = seen /\ late' = late
      /\ \A c : HasSlip(c)' <=> HasSlip(c)
      /\ \A l, c : Sound(l, c)' <=> Sound(l, c)
  BY DEF Start, LoadByCommit, SearchFails, SupersedeFails, Backstop, Reload, Unwritten,
         txVars, HasSlip, Sound, Exists
<1>3. PushTypeOK' /\ PushKnows(p)' /\ \A q \in Pushes \ {p} : pc'[q] = pc[q] /\ existing'[q] = existing[q]
  <2>1. CASE Start(p)
    BY <1>2, <2>1 DEF Start, Goto, PushTypeOK, PushKnows, Places, Repaving, Commit
  <2>2. CASE LoadByCommit(p)
    <3>1. PICK i \in Ids \cup {None} :
             /\ i # None => i \in SlipsOf(Commit(p))
             /\ existing' = [existing EXCEPT ![p] = i]
             /\ IF i # None /\ SlipLive(slips[i]) THEN Goto(p, "done") ELSE Goto(p, "search")
      BY <2>2 DEF LoadByCommit, SlipsOf
    <3>2. i # None => CommitOf[i] = Commit(p) /\ HasSlip(Commit(p))
      BY <3>1 DEF SlipsOf, HasSlip
    <3>3. pc[p] = "load" /\ search' = search
      BY <2>2 DEF LoadByCommit
    <3> QED
      BY <1>2, <3>1, <3>2, <3>3 DEF Goto, PushTypeOK, PushKnows, Places, Repaving, Commit
  <2>3. CASE SearchFails(p)
    <3>1. NextPull(search[p]) \in [pull : Nat, far : BOOLEAN]
      BY DEF NextPull, PushTypeOK
    <3> QED
      BY <1>2, <2>3, <3>1 DEF SearchFails, Goto, PushTypeOK, PushKnows, Places, Repaving, Commit
  <2>4. CASE SupersedeFails(p)
    BY <1>2, <2>4 DEF SupersedeFails, Goto, PushTypeOK, PushKnows, Places, Repaving, Commit
  <2>5. CASE Backstop(p)
    <3>1. PICK i \in SlipsOf(Commit(p)) :
             /\ existing' = [existing EXCEPT ![p] = i]
             /\ Goto(p, IF SlipLive(slips[i]) THEN "done"
                        ELSE IF i = IdOf[p] THEN "backstop reset" ELSE "backstop repave")
      BY <2>5 DEF Backstop
    <3>2. i \in Ids /\ i # None /\ CommitOf[i] = Commit(p) /\ HasSlip(Commit(p))
      BY <3>1, AncestryAssumption DEF SlipsOf, HasSlip
    <3>3. pc[p] = "backstop" /\ search' = search
      BY <2>5 DEF Backstop
    <3> QED
      BY <1>2, <3>1, <3>2, <3>3 DEF Goto, PushTypeOK, PushKnows, Places, Repaving, Commit
  <2>6. CASE Reload(p)
    <3>1. existing[p] \in Ids /\ CommitOf[existing[p]] = Commit(p)
      BY <2>6 DEF Reload, PushKnows, PushTypeOK
    <3>2. Exists(existing[p]) => HasSlip(Commit(p))
      BY <3>1 DEF HasSlip
    <3> QED
      BY <1>2, <2>6, <3>1, <3>2 DEF Reload, Goto, PushTypeOK, PushKnows, Places, Repaving, Commit
  <2> QED
    BY <2>1, <2>2, <2>3, <2>4, <2>5, <2>6
<1> QED
  BY <1>1, <1>2, <1>3, PushMoves

\* A repave reads the link it may carry forward: a sound one, if it is there.
LEMMA RepaveReadStep ==
    ASSUME LineageInv, NEW p \in Pushes, RepaveReads(p)
    PROVE  LineageInv'
<1> USE DEF LineageInv
<1>1. StoreInv' /\ Keeps({p}) /\ resolved' = resolved
  BY NothingWritten DEF RepaveReads, Kept
<1>2. /\ pc[p] \in {"persist", "backstop repave"}
      /\ existing[p] \in Ids \ {IdOf[p]} /\ CommitOf[existing[p]] = Commit(p)
  BY DEF RepaveReads, PushKnows, PushTypeOK
<1>3. PICK l \in {link[existing[p]], NoLink} : ownLink' = [ownLink EXCEPT ![p] = l]
  BY DEF RepaveReads
<1>4. l \in Entries \cup {NoLink} /\ (l # NoLink => Sound(l, Commit(p)))
  BY <1>2, <1>3 DEF StoreInv, StoreTypeOK, LinksSound
<1>5. /\ supersededBy' = supersededBy /\ target' = target /\ parent' = parent
      /\ existing' = existing /\ seen' = seen /\ late' = late \ {p} /\ search' = search
      /\ \A k, c : Sound(k, c)' <=> Sound(k, c)
      /\ \E next \in {"delete", "backstop delete"} : Goto(p, next)
  BY DEF RepaveReads, Kept, Sound, Exists
<1>6. /\ PushTypeOK'
      /\ pc'[p] \in {"delete", "backstop delete"} /\ ownLink'[p] = l
      /\ \A q \in Pushes \ {p} : pc'[q] = pc[q] /\ ownLink'[q] = ownLink[q]
  BY <1>3, <1>4, <1>5 DEF PushTypeOK, Goto, Places, Repaving
<1>7. PushKnows(p)'
  BY <1>2, <1>4, <1>5, <1>6, AncestryAssumption DEF PushKnows, Repaving, Commit
<1> QED
  BY <1>1, <1>5, <1>6, <1>7, PushMoves

\* Its repoint sees some links.
LEMMA RepointReadStep ==
    ASSUME LineageInv, NEW p \in Pushes, RepointReads(p)
    PROVE  LineageInv'
<1> USE DEF LineageInv
<1>1. StoreInv' /\ Keeps({p}) /\ resolved' = resolved
  BY NothingWritten DEF RepointReads, Kept
<1>2. /\ supersededBy' = supersededBy /\ target' = target /\ parent' = parent
      /\ existing' = existing /\ ownLink' = ownLink /\ late' = late /\ search' = search
      /\ \A k, c : Sound(k, c)' <=> Sound(k, c)
      /\ pc[p] \in Repaving
      /\ \E next \in {"replace", "backstop replace"} : Goto(p, next)
  BY DEF RepointReads, Kept, Sound, Exists, Repaving
<1>3. seen' \in [Pushes -> SUBSET Ids]
  BY DEF RepointReads, PushTypeOK
<1>4. /\ PushTypeOK' /\ pc'[p] \in {"replace", "backstop replace"}
      /\ \A q \in Pushes \ {p} : pc'[q] = pc[q]
  BY <1>2, <1>3 DEF PushTypeOK, Goto, Places, Repaving
<1>5. PushKnows(p)'
  BY <1>2, <1>4 DEF PushKnows, Repaving, Commit
<1> QED
  BY <1>1, <1>2, <1>4, <1>5, PushMoves

LEMMA SearchStep ==
    ASSUME LineageInv, NEW p \in Pushes, SearchAncestors(p)
    PROVE  LineageInv'
<1> USE DEF LineageInv
<1>1. StoreInv' /\ Keeps({p}) /\ resolved' = resolved
  BY NothingWritten DEF SearchAncestors, Unwritten
<1>2. /\ supersededBy' = supersededBy /\ existing' = existing
      /\ ownLink' = ownLink /\ seen' = seen /\ late' = late
      /\ ownLink[p] = NoLink
      /\ \A l, c : Sound(l, c)' <=> Sound(l, c)
  BY DEF SearchAncestors, Unwritten, txVars, Sound, Exists, PushKnows, Repaving
<1> DEFINE commits == Searches(Commit(p), search[p])
           found   == Found(Commit(p), search[p])
<1>3. CASE \/ UNCHANGED <<target, parent>> /\ Goto(p, "persist") /\ UNCHANGED search
           \/ /\ UNCHANGED <<pc, target, parent>>
              /\ search' \in {[search EXCEPT ![p] = s] : s \in {NextPull(search[p]), Deeper(search[p])}}
  <2>1. NextPull(search[p]) \in [pull : Nat, far : BOOLEAN]
    BY DEF NextPull, PushTypeOK
  <2>2. Deeper(search[p]) \in [pull : Nat, far : BOOLEAN]
    BY <2>1 DEF Deeper, PushTypeOK
  <2>3. search' \in [Pushes -> [pull : Nat, far : BOOLEAN]]
    BY <1>3, <2>1, <2>2 DEF PushTypeOK
  <2>4. pc[p] = "search"
    BY DEF SearchAncestors
  <2>5. PushTypeOK' /\ PushKnows(p)' /\ \A q \in Pushes \ {p} : pc'[q] = pc[q]
    BY <1>2, <1>3, <2>3, <2>4 DEF Goto, PushTypeOK, PushKnows, Places, Repaving, Commit
  <2> QED
    BY <1>1, <1>2, <1>3, <2>5, PushMoves
<1>4. CASE ~Exhausted(p) /\ found # {}
  <2>1. PICK i, l : /\ i = TargetOf(p, commits, found, Squash(search[p]))
                    /\ l = NearestOf(p, commits, found)
    OBVIOUS
  <2>2. /\ i \in Ids \cup {None} /\ l \in Entries \cup {NoLink}
        /\ l # NoLink => Sound(l, Commit(p))
    BY <1>4, <2>1, FoundIsSound
  <2>3. /\ target' = [target EXCEPT ![p] = i] /\ parent' = [parent EXCEPT ![p] = l]
        /\ Goto(p, IF target'[p] = None THEN "persist" ELSE "supersede")
        /\ UNCHANGED search
    BY <1>4, <2>1 DEF SearchAncestors
  <2>4. PushTypeOK' /\ PushKnows(p)' /\ \A q \in Pushes \ {p} : /\ pc'[q] = pc[q] /\ target'[q] = target[q]
                                                                /\ parent'[q] = parent[q]
    BY <1>2, <2>2, <2>3 DEF Goto, PushTypeOK, PushKnows, Places, Repaving, Commit
  <2> QED
    BY <1>1, <1>2, <2>4, PushMoves
<1> QED
  BY <1>3, <1>4 DEF SearchAncestors

\* The parent's copy of the status does not say which run it is.
LEMMA NotedIsSound ==
    ASSUME PushTypeOK, NEW p \in Pushes, NEW i \in Ids, target[p] = i, Noted(p)
    PROVE  /\ parent' \in [Pushes -> Entries \cup {NoLink}]
           /\ \A q \in Pushes \ {p} : parent'[q] = parent[q]
           /\ parent'[p] # NoLink <=> parent[p] # NoLink
           /\ parent'[p].id = parent[p].id /\ parent'[p].branch = parent[p].branch
           /\ parent'[p].failedStep = parent[p].failedStep
<1>1. Ending(p) \in SlipStatuses
  BY DEF Ending, SlipStatuses
<1>2. parent[p].id = i => parent[p] \in Entries
  BY EntriesAreLinks DEF PushTypeOK
<1>3. parent[p].id = i => [parent[p] EXCEPT !.status = Ending(p)] \in Entries
  BY <1>1, <1>2 DEF Entries
<1>4. parent' = [parent EXCEPT ![p] = IF parent[p].id = i THEN [parent[p] EXCEPT !.status = Ending(p)]
                                      ELSE parent[p]]
  BY DEF Noted
<1>5. parent[p].id = i => /\ [parent[p] EXCEPT !.status = Ending(p)].id = parent[p].id
                          /\ [parent[p] EXCEPT !.status = Ending(p)].branch = parent[p].branch
                          /\ [parent[p] EXCEPT !.status = Ending(p)].failedStep = parent[p].failedStep
  BY <1>2 DEF Entries
<1>6. \A l \in Entries : l # NoLink
  BY EntriesAreLinks, AncestryAssumption DEF Entries, NoLink
<1> QED
  BY <1>2, <1>3, <1>4, <1>5, <1>6 DEF PushTypeOK

LEMMA SupersedeStep ==
    ASSUME LineageInv, NEW p \in Pushes, Supersede(p) \/ SupersedeWrite(p)
    PROVE  LineageInv'
<1> USE DEF LineageInv
<1>1. PICK i \in Ids : target[p] = i
  BY DEF Supersede, SupersedeWrite, PushKnows, PushTypeOK
<1>2. /\ pc[p] \in {"supersede", "write"} /\ resolved' = resolved
      /\ ownLink' = ownLink /\ seen' = seen /\ late' = late
      /\ ownLink[p] = NoLink
  BY DEF Supersede, SupersedeWrite, Unwritten, txVars, PushKnows, Repaving
<1>3. /\ parent' \in [Pushes -> Entries \cup {NoLink}]
      /\ \A q \in Pushes \ {p} : parent'[q] = parent[q]
      /\ parent'[p] # NoLink <=> parent[p] # NoLink
      /\ parent'[p].id = parent[p].id /\ parent'[p].branch = parent[p].branch
      /\ parent'[p].failedStep = parent[p].failedStep
  <2>1. parent' = parent \/ Noted(p)
    BY DEF Supersede, SupersedeWrite
  <2>2. CASE parent' = parent
    BY <2>2 DEF PushTypeOK
  <2>3. CASE Noted(p)
    BY <1>1, <2>3, NotedIsSound
  <2> QED
    BY <2>1, <2>2, <2>3
<1>4. StoreInv' /\ Keeps({p})
  <2>1. CASE UNCHANGED <<slips, link, rollback, had, raced>>
    BY <2>1, NothingWritten
  <2>2. CASE /\ Exists(i) /\ SetStatuses([slips EXCEPT ![i] = Ending(p)])
             /\ UNCHANGED <<link, rollback, raced>>
    <3>1. Ending(p) \in SlipStatuses
      BY DEF Ending, SlipStatuses
    <3> QED
      BY <2>2, <3>1, StatusWritten
  <2> QED
    BY <1>1, <2>1, <2>2 DEF Supersede, SupersedeWrite, Unwritten
<1>5. parent[p] # NoLink => Sound(parent[p], Commit(p))
  BY <1>2 DEF PushKnows
<1>6. parent'[p] # NoLink => Sound(parent[p], Commit(p))'
  <2> SUFFICES ASSUME parent'[p] # NoLink
               PROVE  Sound(parent[p], Commit(p))'
    OBVIOUS
  <2>1. parent[p] # NoLink /\ parent[p].id \in Ids
    BY <1>3, EntriesAreLinks DEF PushTypeOK
  <2>2. Sound(parent[p], Commit(p))
    BY <1>5, <2>1
  <2>3. /\ raced \subseteq raced' /\ \A j \in Ids : had[j] \subseteq had'[j]
        /\ \A j \in Ids : Exists(j) => Exists(j)'
    <3>1. raced \subseteq raced' /\ \A j \in Ids : had[j] \subseteq had'[j]
      BY <1>4 DEF Keeps
    <3>2. slips' = slips \/ (Exists(i) /\ slips' = [slips EXCEPT ![i] = Ending(p)])
      BY <1>1 DEF Supersede, SupersedeWrite, Unwritten, SetStatuses
    <3>3. Ending(p) # None
      BY DEF Ending, None
    <3> QED
      BY <3>1, <3>2, <3>3 DEF Exists, StoreInv, StoreTypeOK
  <2> QED
    BY <1>3, <2>1, <2>2, <2>3 DEF Sound, Commit
<1>7. /\ PushTypeOK' /\ \A q \in Pushes \ {p} : /\ pc'[q] = pc[q] /\ existing'[q] = existing[q]
                                               /\ target'[q] = target[q]
      /\ existing' = existing /\ target' = target /\ pc'[p] \in {"write", "persist"}
  <2>1. supersededBy' \in [Ids -> Pushes \cup {None}]
    BY <1>1 DEF Supersede, SupersedeWrite, Unwritten, PushTypeOK
  <2>2. UNCHANGED <<existing, search, target>> /\ (Goto(p, "write") \/ Goto(p, "persist"))
    BY DEF Supersede, SupersedeWrite
  <2> QED
    BY <1>2, <1>3, <2>1, <2>2 DEF Goto, PushTypeOK, Places
<1>8. PushKnows(p)'
  BY <1>1, <1>2, <1>6, <1>7, AncestryAssumption DEF PushKnows, Repaving, Commit
<1> QED
  BY <1>2, <1>3, <1>4, <1>7, <1>8, PushMoves

\* The transaction of push p is over: what it had read is forgotten.
TxOver(p) ==
    /\ ownLink' \in [Pushes -> Entries \cup {NoLink}] /\ seen' \in [Pushes -> SUBSET Ids]
    /\ late' \subseteq Pushes
    /\ ownLink'[p] = NoLink
    /\ \A q \in Pushes \ {p} : ownLink'[q] = ownLink[q]

LEMMA TxEnded ==
    ASSUME PushTypeOK, NEW p \in Pushes, late' \subseteq Pushes,
           \/ \E deleted : TxEnds(p, deleted)
           \/ UNCHANGED <<ownLink, seen>> /\ PushKnows(p) /\ pc[p] \notin Repaving
    PROVE  TxOver(p)
<1>1. CASE UNCHANGED <<ownLink, seen>> /\ PushKnows(p) /\ pc[p] \notin Repaving
  BY <1>1 DEF PushTypeOK, PushKnows, TxOver
<1>2. ASSUME NEW deleted, TxEnds(p, deleted)
      PROVE  TxOver(p)
  BY <1>2 DEF TxEnds, PushTypeOK, TxOver
<1> QED
  BY <1>1, <1>2

\* A push writes its slip, or is refused.
LEMMA WriteMoves ==
    ASSUME LineageInv, NEW p \in Pushes, NEW where \in Places, Goto(p, where), Kept,
           pc[p] \notin {"done", "failed"}, UNCHANGED <<existing, supersededBy>>, TxOver(p),
           StoreInv', Keeps({p}),
           where \in {"link", "done"} => HasSlip(Commit(p))',
           where = "reload" => existing[p] # None,
           where \notin Repaving \cup {"supersede", "write", "backstop repave"},
           where = "done" \/ where = "failed" \/ UNCHANGED <<slips, had, raced>>
             \/ (parent[p] # NoLink => Sound(parent[p], Commit(p))')
    PROVE  LineageInv'
<1> USE DEF LineageInv
<1>1. /\ PushTypeOK' /\ resolved' = resolved
      /\ \A q \in Pushes \ {p} : /\ pc'[q] = pc[q] /\ existing'[q] = existing[q]
                                 /\ target'[q] = target[q] /\ parent'[q] = parent[q]
                                 /\ ownLink'[q] = ownLink[q]
      /\ pc'[p] = where /\ existing'[p] = existing[p] /\ target'[p] = target[p]
      /\ parent'[p] = parent[p] /\ ownLink'[p] = NoLink
  BY DEF Goto, Kept, TxOver, PushTypeOK
<1>2. parent[p] # NoLink /\ where \notin {"done", "failed"} => Sound(parent[p], Commit(p))'
  <2>1. parent[p] # NoLink => Sound(parent[p], Commit(p))
    BY DEF PushKnows
  <2>2. UNCHANGED <<slips, had, raced>> /\ Sound(parent[p], Commit(p)) => Sound(parent[p], Commit(p))'
    BY <1>1 DEF Sound, Exists, Commit
  <2> QED
    BY <2>1, <2>2
<1>3. PushKnows(p)'
  BY <1>1, <1>2 DEF PushKnows, Commit
<1> QED
  BY <1>1, <1>3, PushMoves

\* A push that is refused, or fails.
LEMMA RefusedMoves ==
    ASSUME LineageInv, NEW p \in Pushes, NEW where \in {"backstop", "failed", "reload"},
           pc[p] \notin {"done", "failed"}, where = "reload" => existing[p] # None,
           Refused(p, where), Kept
    PROVE  LineageInv'
<1> USE DEF LineageInv
<1>1. StoreInv' /\ Keeps({p})
  BY NothingWritten DEF Refused
<1>2. TxOver(p)
  BY TxEnded DEF Refused, PushTypeOK
<1>3. where \in Places \ (Repaving \cup {"supersede", "write", "backstop repave", "link", "done"})
  BY DEF Places, Repaving
<1> QED
  BY <1>1, <1>2, <1>3, WriteMoves DEF Refused

\* A slip that is written is no reason to doubt what was known of a parent.
LEMMA ParentStaysSound ==
    ASSUME LineageInv, NEW p \in Pushes, pc[p] \notin {"done", "failed"},
           Keeps({p}), parent' = parent, \A j \in Ids : Exists(j) => Exists(j)'
    PROVE  parent[p] # NoLink => Sound(parent[p], Commit(p))'
<1> SUFFICES ASSUME parent[p] # NoLink
             PROVE  Sound(parent[p], Commit(p))'
  OBVIOUS
<1>1. parent[p].id \in Ids
  BY EntriesAreLinks DEF LineageInv, PushTypeOK
<1>2. Sound(parent[p], Commit(p))
  BY DEF LineageInv, PushKnows
<1> QED
  BY <1>1, <1>2 DEF Sound, Keeps, Commit

\* Create, and its refusal.
LEMMA CreateMoves ==
    ASSUME LineageInv, NEW p \in Pushes, NEW where \in {"backstop", "failed"},
           pc[p] \in {"persist", "backstop reset"}, Kept,
           (Create(IdOf[p]) /\ Written(p)) \/ Refused(p, where)
    PROVE  LineageInv'
<1> USE DEF LineageInv
<1>1. IdOf[p] \in Ids
  BY AncestryAssumption
<1>2. CASE Create(IdOf[p]) /\ Written(p)
  <2>1. StoreInv' /\ HasSlip(Commit(p))' /\ Keeps({p})
    BY <1>1, <1>2, Created DEF Commit
  <2>2. \A j \in Ids : Exists(j) => Exists(j)'
    BY <1>2, AncestryAssumption DEF Create, SetStatuses, Exists, StoreInv, StoreTypeOK, None
  <2>3. parent[p] # NoLink => Sound(parent[p], Commit(p))'
    BY <2>1, <2>2, ParentStaysSound DEF Kept
  <2>4. PICK next \in {"link", "done"} : Goto(p, next)
    BY <1>2 DEF Written
  <2>5. next \in Places \ (Repaving \cup {"reload", "backstop repave", "supersede", "write"})
    BY DEF Places, Repaving
  <2>6. TxOver(p)
    BY <1>2, TxEnded DEF Written, txVars, Repaving, PushTypeOK
  <2> QED
    BY <1>2, <2>1, <2>3, <2>4, <2>5, <2>6, WriteMoves DEF Written
<1>3. CASE Refused(p, where)
  BY <1>3, RefusedMoves
<1> QED
  BY <1>2, <1>3

\* Repave, and its refusals.
LEMMA RepaveStep ==
    ASSUME LineageInv, NEW p \in Pushes, RepaveSlip(p)
    PROVE  LineageInv'
<1> USE DEF LineageInv
<1>1. pc[p] \in {"replace", "backstop replace"} /\ pc[p] \in Repaving /\ Kept
  BY DEF RepaveSlip, Repaving
<1>2. /\ existing[p] \in Ids /\ CommitOf[existing[p]] = CommitOf[IdOf[p]] /\ existing[p] # IdOf[p]
      /\ parent[p] # NoLink => Sound(parent[p], CommitOf[IdOf[p]])
      /\ ownLink[p] # NoLink => Sound(ownLink[p], CommitOf[IdOf[p]])
  BY <1>1 DEF PushKnows, PushTypeOK, Commit
<1>3. ASSUME NEW linked \in LinkOutcomes(p), Repave(p, linked), Goto(p, "done"),
             UNCHANGED <<existing, supersededBy>>
      PROVE  LineageInv'
  <2>1. StoreInv' /\ HasSlip(Commit(p))' /\ Keeps({p})
    BY <1>2, <1>3, Repaved DEF Commit
  <2>2. late' \subseteq Pushes
    BY <1>3 DEF Repave, WithoutLink, PushTypeOK
  <2>3. TxOver(p)
    <3>1. TxEnds(p, {existing[p]})
      BY <1>3 DEF Repave
    <3> QED
      BY <2>2, <3>1, TxEnded
  <2>4. "done" \in Places /\ "done" \notin Repaving
    BY DEF Places, Repaving
  <2> QED
    BY <1>1, <1>3, <2>1, <2>3, <2>4, WriteMoves
<1>4. ASSUME NEW where \in {"backstop", "failed", "reload"}, Refused(p, where)
      PROVE  LineageInv'
  BY <1>1, <1>2, <1>4, RefusedMoves, AncestryAssumption
<1> QED
  BY <1>3, <1>4 DEF RepaveSlip

LEMMA WriteStep ==
    ASSUME LineageInv, NEW p \in Pushes, CreateSlip(p) \/ BackstopReset(p) \/ PushFails(p)
    PROVE  LineageInv'
<1>1. CASE CreateSlip(p)
  BY <1>1, CreateMoves DEF CreateSlip
<1>2. CASE BackstopReset(p)
  BY <1>2, CreateMoves DEF BackstopReset
<1>3. CASE PushFails(p)
  BY <1>3, RefusedMoves DEF PushFails
<1> QED
  BY <1>1, <1>2, <1>3

LEMMA LinkStep ==
    ASSUME LineageInv, NEW p \in Pushes, WriteAncestryLink(p)
    PROVE  LineageInv'
<1> USE DEF LineageInv
<1>1. /\ pc[p] = "link" /\ Goto(p, "done") /\ Kept
      /\ UNCHANGED <<slips, rollback, had, supersededBy, raced, existing, ownLink, seen>>
      /\ late' \subseteq Pushes
      /\ link' = link \/ (Exists(IdOf[p]) /\ link' = [link EXCEPT ![IdOf[p]] = parent[p]])
  BY DEF WriteAncestryLink, MayLink, WithoutLink, PushTypeOK
<1>2. /\ IdOf[p] \in Ids /\ parent[p] \in Entries \cup {NoLink}
      /\ parent[p] # NoLink => Sound(parent[p], CommitOf[IdOf[p]])
      /\ HasSlip(Commit(p))
  BY <1>1, AncestryAssumption DEF PushTypeOK, PushKnows, Commit
<1>3. StoreInv'
  <2>1. link' \in [Ids -> Entries \cup {NoLink}]
    BY <1>1, <1>2 DEF StoreInv, StoreTypeOK
  <2>2. \A i \in Ids : link'[i] # NoLink => Exists(i) /\ Sound(link'[i], CommitOf[i])
    BY <1>1, <1>2 DEF StoreInv, StoreTypeOK, RowsHang, LinksSound
  <2>3. StoreTypeOK' /\ OneSlipPerCommit' /\ SlipsStay'
    BY <1>1, <2>1 DEF StoreInv, StoreTypeOK, OneSlipPerCommit, SlipsStay, HasSlip, Exists
  <2>4. RowsHang' /\ LinksSound'
    BY <1>1, <2>2 DEF StoreInv, RowsHang, LinksSound, Sound, Exists
  <2> QED
    BY <2>3, <2>4 DEF StoreInv
<1>4. Keeps({p}) /\ HasSlip(Commit(p))'
  BY <1>1, <1>2 DEF Keeps, HasSlip, Exists, Commit
<1>5. TxOver(p) /\ "done" \in Places /\ "done" \notin Repaving
  BY <1>1, TxEnded DEF Places, Repaving
<1> QED
  BY <1>1, <1>3, <1>4, <1>5, WriteMoves

LEMMA PushStep ==
    ASSUME LineageInv, NEW p \in Pushes, Push(p)
    PROVE  LineageInv'
BY ReadStep, SearchStep, SupersedeStep, RepaveReadStep, RepointReadStep, RepaveStep, WriteStep,
   LinkStep DEF Push

\* Runs, handlers and resolutions move no push.
LEMMA OtherStep ==
    ASSUME LineageInv,
           \/ \E i \in Ids : \E s \in RunStatuses[i] : UpdateSlipStatus(i, s)
           \/ \E h \in Handlers, s \in RollbackStatuses : RecordRollback(h, s)
           \/ \E r \in Resolutions : ResolveByAncestry(r) \/ ResolveByImageTag(r)
    PROVE  LineageInv'
<1> USE DEF LineageInv
<1>1. ASSUME NEW i \in Ids, NEW s \in RunStatuses[i], UpdateSlipStatus(i, s)
      PROVE  LineageInv'
  <2>1. StoreInv' /\ Keeps({})
    BY <1>1, StatusWritten, AncestryAssumption DEF UpdateSlipStatus
  <2> QED
    BY <1>1, <2>1, NoPushMoves DEF UpdateSlipStatus
<1>2. ASSUME NEW h \in Handlers, NEW s \in RollbackStatuses, RecordRollback(h, s)
      PROVE  LineageInv'
  <2>1. StoreInv' /\ Keeps({})
    <3>1. RowsHang'
      BY <1>2 DEF RecordRollback, StoreInv, StoreTypeOK, RowsHang, Exists
    <3>2. StoreTypeOK'
      BY <1>2 DEF RecordRollback, StoreInv, StoreTypeOK
    <3> QED
      BY <1>2, <3>1, <3>2 DEF RecordRollback, StoreInv, OneSlipPerCommit, SlipsStay, HasSlip,
                              LinksSound, Sound, Exists, Keeps
  <2> QED
    BY <1>2, <2>1, NoPushMoves DEF RecordRollback
<1>3. ASSUME NEW r \in Resolutions, ResolveByAncestry(r) \/ ResolveByImageTag(r)
      PROVE  LineageInv'
  <2>1. StoreInv' /\ Keeps({}) /\ UNCHANGED <<pushVars, txVars, supersededBy>>
    BY <1>3, NothingWritten DEF ResolveByAncestry, ResolveByImageTag
  <2>2. resolved' \in [Resolutions -> {"absent", "asked", "tag", "found", None}]
    <3>1. CASE ResolveByAncestry(r)
      BY <3>1 DEF ResolveByAncestry
    <3>2. CASE ResolveByImageTag(r)
      BY <3>2 DEF ResolveByImageTag
    <3> QED
      BY <1>3, <3>1, <3>2
  <2> QED
    BY <2>1, <2>2, NoPushMoves
<1> QED
  BY <1>1, <1>2, <1>3

LEMMA LineageInit ==
    ASSUME Init
    PROVE  LineageInv
<1>1. \A i \in Ids : ~Exists(i)
  BY DEF Init, Exists
<1>2. StoreInv
  BY <1>1 DEF Init, StoreInv, StoreTypeOK, OneSlipPerCommit, RowsHang, SlipsStay, LinksSound, None
<1>3. PICK cast \in Casts :
         /\ pc = [p \in Pushes |-> IF p \in cast THEN "idle" ELSE "absent"]
         /\ resolved = [r \in Resolutions |-> IF r \in cast THEN "asked" ELSE "absent"]
  BY DEF Init
<1>4. PushTypeOK
  BY <1>3 DEF Init, PushTypeOK, Places, FirstSearch
<1>5. \A p \in Pushes : PushKnows(p)
  BY <1>3 DEF Init, PushKnows, Repaving
<1> QED
  BY <1>2, <1>3, <1>4, <1>5 DEF LineageInv

LEMMA LineageNext ==
    ASSUME LineageInv, [Next]_vars
    PROVE  LineageInv'
<1>1. CASE UNCHANGED vars
  <2>1. StoreInv' /\ Keeps({})
    BY <1>1, NothingWritten DEF vars, LineageInv
  <2> QED
    BY <1>1, <2>1, NoPushMoves DEF vars, LineageInv
<1> QED
  BY <1>1, PushStep, OtherStep DEF Next

\* The invariant of the lineage: the conjunction of all that follows.
THEOREM LineageInvariant == Spec => []LineageInv
<1>1. Init => LineageInv
  BY LineageInit
<1>2. LineageInv /\ [Next]_vars => LineageInv'
  BY LineageNext
<1> QED
  BY <1>1, <1>2, PTL DEF Spec

-----------------------------------------------------------------------------
(***************************************************************************)
(* What it shows.                                                          *)
(***************************************************************************)

\* Types; a commit has one slip at most, whatever two pushes of it do, and no
\* link or rollback record outlives its slip.
THEOREM StoreIsWellFormed == Spec => []TypeOK
<1>1. LineageInv => TypeOK
  <2> SUFFICES ASSUME LineageInv
               PROVE  TypeOK
    OBVIOUS
  <2>1. ASSUME NEW c \in Commits
        PROVE  Cardinality(SlipsOf(c)) <= 1
    <3>1. CASE SlipsOf(c) = {}
      BY <3>1, FS_EmptySet
    <3>2. CASE SlipsOf(c) # {}
      <4>1. PICK i \in Ids : SlipsOf(c) = {i}
        BY <3>2 DEF SlipsOf, LineageInv, StoreInv, OneSlipPerCommit
      <4>2. Cardinality({i}) = 1
        BY FS_Singleton
      <4> QED
        BY <4>1, <4>2
    <3> QED
      BY <3>1, <3>2
  <2> QED
    BY <2>1 DEF TypeOK, LineageInv, StoreInv, StoreTypeOK, PushTypeOK, RowsHang
<1> QED
  BY <1>1, LineageInvariant, PTL

\* A recorded link names a run of another commit, by that run's own branch and
\* verdict, and dangles only where a repave raced the push that wrote it.
THEOREM LineageIsSound == Spec => []LinksAreSound
<1>1. LineageInv => LinksAreSound
  BY DEF LineageInv, StoreInv, LinksSound, Sound, LinksAreSound, DanglesOnlyByRace,
         EntriesNameOneRun, NoOwnAncestor, Hop
<1> QED
  BY <1>1, LineageInvariant, PTL

\* The push that ended an ancestor left its commit with a slip.
THEOREM SupersededIsSucceeded == Spec => []SupersededHasSuccessor
<1>1. LineageInv => SupersededHasSuccessor
  BY DEF LineageInv, PushTypeOK, PushKnows, HasSlip, SupersededHasSuccessor, SlipsOf
<1> QED
  BY <1>1, LineageInvariant, PTL

\* What push p repaves is there to be found, and is not its own slip.
LEMMA RepaveIsOfExisting ==
    ASSUME LineageInv, NEW p \in Pushes, pc[p] \in Repaving
    PROVE  existing[p] \in Ids \ {IdOf[p]}
BY DEF LineageInv, PushKnows, PushTypeOK

\* A step after which slip i is gone is a repave of it by a push; only that
\* push moves.
LEMMA GoneByRepave ==
    ASSUME LineageInv, Next, NEW i \in Ids, Exists(i), ~Exists(i)'
    PROVE  \E p \in Pushes : \E linked \in LinkOutcomes(p) :
              /\ existing[p] = i /\ i # IdOf[p] /\ pc[p] \in Repaving /\ Repave(p, linked)
              /\ \A q \in Pushes \ {p} : pc'[q] = pc[q]
<1>1. \A j \in Ids, s \in SlipStatuses : slips' # [slips EXCEPT ![j] = s]
  BY DEF LineageInv, StoreInv, StoreTypeOK, Exists, SlipStatuses, None
<1>2. slips' # slips
  BY DEF Exists
<1>3. PICK p \in Pushes : Push(p)
  <2>1. ASSUME NEW j \in Ids, NEW s \in RunStatuses[j], UpdateSlipStatus(j, s)
        PROVE  FALSE
    BY <1>1, <2>1, AncestryAssumption DEF UpdateSlipStatus, SetStatuses
  <2>2. ASSUME NEW h \in Handlers, NEW s \in RollbackStatuses, RecordRollback(h, s)
        PROVE  FALSE
    BY <1>2, <2>2 DEF RecordRollback
  <2>3. ASSUME NEW r \in Resolutions, ResolveByAncestry(r) \/ ResolveByImageTag(r)
        PROVE  FALSE
    BY <1>2, <2>3 DEF ResolveByAncestry, ResolveByImageTag
  <2> QED
    BY <2>1, <2>2, <2>3 DEF Next
<1>4. ~SupersedeWrite(p) /\ ~Create(IdOf[p])
  <2>1. Ending(p) \in SlipStatuses /\ "in_progress" \in SlipStatuses
    BY DEF Ending, SlipStatuses
  <2>2. pc[p] = "write" => target[p] \in Ids
    BY DEF LineageInv, PushKnows, PushTypeOK
  <2> QED
    BY <1>1, <1>2, <2>1, <2>2, AncestryAssumption DEF SupersedeWrite, Create, SetStatuses
<1>5. PICK linked \in LinkOutcomes(p) :
         /\ Repave(p, linked) /\ pc[p] \in Repaving
         /\ existing[p] \in Ids \ {IdOf[p]} /\ Goto(p, "done")
  <2>1. RepaveSlip(p)
    BY <1>2, <1>3, <1>4 DEF Push, Start, LoadByCommit, SearchAncestors, SearchFails, Supersede,
       SupersedeFails, CreateSlip, RepaveReads, RepointReads, Backstop, BackstopReset, Reload,
       WriteAncestryLink, PushFails, Unwritten, Refused
  <2>2. pc[p] \in Repaving
    BY <2>1 DEF RepaveSlip, Repaving
  <2>3. \E linked \in LinkOutcomes(p) : Repave(p, linked) /\ Goto(p, "done")
    BY <1>2, <2>1 DEF RepaveSlip, Refused
  <2> QED
    BY <2>2, <2>3, RepaveIsOfExisting
<1>6. existing[p] = i
  <2>1. slips' = [slips EXCEPT ![existing[p]] = None, ![IdOf[p]] = "in_progress"]
    BY <1>5 DEF Repave, SetStatuses
  <2> QED
    BY <1>5, <2>1, AncestryAssumption DEF LineageInv, StoreInv, StoreTypeOK, Exists, None
<1>7. \A q \in Pushes \ {p} : pc'[q] = pc[q]
  BY <1>5 DEF Goto, LineageInv, PushTypeOK
<1> QED
  BY <1>5, <1>6, <1>7

\* A repave that has no link to write, found or carried, is of a slip that has
\* none still, or got one since it looked.
LinksRead ==
    \A p \in Pushes : pc[p] \in Repaving /\ Carried(p) = NoLink /\ p \notin late
        => link[existing[p]] = NoLink

\* What a step does to the links.
LEMMA LinksWritten ==
    ASSUME LineageInv, NEW p \in Pushes, Push(p), NEW i \in Ids, link[i] = NoLink
    PROVE  link'[i] = NoLink \/ WithoutLink(i) \subseteq late'
<1>1. CASE link' = link
  BY <1>1
<1>2. CASE WriteAncestryLink(p)
  <2>1. CASE i = IdOf[p]
    BY <1>2, <2>1 DEF WriteAncestryLink
  <2>2. CASE i # IdOf[p]
    BY <1>2, <2>2 DEF WriteAncestryLink, LineageInv, StoreInv, StoreTypeOK
  <2> QED
    BY <2>1, <2>2
<1>3. CASE RepaveSlip(p) /\ link' # link
  <2>1. pc[p] \in Repaving
    BY <1>3 DEF RepaveSlip, Repaving
  <2>2. PICK linked : Repave(p, linked)
    BY <1>3 DEF RepaveSlip, Refused
  <2>3. PICK old \in Ids \ {IdOf[p]} : old = existing[p]
    BY <2>1, RepaveIsOfExisting
  <2>4. CASE i = IdOf[p]
    BY <2>2, <2>4 DEF Repave
  <2>5. CASE i # IdOf[p]
    <3>1. PICK c \in Ids \ {old} : IdOf[p] = c
      BY <2>3, AncestryAssumption
    <3> StoreInv /\ PushTypeOK /\ existing[p] = old
      BY <2>3 DEF LineageInv
    <3>2. /\ link'[old] = NoLink
          /\ \A j \in Ids \ {c, old} :
                \/ link'[j] = link[j] /\ (link[j].id # old \/ ~Exists(old) \/ old \in raced')
                \/ /\ link[j].id = old
                   /\ link'[j] = [id |-> c, branch |-> BranchOf[c], status |-> "in_progress",
                                  failedStep |-> FALSE]
      BY <2>2, <3>1, RepavedLinks
    <3>3. link[i].id # old
      BY <2>3, AncestryAssumption DEF NoLink
    <3> QED
      BY <2>5, <3>1, <3>2, <3>3
  <2> QED
    BY <2>4, <2>5
<1> QED
  BY <1>1, <1>2, <1>3 DEF Push, Start, LoadByCommit, SearchAncestors, SearchFails, Supersede,
     SupersedeWrite, SupersedeFails, CreateSlip, Create, RepaveReads, RepointReads, Backstop,
     BackstopReset, Reload, PushFails, Unwritten, Refused

\* A push that is in a repave after its own step has just read, and a push that
\* does not move has read the same.
LEMMA RepaveGoesOn ==
    ASSUME LineageInv, NEW p \in Pushes, Push(p)
    PROVE  /\ \A q \in Pushes \ {p} : /\ pc'[q] = pc[q] /\ existing'[q] = existing[q]
                                      /\ Carried(q)' = Carried(q)
                                      /\ q \in late => q \in late'
           /\ pc'[p] \in Repaving =>
                 /\ link' = link /\ existing' = existing
                 /\ \/ Carried(p)' = NoLink => link[existing[p]] = NoLink
                    \/ pc[p] \in Repaving /\ Carried(p)' = Carried(p) /\ late' = late
<1> USE DEF LineageInv, PushTypeOK, Carried
<1>1. CASE RepaveReads(p)
  BY <1>1 DEF RepaveReads, Goto, Kept
<1>2. CASE RepointReads(p)
  BY <1>2 DEF RepointReads, Goto, Kept, Repaving
<1>3. CASE RepaveSlip(p)
  <2>1. \A q \in Pushes \ {p} : ownLink'[q] = ownLink[q]
    BY <1>3 DEF RepaveSlip, Repave, Refused, TxEnds
  <2> QED
    BY <1>3, <2>1 DEF RepaveSlip, Repave, Refused, Goto, Kept, Repaving
<1>4. CASE CreateSlip(p) \/ BackstopReset(p) \/ PushFails(p) \/ WriteAncestryLink(p)
  <2>1. \A q \in Pushes \ {p} : ownLink'[q] = ownLink[q]
    BY <1>4 DEF CreateSlip, BackstopReset, PushFails, WriteAncestryLink, Written, Refused, txVars, TxEnds
  <2>2. \E next \in {"link", "done", "backstop", "failed"} : Goto(p, next)
    BY <1>4 DEF CreateSlip, BackstopReset, PushFails, WriteAncestryLink, Written, Refused
  <2>3. existing' = existing /\ parent' = parent /\ late \subseteq late'
    BY <1>4 DEF CreateSlip, BackstopReset, PushFails, WriteAncestryLink, Written, Refused, Kept, txVars
  <2> QED
    BY <2>1, <2>2, <2>3 DEF Goto, Repaving
<1>5. CASE Start(p) \/ LoadByCommit(p) \/ SearchFails(p) \/ SupersedeFails(p) \/ Backstop(p) \/ Reload(p)
  <2>1. parent' = parent /\ ownLink' = ownLink /\ late' = late
    BY <1>5 DEF Start, LoadByCommit, SearchFails, SupersedeFails, Backstop, Reload, Unwritten, txVars
  <2>2. \/ \E next \in Places \ Repaving : Goto(p, next)
        \/ pc' = pc /\ pc[p] \notin Repaving
    BY <1>5 DEF Start, LoadByCommit, SearchFails, SupersedeFails, Backstop, Reload, Places, Repaving
  <2>3. \A q \in Pushes \ {p} : existing'[q] = existing[q]
    BY <1>5 DEF Start, LoadByCommit, SearchFails, SupersedeFails, Backstop, Reload
  <2> QED
    BY <2>1, <2>2, <2>3 DEF Goto
<1>6. CASE SearchAncestors(p) \/ Supersede(p) \/ SupersedeWrite(p)
  <2>1. ownLink' = ownLink /\ late' = late /\ existing' = existing
    BY <1>6 DEF SearchAncestors, Supersede, SupersedeWrite, Unwritten, txVars
  <2>2. \A q \in Pushes \ {p} : parent'[q] = parent[q]
    BY <1>6 DEF SearchAncestors, Supersede, SupersedeWrite, Noted
  <2>3. \/ \E next \in {"persist", "supersede", "write"} : Goto(p, next)
        \/ pc' = pc /\ pc[p] = "search"
    BY <1>6 DEF SearchAncestors, Supersede, SupersedeWrite
  <2> QED
    BY <2>1, <2>2, <2>3 DEF Goto, Repaving
<1> QED
  BY <1>1, <1>2, <1>3, <1>4, <1>5, <1>6 DEF Push

LEMMA LinksReadNext ==
    ASSUME LineageInv, LinksRead, [Next]_vars
    PROVE  LinksRead'
<1>1. CASE UNCHANGED <<link, pushVars, txVars>>
  BY <1>1 DEF LinksRead, Carried, pushVars, txVars
<1>2. ASSUME NEW p \in Pushes, Push(p)
      PROVE  LinksRead'
  <2> SUFFICES ASSUME NEW q \in Pushes, pc'[q] \in Repaving, Carried(q)' = NoLink, q \notin late'
               PROVE  link'[existing'[q]] = NoLink
    BY DEF LinksRead
  <2>1. CASE q = p
    BY <1>2, <2>1, RepaveGoesOn DEF LinksRead
  <2>2. CASE q # p
    <3>1. /\ pc[q] \in Repaving /\ existing'[q] = existing[q] /\ Carried(q) = NoLink /\ q \notin late
      BY <1>2, <2>2, RepaveGoesOn
    <3>2. existing[q] \in Ids /\ link[existing[q]] = NoLink
      BY <3>1, RepaveIsOfExisting DEF LinksRead
    <3>3. q \in WithoutLink(existing[q])
      BY <3>1 DEF WithoutLink
    <3> QED
      BY <1>2, <3>1, <3>2, <3>3, LinksWritten
  <2> QED
    BY <2>1, <2>2
<1> QED
  BY <1>1, <1>2 DEF Next, vars, UpdateSlipStatus, RecordRollback, ResolveByAncestry, ResolveByImageTag

LEMMA LinksReadInvariant == Spec => [](LineageInv /\ LinksRead)
<1>1. Init => LinksRead
  BY DEF Init, LinksRead, Repaving
<1>2. LineageInv /\ LinksRead /\ [Next]_vars => LinksRead'
  BY LinksReadNext
<1> QED
  BY <1>1, <1>2, LineageInvariant, PTL DEF Spec

\* Whatever push repaves a slip with a recorded parent, its own slip has one,
\* unless the link was recorded while the repave was under way, or the savepoint
\* around the successor's was rolled back.
THEOREM LineageSurvives == Spec => LineageSurvivesRepave
<1>1. ASSUME LineageInv, LinksRead, [Next]_vars,
             NEW p \in Pushes \ Flaky, NEW i \in Ids,
             pc'[p] # pc[p], Exists(i), ~Exists(i)', link[i] # NoLink, p \notin late
      PROVE  link'[IdOf[p]] # NoLink
  <2>1. Next
    BY <1>1 DEF vars, pushVars
  <2>2. PICK q \in Pushes : \E linked \in LinkOutcomes(q) :
                               /\ existing[q] = i /\ i # IdOf[q] /\ pc[q] \in Repaving
                               /\ Repave(q, linked)
                               /\ \A r \in Pushes \ {q} : pc'[r] = pc[r]
    BY <1>1, <2>1, GoneByRepave
  <2>3. p = q
    BY <1>1, <2>2
  <2>4. Repave(p, TRUE) /\ IdOf[p] \in Ids
    BY <1>1, <2>2, <2>3, AncestryAssumption DEF LinkOutcomes
  <2>5. link' = Removed(p)
    BY <1>1, <2>2, <2>3, <2>4 DEF Repave
  <2>6. Carried(p) # NoLink
    BY <1>1, <2>2, <2>3 DEF LinksRead
  <2> QED
    BY <2>4, <2>5, <2>6 DEF Removed, Linked
<1>2. LineageInv /\ LinksRead /\ [Next]_vars =>
         \A p \in Pushes \ Flaky, i \in Ids :
            pc'[p] # pc[p] /\ Exists(i) /\ ~Exists(i)' /\ link[i] # NoLink /\ p \notin late
               => link'[IdOf[p]] # NoLink
  BY <1>1
<1> QED
  BY <1>2, LinksReadInvariant, PTL DEF Spec, LineageSurvivesRepave

\* A rollback recorded as done is not unrecorded while its slip is there.
THEOREM RollbackIsKept == Spec => RollbackSticks
<1>1. ASSUME LineageInv, [Next]_vars,
             NEW h \in Handlers, rollback[h] = "success", Exists(h[1])'
      PROVE  rollback'[h] = "success"
  <2>1. CASE rollback' = rollback
    BY <1>1, <2>1
  <2>2. ASSUME NEW g \in Handlers, NEW s \in RollbackStatuses, RecordRollback(g, s)
        PROVE  rollback'[h] = "success"
    BY <1>1, <2>2 DEF RecordRollback, Replaces, LineageInv, StoreInv, StoreTypeOK, None
  <2>3. ASSUME rollback' # rollback, NEW p \in Pushes, Push(p)
        PROVE  rollback'[h] = "success"
    <3>1. RepaveSlip(p) /\ pc[p] \in Repaving
      BY <2>3 DEF Push, Start, LoadByCommit, SearchAncestors, SearchFails, Supersede, SupersedeWrite,
         SupersedeFails, CreateSlip, Create, RepaveReads, RepointReads, RepaveSlip, Backstop,
         BackstopReset, Reload, WriteAncestryLink, PushFails, Unwritten, Refused, Repaving
    <3>2. PICK linked : Repave(p, linked)
      BY <2>3, <3>1 DEF RepaveSlip, Refused
    <3>3. existing[p] \in Ids \ {IdOf[p]}
      BY <1>1, <3>1, RepaveIsOfExisting
    <3>4. slips'[existing[p]] = None
      <4>1. slips' = [slips EXCEPT ![existing[p]] = None, ![IdOf[p]] = "in_progress"]
        BY <3>2 DEF Repave, SetStatuses
      <4> QED
        BY <1>1, <3>3, <4>1, AncestryAssumption DEF LineageInv, StoreInv, StoreTypeOK
    <3>5. h[1] # existing[p]
      BY <1>1, <3>4 DEF Exists
    <3> QED
      BY <1>1, <3>2, <3>5 DEF Repave
  <2> QED
    BY <1>1, <2>1, <2>2, <2>3 DEF Next, vars, UpdateSlipStatus, ResolveByAncestry, ResolveByImageTag
<1>2. LineageInv /\ [Next]_vars =>
         \A h \in Handlers : rollback[h] = "success" /\ Exists(h[1])' => rollback'[h] = "success"
  BY <1>1
<1> QED
  BY <1>2, LineageInvariant, PTL DEF Spec, RollbackSticks

\* A resolution whose store answers, and that found nothing by the commit its
\* image tag bears, looked at a commit that never had a slip.
THEOREM ImageIsAttached == Spec => ImageAttaches
<1>1. ASSUME LineageInv, [Next]_vars,
             NEW r \in Resolutions \ LoadFails, resolved[r] # None, resolved'[r] = None,
             NEW i \in Ids, CommitOf[i] = TagOf[r]
      PROVE  had[i] = {}
  <2>1. \A p \in Pushes : Push(p) => resolved' = resolved
    BY DEF Push, Start, LoadByCommit, SearchAncestors, SearchFails, Supersede, SupersedeWrite,
       SupersedeFails, CreateSlip, RepaveReads, RepointReads, RepaveSlip, Backstop, BackstopReset,
       Reload, WriteAncestryLink,
       PushFails, Unwritten, Kept
  <2>2. PICK q \in Resolutions : ResolveByAncestry(q) \/ ResolveByImageTag(q)
    BY <1>1, <2>1 DEF Next, vars, UpdateSlipStatus, RecordRollback
  <2>3. q = r
    BY <1>1, <2>2 DEF ResolveByAncestry, ResolveByImageTag, LineageInv
  <2>4. ~ResolveByAncestry(r)
    BY <1>1 DEF ResolveByAncestry, LineageInv, None
  <2>5. SlipsOf(TagOf[r]) = {}
    BY <1>1, <2>2, <2>3, <2>4 DEF ResolveByImageTag, ByImageTag, LineageInv, None
  <2>6. ~HasSlip(CommitOf[i])
    BY <1>1, <2>5 DEF HasSlip, SlipsOf
  <2> QED
    BY <1>1, <2>6 DEF LineageInv, StoreInv, SlipsStay, HasSlip
<1>2. LineageInv /\ [Next]_vars =>
         \A r \in Resolutions \ LoadFails : resolved[r] # None /\ resolved'[r] = None
            => \A i \in Ids : CommitOf[i] = TagOf[r] => had[i] = {}
  BY <1>1
<1> QED
  BY <1>2, LineageInvariant, PTL DEF Spec, ImageAttaches
=============================================================================
