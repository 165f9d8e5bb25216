---------------------------- MODULE MigratorProofs ----------------------------
(***************************************************************************)
(* Proofs about the two migrators, each by itself: PostgresMigrator for    *)
(* any migrations, ensurers, processes and jobs, and for slippy's own      *)
(* eight (SlipStartup); then ClickhouseMigrator for any processes,         *)
(* migrations, jobs and expected tables of which the version table is the  *)
(* last.                                                                   *)
(*                                                                         *)
(* Two migrators read the recorded version before either acts, so what a   *)
(* process has still to do may be stale.  The invariants therefore say of  *)
(* each loop what is there ALREADY - everything it covers that is not in   *)
(* what it has still to do - and that a job which may take something away  *)
(* is alone.                                                               *)
(***************************************************************************)
EXTENDS SlipStartup, ClickhouseMigrator, WellFoundedInduction, TLAPS

\* What a loop has not still to do is done.
LoopInv(p) ==
    /\ pc[p] \in {"apply", "raise", "revert"} => todo[p] \subseteq Versions
    /\ pc[p] = "apply" => \A v \in Versions \ todo[p] : Applied(v)
    /\ pc[p] = "raise" =>
          /\ \A v \in todo[p] : v <= Target(p)
          /\ \A v \in Versions \ todo[p] : v <= Target(p) => Applied(v)
    /\ pc[p] = "revert" =>
          /\ \A v \in todo[p] : v > Target(p)
          /\ \A v \in Versions : v <= Target(p) => Applied(v)
    /\ pc[p] = "ensure" => todo[p] \subseteq DOMAIN Ensurers

\* A job that may revert something is the only one that runs.
AloneInv ==
    \A p, q \in Migrators :
        p # q /\ Running(p) /\ Running(q) => ~MayRevert(job[p]) /\ ~MayRevert(job[q])

\* The retries are counted, and a ping has its pool.
ConnInv(p) ==
    /\ pc[p] = "backoff" => tries[p] < Retries
    /\ pc[p] = "ping" => pool[p] = 1

IInv ==
    /\ MigratorInv
    /\ AloneInv
    /\ \A p \in Migrators : LoopInv(p) /\ ConnInv(p)

-----------------------------------------------------------------------------
(***************************************************************************)
(* The loops take the least or the greatest of what they have to do.       *)
(***************************************************************************)
LEMMA LeastIsMember ==
    ASSUME NEW S, S \subseteq Nat, S # {}
    PROVE  LeastOf(S) \in S /\ \A w \in S : LeastOf(S) <= w
<1>1. PICK x \in S : \A y \in S : ~(<<y, x>> \in OpToRel(<, Nat))
  BY NatLessThanWellFounded, WFMin
<1>2. \A y \in S : x <= y
  <2> TAKE y \in S
  <2>1. ~(y < x)
    BY <1>1 DEF OpToRel
  <2>2. x \in Nat /\ y \in Nat
    OBVIOUS
  <2> QED
    BY <2>1, <2>2
<1> QED
  BY <1>2 DEF LeastOf

LEMMA GreatestIsMember ==
    ASSUME NEW S, S \subseteq Versions, S # {}
    PROVE  GreatestOf(S) \in S /\ \A w \in S : GreatestOf(S) >= w
<1> DEFINE T == {Latest - s : s \in S}
<1>1. \A s \in S : s \in Int /\ Latest - s \in Nat
  BY MigrationsAssumption
<1>2. T \subseteq Nat /\ T # {}
  BY <1>1
<1>3. LeastOf(T) \in T /\ \A w \in T : LeastOf(T) <= w
  BY <1>2, LeastIsMember
<1>4. PICK s \in S : LeastOf(T) = Latest - s
  BY <1>3
<1>5. \A w \in S : Latest - s <= Latest - w
  BY <1>3, <1>4
<1>6. \A w \in S : s >= w
  BY <1>1, <1>5, MigrationsAssumption
<1> QED
  BY <1>6 DEF GreatestOf

-----------------------------------------------------------------------------
(***************************************************************************)
(* One process moves.                                                      *)
(***************************************************************************)

\* Another process is where it was, with the same job and the same work.
Stays(q) ==
    /\ pc'[q] = pc[q] /\ job'[q] = job[q] /\ tries'[q] = tries[q]
    /\ pool'[q] = pool[q] /\ todo'[q] = todo[q]

\* The job may go on or end; if it takes something away, it is alone.
Goes(p) ==
    /\ job' = job /\ Running(p)
    /\ schema \subseteq schema' \/ \A q \in Migrators \ {p} : ~Running(q)

\* What remains to show for a step of p: types, the recorded version, and p's
\* own part of the invariant.
LEMMA StepKeepsInv ==
    ASSUME IInv, NEW p \in Migrators, Goes(p), TypeOK', RecordedIsApplied',
           \A q \in Migrators \ {p} : Stays(q),
           LoopInv(p)', ConnInv(p)',
           pc'[p] \in {"dial", "backoff", "idle"} => pool'[p] = 0
    PROVE  IInv'
<1>1. NoPoolLeaks'
  BY DEF IInv, MigratorInv, NoPoolLeaks, Stays
<1>2. AloneInv'
  BY DEF IInv, AloneInv, Goes, Stays, Running, MayRevert
<1>3. ASSUME NEW q \in Migrators \ {p}
      PROVE  LoopInv(q)' /\ ConnInv(q)'
  <2>1. Stays(q) /\ LoopInv(q) /\ ConnInv(q)
    BY DEF IInv
  <2>2. CASE schema \subseteq schema'
    <3>1. \A v \in Versions : Applied(v) => Applied(v)'
      BY <2>2 DEF Applied
    <3> QED
      BY <2>1, <3>1 DEF LoopInv, ConnInv, Stays, Target
  <2>3. CASE ~Running(q)
    BY <2>1, <2>3 DEF LoopInv, ConnInv, Stays, Running
  <2> QED
    BY <2>2, <2>3 DEF Goes
<1> QED
  BY <1>1, <1>2, <1>3 DEF IInv, MigratorInv

\* Connecting, retrying and giving up.
LEMMA ConnectKeepsInv ==
    ASSUME IInv, NEW p \in Migrators, Connect(p)
    PROVE  IInv'
<1> USE DEF IInv, MigratorInv
<1>1. TypeOK /\ LoopInv(p) /\ ConnInv(p) /\ Retries \in Nat
  BY MigratorAssumption
<1>2. /\ UNCHANGED <<schema, table, recorded, job, todo, jobs>>
      /\ pc[p] \in {"dial", "ping", "backoff"}
      /\ \A q \in Migrators \ {p} : Stays(q)
  BY <1>1 DEF Connect, NewPool, NoPool, PingSucceeds, PingFails, Retry, CancelRetry,
     connVars, Goto, Stays, TypeOK
<1>3. pool[p] = IF pc[p] = "ping" THEN 1 ELSE 0
  BY <1>1, <1>2 DEF NoPoolLeaks, ConnInv
<1>4. /\ pc' \in [Migrators -> Labels]
      /\ tries' \in [Migrators -> 0..Retries] /\ pool' \in [Migrators -> 0..1]
      /\ pc'[p] \in {"dial", "ping", "backoff", "create", "target", "failed"}
      /\ pc'[p] \in {"dial", "backoff"} => pool'[p] = 0
      /\ pc'[p] = "ping" => pool'[p] = 1
      /\ pc'[p] = "backoff" => tries'[p] < Retries
  <2>1. CASE NewPool(p)
    BY <1>1, <1>3, <2>1 DEF NewPool, Goto, TypeOK, Labels
  <2>2. CASE NoPool(p)
    BY <1>1, <1>3, <2>2 DEF NoPool, AfterFailure, connVars, Goto, TypeOK, Labels
  <2>3. CASE PingSucceeds(p)
    BY <1>1, <1>3, <2>3 DEF PingSucceeds, connVars, Goto, TypeOK, Labels
  <2>4. CASE PingFails(p)
    BY <1>1, <1>3, <2>4 DEF PingFails, AfterFailure, Goto, TypeOK, Labels
  <2>5. CASE Retry(p)
    BY <1>1, <1>3, <2>5 DEF Retry, ConnInv, Goto, TypeOK, Labels
  <2>6. CASE CancelRetry(p)
    BY <1>1, <1>3, <2>6 DEF CancelRetry, connVars, Goto, TypeOK, Labels
  <2> QED
    BY <2>1, <2>2, <2>3, <2>4, <2>5, <2>6 DEF Connect
<1>5. TypeOK' /\ RecordedIsApplied'
  BY <1>1, <1>2, <1>4 DEF TypeOK, RecordedIsApplied, Applied
<1>6. Goes(p) /\ LoopInv(p)' /\ ConnInv(p)'
  BY <1>2, <1>4 DEF Goes, Running, LoopInv, ConnInv
<1> QED
  BY <1>2, <1>4, <1>5, <1>6, StepKeepsInv

\* A process is started.
LEMMA BeginKeepsInv ==
    ASSUME IInv, NEW p \in Migrators, NEW j \in Jobs, Begin(p, j)
    PROVE  IInv'
<1> USE DEF IInv, MigratorInv
<1>1. TypeOK' /\ RecordedIsApplied' /\ NoPoolLeaks'
  BY MigratorAssumption DEF Begin, Goto, TypeOK, Labels, RecordedIsApplied, Applied, NoPoolLeaks
<1>2. \A q \in Migrators \ {p} : Stays(q) /\ (Running(q)' <=> Running(q))
  BY DEF Begin, Goto, Stays, TypeOK, Running
<1>3. AloneInv'
  <2> SUFFICES ASSUME NEW q \in Migrators, NEW r \in Migrators, q # r, Running(q)', Running(r)'
               PROVE  ~MayRevert(job'[q]) /\ ~MayRevert(job'[r])
    BY DEF AloneInv, MayRevert
  <2>1. job'[p] = j
    BY DEF Begin, TypeOK
  <2>2. CASE q = p
    BY <1>2, <2>1, <2>2 DEF Begin, RunsAlone, Stays
  <2>3. CASE r = p
    BY <1>2, <2>1, <2>3 DEF Begin, RunsAlone, Stays
  <2>4. CASE q # p /\ r # p
    BY <1>2, <2>4 DEF AloneInv, Stays
  <2> QED
    BY <2>2, <2>3, <2>4
<1>4. ASSUME NEW q \in Migrators
      PROVE  LoopInv(q)' /\ ConnInv(q)'
  <2>1. CASE q = p
    BY <2>1 DEF Begin, Goto, TypeOK, LoopInv, ConnInv
  <2>2. CASE q # p
    BY <1>2, <2>2 DEF Begin, Stays, LoopInv, ConnInv, Target, Applied
  <2> QED
    BY <2>1, <2>2
<1> QED
  BY <1>1, <1>3, <1>4

\* A migration is applied: it is the least its process has to do, so every
\* older one the recorded version will stand for is there.
LEMMA ApplyKeepsInv ==
    ASSUME IInv, NEW p \in Migrators, ApplyMigration(p)
    PROVE  IInv'
<1>0. PICK v : v = LeastOf(todo[p])
  OBVIOUS
<1>1. TypeOK /\ RecordedIsApplied /\ LoopInv(p) /\ ConnInv(p)
  BY DEF IInv, MigratorInv
<1>2. /\ pc[p] \in {"apply", "raise"} /\ todo[p] # {} /\ todo[p] \subseteq Versions
      /\ schema' = schema \cup Migrations[v].makes
      /\ Records(p, v)
      /\ todo' = [todo EXCEPT ![p] = @ \ {v}]
      /\ UNCHANGED <<table, pc, job, tries, pool, jobs>>
  BY <1>0, <1>1 DEF ApplyMigration, LoopInv, connVars
<1>3. v \in todo[p] /\ \A w \in todo[p] : v <= w
  BY <1>0, <1>2, LeastIsMember, MigrationsAssumption
<1>4. v \in Versions /\ v \in 0..Latest
  BY <1>2, <1>3, MigrationsAssumption
<1>5. TypeOK'
  <2>1. Migrations[v].makes \subseteq Objects
    BY <1>4 DEF Objects
  <2>2. recorded' \in 0..Latest
    BY <1>1, <1>2, <1>4 DEF Records, TypeOK
  <2> QED
    BY <1>1, <1>2, <2>1, <2>2 DEF TypeOK
<1>6. /\ \A w \in Versions : Applied(w) => Applied(w)'
      /\ Applied(v)'
  BY <1>2 DEF Applied
<1>7. RecordedIsApplied'
  <2>1. CASE UNCHANGED recorded
    BY <1>1, <1>6, <2>1 DEF RecordedIsApplied
  <2>2. CASE recorded' = v
    <3> SUFFICES ASSUME NEW w \in Versions, w <= v PROVE Applied(w)'
      BY <2>2 DEF RecordedIsApplied
    <3>1. CASE w \in todo[p]
      <4>1. w = v
        BY <1>3, <1>4, <3>1, MigrationsAssumption
      <4> QED
        BY <1>6, <4>1
    <3>2. CASE w \notin todo[p]
      <4>1. pc[p] = "raise" => w <= Target(p)
        <5>1. pc[p] = "raise" => v <= Target(p)
          BY <1>1, <1>3 DEF LoopInv
        <5>2. Target(p) \in Int /\ v \in Int /\ w \in Int
          BY <1>1, <1>4, MigrationsAssumption DEF TypeOK, Target
        <5> QED
          BY <5>1, <5>2
      <4>2. Applied(w)
        BY <1>1, <1>2, <3>2, <4>1 DEF LoopInv
      <4> QED
        BY <1>6, <4>2
    <3> QED
      BY <3>1, <3>2
  <2> QED
    BY <1>2, <2>1, <2>2 DEF Records
<1>8. LoopInv(p)'
  <2>1. todo'[p] = todo[p] \ {v} /\ pc'[p] = pc[p] /\ Target(p)' = Target(p)
    BY <1>1, <1>2 DEF TypeOK, Target
  <2> QED
    BY <1>1, <1>2, <1>6, <2>1 DEF LoopInv
<1>9. /\ \A q \in Migrators \ {p} : Stays(q)
      /\ Goes(p) /\ ConnInv(p)'
      /\ pc'[p] \notin {"dial", "backoff", "idle"}
  BY <1>1, <1>2 DEF Stays, Goes, Running, ConnInv, TypeOK
<1> QED
  BY <1>5, <1>7, <1>8, <1>9, StepKeepsInv

\* The previous version is the target, or the target is no version at all.
LEMMA PreviousVersionIsBelow ==
    ASSUME NEW v \in Versions, NEW t \in 0..Latest, t < v
    PROVE  PreviousVersion(v, t) \in 0..t
<1> DEFINE kept == {w \in Versions : w < v /\ w <= t}
<1>1. CASE kept = {}
  BY <1>1 DEF PreviousVersion
<1>2. CASE kept # {}
  <2>1. GreatestOf(kept) \in kept
    BY <1>2, GreatestIsMember
  <2> QED
    BY <1>2, <2>1, MigrationsAssumption DEF PreviousVersion
<1> QED
  BY <1>1, <1>2

\* A migration is reverted, by a process that is alone.
LEMMA RevertKeepsInv ==
    ASSUME IInv, NEW p \in Migrators, RevertMigration(p)
    PROVE  IInv'
<1> DEFINE v == GreatestOf(todo[p])
<1> DEFINE u == PreviousVersion(v, Target(p))
<1>1. TypeOK /\ RecordedIsApplied /\ LoopInv(p) /\ ConnInv(p) /\ AloneInv
  BY DEF IInv, MigratorInv
<1>2. /\ pc[p] = "revert" /\ todo[p] # {} /\ todo[p] \subseteq Versions
      /\ schema' = schema \ Migrations[v].takes
      /\ Records(p, u)
      /\ todo' = [todo EXCEPT ![p] = @ \ {v}]
      /\ UNCHANGED <<table, pc, job, tries, pool, jobs>>
  BY <1>1 DEF RevertMigration, LoopInv, connVars
<1>3. v \in todo[p] /\ v \in Versions
  BY <1>2, GreatestIsMember
<1>4. Target(p) \in 0..Latest /\ Target(p) < v /\ Target(p) < Latest
  BY <1>1, <1>2, <1>3, MigrationsAssumption DEF TypeOK, Target, LoopInv
<1>5. \A q \in Migrators \ {p} : ~Running(q)
  BY <1>1, <1>2, <1>4 DEF AloneInv, Running, MayRevert, Target
<1>6. recorded' = u /\ u \in 0..Target(p)
  BY <1>2, <1>3, <1>4, <1>5, PreviousVersionIsBelow DEF Records
<1>7. \A w \in Versions : w <= Target(p) => Applied(w)'
  <2> SUFFICES ASSUME NEW w \in Versions, w <= Target(p) PROVE Applied(w)'
    OBVIOUS
  <2>1. Applied(w)
    BY <1>1, <1>2 DEF LoopInv
  <2>2. w < v
    BY <1>3, <1>4, MigrationsAssumption
  <2>3. Migrations[v].takes \cap Migrations[w].makes = {}
    BY <1>3, <2>2, MigrationsAssumption
  <2> QED
    BY <1>2, <2>1, <2>3 DEF Applied
<1>8. TypeOK'
  <2>1. recorded' \in 0..Latest
    BY <1>4, <1>6, MigrationsAssumption
  <2> QED
    BY <1>1, <1>2, <2>1 DEF TypeOK
<1>9. RecordedIsApplied'
  <2> SUFFICES ASSUME NEW w \in Versions, w <= recorded' PROVE Applied(w)'
    BY DEF RecordedIsApplied
  <2>1. w <= Target(p)
    BY <1>4, <1>6, MigrationsAssumption
  <2> QED
    BY <1>7, <2>1
<1>10. LoopInv(p)'
  BY <1>1, <1>2, <1>7 DEF LoopInv, TypeOK, Target
<1>11. /\ \A q \in Migrators \ {p} : Stays(q)
       /\ Goes(p) /\ ConnInv(p)'
       /\ pc'[p] \notin {"dial", "backoff", "idle"}
  BY <1>1, <1>2, <1>5 DEF Stays, Goes, Running, ConnInv, TypeOK
<1> QED
  BY <1>8, <1>9, <1>10, <1>11, StepKeepsInv

\* The ensurers only add to the schema.
LEMMA EnsurerKeepsInv ==
    ASSUME IInv, NEW p \in Migrators, RunEnsurer(p)
    PROVE  IInv'
<1>0. PICK e : e = LeastOf(todo[p])
  OBVIOUS
<1>1. TypeOK /\ RecordedIsApplied /\ LoopInv(p) /\ ConnInv(p)
  BY DEF IInv, MigratorInv
<1>2. /\ pc[p] = "ensure" /\ todo[p] # {} /\ todo[p] \subseteq DOMAIN Ensurers
      /\ schema' = schema \cup Ensurers[e].makes
      /\ todo' = [todo EXCEPT ![p] = @ \ {e}]
      /\ UNCHANGED <<table, recorded, pc, job, tries, pool, jobs>>
  BY <1>0, <1>1 DEF RunEnsurer, LoopInv, connVars
<1>3. e \in DOMAIN Ensurers
  BY <1>0, <1>2, LeastIsMember, MigrationsAssumption
<1>4. TypeOK'
  <2>1. Ensurers[e].makes \subseteq Objects
    BY <1>3 DEF Objects
  <2>2. schema' \subseteq Objects
    BY <1>1, <1>2, <2>1 DEF TypeOK
  <2>3. todo' \in [Migrators -> SUBSET (Versions \cup DOMAIN Ensurers)]
    BY <1>1, <1>2 DEF TypeOK
  <2> QED
    BY <1>1, <1>2, <2>2, <2>3 DEF TypeOK
<1>5. RecordedIsApplied' /\ LoopInv(p)'
  BY <1>1, <1>2 DEF RecordedIsApplied, Applied, LoopInv, TypeOK
<1>6. /\ \A q \in Migrators \ {p} : Stays(q)
      /\ Goes(p) /\ ConnInv(p)'
      /\ pc'[p] \notin {"dial", "backoff", "idle"}
  BY <1>1, <1>2 DEF Stays, Goes, Running, ConnInv, TypeOK
<1> QED
  BY <1>4, <1>5, <1>6, StepKeepsInv

\* The steps that read the version, go on to the next loop, end or fail.
LEMMA PassKeepsInv ==
    ASSUME IInv, NEW p \in Migrators,
           \/ CreateSchemaVersionTable(p) \/ ReadPending(p) \/ StartEnsurers(p)
           \/ CreateTablesDone(p) \/ ReadForTarget(p) \/ Finish(p) \/ Fail(p)
    PROVE  IInv'
<1>1. TypeOK /\ RecordedIsApplied /\ LoopInv(p) /\ ConnInv(p)
  BY DEF IInv, MigratorInv
<1>2. /\ UNCHANGED <<schema, recorded, job, tries, pool, jobs>>
      /\ Running(p) /\ \A q \in Migrators \ {p} : Stays(q)
      /\ pc'[p] \in {"pending", "apply", "ensure", "target", "raise", "revert", "done", "failed"}
  BY <1>1 DEF CreateSchemaVersionTable, ReadPending, StartEnsurers, CreateTablesDone, ReadForTarget,
     Finish, Fail, connVars, Goto, Stays, Running, TypeOK
<1>3. TypeOK'
  <2>1. pc' \in [Migrators -> Labels] /\ table' \in BOOLEAN
    BY <1>1 DEF CreateSchemaVersionTable, ReadPending, StartEnsurers, CreateTablesDone, ReadForTarget,
       Finish, Fail, Goto, Labels, TypeOK
  <2>2. todo' \in [Migrators -> SUBSET (Versions \cup DOMAIN Ensurers)]
    BY <1>1 DEF CreateSchemaVersionTable, ReadPending, StartEnsurers, CreateTablesDone, ReadForTarget,
       Finish, Fail, TypeOK
  <2> QED
    BY <1>1, <1>2, <2>1, <2>2 DEF TypeOK
<1>4. \A v \in Versions : Applied(v)' <=> Applied(v)
  BY <1>2 DEF Applied
<1>5. recorded \in Int /\ Target(p) \in Int /\ \A v \in Versions : v \in Int
  BY <1>1, MigrationsAssumption DEF TypeOK, Target
<1>6. LoopInv(p)'
  <2>1. CASE ReadPending(p)
    BY <1>1, <1>4, <1>5, <2>1 DEF ReadPending, RecordedIsApplied, LoopInv, Goto, TypeOK
  <2>2. CASE ReadForTarget(p)
    <3>1. CASE Target(p) > recorded
      BY <1>1, <1>4, <1>5, <2>2, <3>1 DEF ReadForTarget, RecordedIsApplied, LoopInv, Goto, TypeOK, Target
    <3>2. CASE Target(p) <= recorded
      <4>1. \A v \in Versions : v <= Target(p) => Applied(v)'
        BY <1>1, <1>4, <1>5, <3>2 DEF RecordedIsApplied
      <4>2. /\ pc'[p] = "revert" /\ Target(p)' = Target(p)
            /\ \A v \in todo'[p] : v \in Versions /\ v > Target(p)
        BY <1>1, <1>2, <1>5, <2>2, <3>2 DEF ReadForTarget, Goto, TypeOK, Target
      <4> QED
        BY <4>1, <4>2 DEF LoopInv
    <3> QED
      BY <1>5, <3>1, <3>2
  <2>3. CASE StartEnsurers(p)
    BY <1>1, <2>3 DEF StartEnsurers, LoopInv, Goto, TypeOK
  <2>4. CASE CreateSchemaVersionTable(p) \/ CreateTablesDone(p) \/ Finish(p) \/ Fail(p)
    BY <1>1, <2>4 DEF CreateSchemaVersionTable, CreateTablesDone, Finish, Fail, LoopInv, Goto, TypeOK
  <2> QED
    BY <2>1, <2>2, <2>3, <2>4
<1>7. RecordedIsApplied' /\ Goes(p) /\ ConnInv(p)'
  BY <1>1, <1>2, <1>4 DEF RecordedIsApplied, Goes, ConnInv
<1> QED
  BY <1>2, <1>3, <1>6, <1>7, StepKeepsInv

\* A session is closed.
LEMMA CloseKeepsInv ==
    ASSUME IInv, NEW p \in Migrators, Close(p)
    PROVE  IInv'
<1>1. TypeOK /\ RecordedIsApplied /\ NoPoolLeaks /\ AloneInv
  BY DEF IInv, MigratorInv
<1>2. /\ \A q \in Migrators \ {p} : Stays(q)
      /\ pc'[p] = "idle" /\ pool'[p] = 0
      /\ UNCHANGED <<schema, table, recorded, job, tries, todo, jobs>>
  BY <1>1 DEF Close, Goto, Stays, TypeOK
<1>3. TypeOK' /\ RecordedIsApplied' /\ NoPoolLeaks'
  BY <1>1, <1>2 DEF Close, Goto, TypeOK, Labels, RecordedIsApplied, Applied, NoPoolLeaks, Stays
<1>4. AloneInv'
  BY <1>1, <1>2 DEF AloneInv, Stays, Running, MayRevert
<1>5. ASSUME NEW q \in Migrators
      PROVE  LoopInv(q)' /\ ConnInv(q)'
  <2>1. LoopInv(q) /\ ConnInv(q)
    BY DEF IInv
  <2>2. CASE q = p
    BY <1>2, <2>2 DEF LoopInv, ConnInv
  <2>3. CASE q # p
    BY <1>2, <2>1, <2>3 DEF Stays, LoopInv, ConnInv, Target, Applied
  <2> QED
    BY <2>2, <2>3
<1> QED
  BY <1>3, <1>4, <1>5 DEF IInv, MigratorInv

-----------------------------------------------------------------------------
\* IInv is inductive.
LEMMA IInvInductive == Spec => []IInv
<1>1. Init => IInv
  <2> SUFFICES ASSUME Init PROVE IInv
    OBVIOUS
  <2>1. TypeOK
    <3>1. <<"run", Latest>> \in JobKinds \X (0..Latest)
      BY MigrationsAssumption DEF JobKinds
    <3>2. job \in [Migrators -> JobKinds \X (0..Latest)]
      BY <3>1 DEF Init
    <3>3. schema \subseteq Objects /\ table \in BOOLEAN
      BY Zenon DEF Init
    <3>4. recorded \in 0..Latest /\ jobs \in 0..MaxJobs
      BY MigratorAssumption, MigrationsAssumption DEF Init
    <3>5. tries \in [Migrators -> 0..Retries] /\ pool \in [Migrators -> 0..1]
      BY MigratorAssumption DEF Init
    <3>6. pc \in [Migrators -> Labels]
      BY DEF Init, Labels
    <3>7. todo \in [Migrators -> SUBSET (Versions \cup DOMAIN Ensurers)]
      BY DEF Init
    <3> QED
      BY <3>2, <3>3, <3>4, <3>5, <3>6, <3>7 DEF TypeOK
  <2>2. RecordedIsApplied
    BY MigrationsAssumption DEF Init, RecordedIsApplied
  <2>3. NoPoolLeaks /\ AloneInv /\ \A p \in Migrators : LoopInv(p) /\ ConnInv(p)
    BY DEF Init, NoPoolLeaks, AloneInv, LoopInv, ConnInv, Running
  <2> QED
    BY <2>1, <2>2, <2>3 DEF IInv, MigratorInv
<1>2. IInv /\ [Next]_vars => IInv'
  <2> SUFFICES ASSUME IInv, [Next]_vars PROVE IInv'
    OBVIOUS
  <2>1. ASSUME NEW p \in Migrators, Migrate(p) PROVE IInv'
    BY <2>1, ApplyKeepsInv, RevertKeepsInv, EnsurerKeepsInv, PassKeepsInv, CloseKeepsInv DEF Migrate
  <2>2. CASE UNCHANGED vars
    BY <2>2 DEF vars, connVars, IInv, MigratorInv, TypeOK, RecordedIsApplied, Applied, NoPoolLeaks,
       AloneInv, LoopInv, ConnInv, Running, MayRevert, Target
  <2> QED
    BY <2>1, <2>2, ConnectKeepsInv, BeginKeepsInv DEF Next
<1> QED
  BY <1>1, <1>2, PTL DEF Spec

\* Whatever the migrations are, however many processes migrate and wherever they
\* fail: what the version table says is applied, and no pool is left behind.
THEOREM MigratorInvariant == Spec => []MigratorInv
<1>1. IInv => MigratorInv
  BY DEF IInv
<1> QED
  BY <1>1, IInvInductive, PTL

-----------------------------------------------------------------------------
(***************************************************************************)
(* What RunPostgresMigrations leaves when it returns nil.                  *)
(*                                                                         *)
(* To the latest version, the loop invariant says that all is applied.  To *)
(* an older one, the job is alone, so the version it reads after           *)
(* CreateTables is the latest and its downs start at the very top; each    *)
(* takes something its own up made, and no one makes it again.             *)
(***************************************************************************)
UndoInv(p) ==
    job[p][1] = "run" /\ MayRevert(job[p]) =>
        /\ pc[p] = "apply" => Latest \in todo[p] \/ (todo[p] = {} /\ recorded = Latest)
        /\ pc[p] \in {"ensure", "target"} => recorded = Latest
        /\ pc[p] # "raise"
        /\ pc[p] = "revert" =>
              \A v \in Versions \ todo[p] : v > Target(p) => ~Applied(v)

\* While a job that may revert something runs, no other one touches the schema.
LEMMA OthersRest ==
    ASSUME IInv, NEW p \in Migrators, Running(p), MayRevert(job[p]),
           NEW q \in Migrators \ {p},
           (\E j \in Jobs : Begin(q, j)) \/ Connect(q) \/ Migrate(q)
    PROVE  /\ UNCHANGED <<schema, recorded>>
           /\ pc'[p] = pc[p] /\ job'[p] = job[p] /\ todo'[p] = todo[p]
<1>1. TypeOK /\ ~Running(q)
  BY DEF IInv, MigratorInv, AloneInv
<1>2. ~Connect(q)
  BY <1>1 DEF Connect, NewPool, NoPool, PingSucceeds, PingFails, Retry, CancelRetry, Running
<1>3. ASSUME NEW j \in Jobs PROVE ~Begin(q, j)
  BY DEF Begin, RunsAlone
<1>4. Close(q)
  BY <1>1, <1>2, <1>3 DEF Migrate, CreateSchemaVersionTable, ReadPending, ApplyMigration, StartEnsurers,
     RunEnsurer, CreateTablesDone, ReadForTarget, RevertMigration, Finish, Fail, Running
<1> QED
  BY <1>1, <1>4 DEF Close, Goto, TypeOK

\* A step of one process leaves the others where they are.
LEMMA OthersStay ==
    ASSUME IInv, NEW q \in Migrators,
           (\E j \in Jobs : Begin(q, j)) \/ Connect(q) \/ Migrate(q)
    PROVE  \A p \in Migrators \ {q} : pc'[p] = pc[p] /\ job'[p] = job[p]
<1>1. TypeOK
  BY DEF IInv, MigratorInv
<1>2. CASE \E j \in Jobs : Begin(q, j)
  BY <1>1, <1>2 DEF Begin, Goto, TypeOK
<1>3. CASE Connect(q)
  BY <1>1, <1>3 DEF Connect, NewPool, NoPool, PingSucceeds, PingFails, Retry, CancelRetry, Goto, TypeOK
<1>4. CASE Migrate(q)
  BY <1>1, <1>4 DEF Migrate, CreateSchemaVersionTable, ReadPending, ApplyMigration, StartEnsurers,
     RunEnsurer, CreateTablesDone, ReadForTarget, RevertMigration, Finish, Fail, Close, Goto, TypeOK
<1> QED
  BY <1>2, <1>3, <1>4

\* The only process that runs records what it applies.
LEMMA AloneRecords ==
    ASSUME IInv, NEW p \in Migrators, Running(p), MayRevert(job[p]), NEW v, Records(p, v)
    PROVE  recorded' = v
BY DEF IInv, AloneInv, Records

LEMMA UndoStep ==
    ASSUME DownsUndo, IInv, NEW p \in Migrators, UndoInv(p),
           (\E j \in Jobs : Begin(p, j)) \/ Connect(p) \/ Migrate(p),
           job'[p][1] = "run", MayRevert(job'[p])
    PROVE  /\ pc'[p] = "apply" => Latest \in todo'[p] \/ (todo'[p] = {} /\ recorded' = Latest)
           /\ pc'[p] \in {"ensure", "target"} => recorded' = Latest
           /\ pc'[p] # "raise"
           /\ pc'[p] = "revert" =>
                 \A v \in Versions \ todo'[p] : v > job'[p][2] => ~Applied(v)'
<1> DEFINE Goal ==
           /\ pc'[p] = "apply" => Latest \in todo'[p] \/ (todo'[p] = {} /\ recorded' = Latest)
           /\ pc'[p] \in {"ensure", "target"} => recorded' = Latest
           /\ pc'[p] # "raise"
           /\ pc'[p] = "revert" =>
                 \A v \in Versions \ todo'[p] : v > job'[p][2] => ~Applied(v)'
<1>1. TypeOK /\ LoopInv(p)
  BY DEF IInv, MigratorInv
<1>2. CASE \E j \in Jobs : Begin(p, j)
  BY <1>1, <1>2 DEF Begin, Goto, TypeOK
<1>3. ASSUME job' = job
      PROVE  /\ job[p][1] = "run" /\ MayRevert(job[p])
             /\ Target(p) \in 0..Latest /\ Target(p) < Latest /\ Latest \in Versions
  BY <1>1, <1>3, MigrationsAssumption DEF TypeOK, MayRevert, Target
<1>4. CASE Connect(p)
  <2>1. job' = job /\ (pc'[p] \in {"dial", "ping", "backoff", "create", "failed"})
    BY <1>1, <1>3, <1>4 DEF Connect, NewPool, NoPool, PingSucceeds, PingFails, Retry, CancelRetry,
       AfterFailure, connVars, Goto, TypeOK
  <2> QED
    BY <2>1
<1>5. CASE \/ CreateSchemaVersionTable(p) \/ Finish(p) \/ Fail(p) \/ Close(p)
  BY <1>1, <1>5 DEF CreateSchemaVersionTable, Finish, Fail, Close, Goto, TypeOK
<1>6. CASE ReadPending(p)
  <2>1. /\ job' = job /\ pc'[p] = "apply" /\ recorded' = recorded
        /\ todo'[p] = {v \in Versions : v > recorded}
    BY <1>1, <1>6 DEF ReadPending, Goto, TypeOK
  <2>2. Latest \in Versions /\ \A v \in Versions : v <= Latest /\ v \in Int
    BY <1>3, <2>1, MigrationsAssumption
  <2>3. recorded \in 0..Latest
    BY <1>1 DEF TypeOK
  <2>4. CASE recorded = Latest
    <3>1. todo'[p] = {}
      BY <2>1, <2>2, <2>4
    <3> QED
      BY <2>1, <2>4, <3>1
  <2>5. CASE recorded # Latest
    <3>1. Latest \in todo'[p]
      BY <2>1, <2>2, <2>3, <2>5, MigrationsAssumption
    <3> QED
      BY <2>1, <3>1
  <2> QED
    BY <2>4, <2>5
<1>7. CASE ApplyMigration(p)
  <2> DEFINE v == LeastOf(todo[p])
  <2>1. /\ job' = job /\ pc' = pc /\ pc[p] \in {"apply", "raise"} /\ todo[p] # {}
        /\ todo'[p] = todo[p] \ {v}
        /\ Records(p, v)
    BY <1>1, <1>7 DEF ApplyMigration, connVars, TypeOK
  <2>2. pc[p] = "apply" /\ Latest \in todo[p] /\ Running(p)
    BY <1>3, <2>1 DEF UndoInv, Running
  <2>3. todo[p] \subseteq Versions /\ recorded' = v
    BY <1>1, <1>3, <2>1, <2>2, AloneRecords DEF LoopInv
  <2>4. CASE v = Latest
    <3>1. \A w \in todo[p] : v <= w
      BY <2>1, <2>3, LeastIsMember, MigrationsAssumption
    <3>2. todo[p] = {Latest}
      BY <2>2, <2>3, <2>4, <3>1, MigrationsAssumption
    <3> QED
      BY <2>1, <2>2, <2>3, <2>4, <3>2
  <2>5. CASE v # Latest
    BY <2>1, <2>2, <2>5
  <2> QED
    BY <2>4, <2>5
<1>8. CASE StartEnsurers(p) \/ RunEnsurer(p) \/ CreateTablesDone(p)
  <2>1. /\ job' = job /\ recorded' = recorded /\ pc'[p] \in {"ensure", "target"}
        /\ pc[p] = "ensure" \/ (pc[p] = "apply" /\ todo[p] = {})
    BY <1>1, <1>8 DEF StartEnsurers, RunEnsurer, CreateTablesDone, connVars, Goto, TypeOK
  <2> QED
    BY <1>3, <2>1 DEF UndoInv
<1>9. CASE ReadForTarget(p)
  <2>1. job' = job /\ pc[p] = "target"
    BY <1>9 DEF ReadForTarget
  <2>2. recorded = Latest
    BY <1>3, <2>1 DEF UndoInv
  <2>3. ~(Target(p) > recorded)
    BY <1>3, <2>1, <2>2, MigrationsAssumption
  <2>4. /\ pc'[p] = "revert"
        /\ todo'[p] = {v \in Versions : Target(p) < v /\ v <= recorded} \ Irreversible
    BY <1>1, <1>9, <2>3 DEF ReadForTarget, Goto, TypeOK
  <2>5. \A v \in Versions : v > Target(p) => v \in todo'[p]
    BY <1>3, <2>1, <2>2, <2>4, MigrationsAssumption DEF DownsUndo
  <2> QED
    BY <2>1, <2>4, <2>5 DEF Target
<1>10. CASE RevertMigration(p)
  <2> DEFINE v == GreatestOf(todo[p])
  <2>1. /\ job' = job /\ pc' = pc /\ pc[p] = "revert" /\ todo[p] # {}
        /\ todo'[p] = todo[p] \ {v}
        /\ schema' = schema \ Migrations[v].takes
    BY <1>1, <1>10 DEF RevertMigration, connVars, TypeOK
  <2>2. v \in Versions
    BY <1>1, <2>1, GreatestIsMember DEF LoopInv
  <2>3. ASSUME NEW w \in Versions \ todo'[p], w > job'[p][2]
        PROVE  ~Applied(w)'
    <3>1. CASE w = v
      BY <2>1, <2>2, <3>1 DEF Applied, DownsUndo
    <3>2. CASE w # v
      <4>1. ~Applied(w)
        BY <1>3, <2>1, <2>3, <3>2 DEF UndoInv, Target
      <4> QED
        BY <2>1, <4>1 DEF Applied
    <3> QED
      BY <3>1, <3>2
  <2> QED
    BY <2>1, <2>3
<1> QED
  BY <1>2, <1>4, <1>5, <1>6, <1>7, <1>8, <1>9, <1>10 DEF Migrate

LEMMA UndoInvInductive ==
    ASSUME DownsUndo
    PROVE  Spec => [](IInv /\ \A p \in Migrators : UndoInv(p))
<1>1. Init => \A p \in Migrators : UndoInv(p)
  BY DEF Init, UndoInv
<1>2. IInv /\ (\A p \in Migrators : UndoInv(p)) /\ [Next]_vars => (\A p \in Migrators : UndoInv(p))'
  <2> SUFFICES ASSUME IInv, \A q \in Migrators : UndoInv(q), [Next]_vars, NEW p \in Migrators
               PROVE  UndoInv(p)'
    OBVIOUS
  <2>1. CASE UNCHANGED vars
    BY <2>1 DEF vars, connVars, UndoInv, MayRevert, Target, Applied
  <2>2. CASE (\E j \in Jobs : Begin(p, j)) \/ Connect(p) \/ Migrate(p)
    BY <2>2, UndoStep DEF UndoInv, MayRevert, Target
  <2>3. ASSUME NEW q \in Migrators \ {p}, (\E j \in Jobs : Begin(q, j)) \/ Connect(q) \/ Migrate(q)
        PROVE  UndoInv(p)'
    <3>1. CASE Running(p) /\ MayRevert(job[p])
      BY <2>3, <3>1, OthersRest DEF UndoInv, MayRevert, Target, Applied
    <3>2. CASE ~(Running(p) /\ MayRevert(job[p]))
      <4>1. pc'[p] = pc[p] /\ job'[p] = job[p]
        BY <2>3, OthersStay
      <4> QED
        BY <3>2, <4>1 DEF UndoInv, MayRevert, Running
    <3> QED
      BY <3>1, <3>2
  <2> QED
    BY <2>1, <2>2, <2>3 DEF Next
<1> QED
  BY <1>1, <1>2, IInvInductive, PTL DEF Spec

\* When every version can be reverted and every down takes something its own up
\* made: RunPostgresMigrations returns nil over the schema of its target, all of
\* it and nothing newer, whatever jobs stopped half-way before it or ran beside it.
THEOREM RunsEndAtTarget ==
    ASSUME DownsUndo
    PROVE  Spec => RunReachesTarget
<1>1. IInv /\ (\A p \in Migrators : UndoInv(p)) /\ [Next]_vars
        => [\A p \in Migrators :
              Running(p) /\ pc'[p] = "done" /\ job[p][1] = "run" => AtTarget(Target(p))]_vars
  <2> SUFFICES ASSUME IInv, NEW p \in Migrators, UndoInv(p), Next,
                      Running(p), pc'[p] = "done", job[p][1] = "run"
               PROVE  AtTarget(Target(p))
    OBVIOUS
  <2>1. TypeOK /\ LoopInv(p)
    BY DEF IInv, MigratorInv
  <2>2. pc[p] # "done"
    BY DEF Running
  <2>3. \A q \in Migrators \ {p} : ~((\E j \in Jobs : Begin(q, j)) \/ Connect(q) \/ Migrate(q))
    BY <2>2, OthersStay
  <2>4. (\E j \in Jobs : Begin(p, j)) \/ Connect(p) \/ Migrate(p)
    BY <2>3 DEF Next
  <2>5. ~(\E j \in Jobs : Begin(p, j)) /\ ~Connect(p)
    BY <2>1 DEF Begin, Connect, NewPool, NoPool, PingSucceeds, PingFails, Retry, CancelRetry,
       AfterFailure, Goto, TypeOK
  <2>6. Finish(p)
    BY <2>1, <2>2, <2>4, <2>5 DEF Migrate, CreateSchemaVersionTable, ReadPending, ApplyMigration,
       StartEnsurers, RunEnsurer, CreateTablesDone, ReadForTarget, RevertMigration, Fail, Close,
       Goto, TypeOK
  <2>7. pc[p] \in {"raise", "revert"} /\ todo[p] = {}
    BY <2>6 DEF Finish
  <2>8. \A v \in Versions : v <= Target(p) => Applied(v)
    BY <2>1, <2>7 DEF LoopInv
  <2>9. ASSUME NEW v \in Versions, ~(v <= Target(p)) PROVE ~Applied(v)
    <3>1. Target(p) \in 0..Latest /\ v \in 1..Latest
      BY <2>1, MigrationsAssumption DEF TypeOK, Target
    <3>2. v > Target(p) /\ MayRevert(job[p])
      BY <2>9, <3>1, MigrationsAssumption DEF MayRevert, Target
    <3> QED
      BY <2>7, <3>2 DEF UndoInv
  <2>10. \A v \in Versions : Applied(v) \in BOOLEAN /\ (v <= Target(p)) \in BOOLEAN
    BY DEF Applied
  <2> QED
    BY <2>8, <2>9, <2>10 DEF AtTarget
<1> QED
  BY <1>1, UndoInvInductive, PTL DEF Spec, RunReachesTarget

-----------------------------------------------------------------------------
(***************************************************************************)
(* What the readiness probe stands for.                                    *)
(*                                                                         *)
(* The probe asks for what v2 to v4 and v6 to v8 make, but not for the     *)
(* keys of v5.  The newest migration's column answers for them: it comes   *)
(* after all others, and is the first to go.                               *)
(***************************************************************************)
ClaimantInv ==
    /\ \A p \in Migrators : job[p][1] = "to" => Target(p) >= 5
    /\ "claimed_by" \in schema => \A v \in 1..5 : Applied(v)

\* Of slippy's migrations, the last alone makes and takes the claimant column.
LEMMA SlippySchema ==
    ASSUME SlippyMigrates
    PROVE  /\ Latest = 8 /\ Versions = 1..8
           /\ \A v \in 1..8 : "claimed_by" \in Migrations[v].makes <=> v = 8
           /\ \A e \in DOMAIN Ensurers : "claimed_by" \notin Ensurers[e].makes
           /\ "claimed_by" \in Migrations[8].takes
           /\ Migrations[6].makes = {"claimed_from"} /\ Migrations[7].makes = {"rollbacks"}
           /\ Migrations[8].makes = {"claimed_by"}
<1>1. /\ Len(GenerateMigrations) = 8
      /\ GenerateMigrations[1] = EnumsMigration /\ GenerateMigrations[2] = RoutingSlipsMigration
      /\ GenerateMigrations[3] = ComponentStatesMigration /\ GenerateMigrations[4] = AncestryMigration
      /\ GenerateMigrations[5] = UniquenessMigration /\ GenerateMigrations[6] = ClaimedFromMigration
      /\ GenerateMigrations[7] = SlipRollbacksMigration /\ GenerateMigrations[8] = StepClaimedByMigration
  BY DEF GenerateMigrations
<1>2. Latest = 8 /\ Versions = 1..8
  BY <1>1, MigrationsAssumption DEF SlippyMigrates, Latest
<1>3. \A v \in 1..8 : "claimed_by" \in Migrations[v].makes <=> v = 8
  <2>1. /\ "claimed_by" \notin EnumsMigration.makes /\ "claimed_by" \notin RoutingSlipsMigration.makes
        /\ "claimed_by" \notin ComponentStatesMigration.makes /\ "claimed_by" \notin AncestryMigration.makes
        /\ "claimed_by" \notin UniquenessMigration.makes /\ "claimed_by" \notin ClaimedFromMigration.makes
        /\ "claimed_by" \notin SlipRollbacksMigration.makes /\ "claimed_by" \in StepClaimedByMigration.makes
    BY DEF Migration, EnumsMigration, RoutingSlipsMigration, ComponentStatesMigration, AncestryMigration,
       UniquenessMigration, ClaimedFromMigration, SlipRollbacksMigration, StepClaimedByMigration
  <2> QED
    BY <1>1, <2>1 DEF SlippyMigrates
<1>4. \A e \in DOMAIN Ensurers : "claimed_by" \notin Ensurers[e].makes
  <2>1. "claimed_by" \notin StepColumnEnsurer.makes /\ "claimed_by" \notin IndexEnsurer.makes
    BY DEF Migration, StepColumnEnsurer, IndexEnsurer
  <2>2. \A e \in DOMAIN GenerateEnsurers : GenerateEnsurers[e] \in {StepColumnEnsurer, IndexEnsurer}
    BY DEF GenerateEnsurers
  <2> QED
    BY <2>1, <2>2 DEF SlippyMigrates
<1>5. /\ "claimed_by" \in Migrations[8].takes
      /\ Migrations[6].makes = {"claimed_from"} /\ Migrations[7].makes = {"rollbacks"}
      /\ Migrations[8].makes = {"claimed_by"}
  BY <1>1 DEF SlippyMigrates, Migration, ClaimedFromMigration, SlipRollbacksMigration, StepClaimedByMigration
<1> QED
  BY <1>2, <1>3, <1>4, <1>5

\* The column comes last.
LEMMA ApplyKeepsClaimant ==
    ASSUME SlippyMigrates, IInv, ClaimantInv, NEW p \in Migrators, ApplyMigration(p),
           "claimed_by" \in schema'
    PROVE  \A v \in 1..5 : Applied(v)'
<1>0. PICK u : u = LeastOf(todo[p])
  OBVIOUS
<1>1. TypeOK /\ LoopInv(p)
  BY DEF IInv, MigratorInv
<1>2. /\ pc[p] \in {"apply", "raise"} /\ todo[p] # {} /\ todo[p] \subseteq Versions
      /\ schema' = schema \cup Migrations[u].makes
  BY <1>0, <1>1 DEF ApplyMigration, LoopInv
<1>3. u \in todo[p] /\ u \in 1..8 /\ \A w \in todo[p] : u <= w
  BY <1>0, <1>2, LeastIsMember, SlippySchema
<1>4. CASE "claimed_by" \in schema
  BY <1>2, <1>4 DEF ClaimantInv, Applied
<1>5. CASE "claimed_by" \notin schema
  <2>1. u = 8
    BY <1>2, <1>3, <1>5, SlippySchema
  <2> SUFFICES ASSUME NEW v \in 1..5 PROVE Applied(v)'
    OBVIOUS
  <2>2. v \in Versions \ todo[p]
    BY <1>3, <2>1, SlippySchema
  <2>3. pc[p] = "raise" => v <= Target(p)
    <3>1. pc[p] = "raise" => u <= Target(p)
      BY <1>1, <1>3 DEF LoopInv
    <3>2. Target(p) \in Int
      BY <1>1, SlippySchema DEF TypeOK, Target
    <3> QED
      BY <2>1, <3>1, <3>2
  <2>4. Applied(v)
    BY <1>1, <1>2, <2>2, <2>3 DEF LoopInv
  <2> QED
    BY <1>2, <2>4 DEF Applied
<1> QED
  BY <1>4, <1>5

\* The column goes first, or nothing up to v5 goes.
LEMMA RevertKeepsClaimant ==
    ASSUME SlippyMigrates, IInv, ClaimantInv, NEW p \in Migrators, UndoInv(p), RevertMigration(p),
           "claimed_by" \in schema'
    PROVE  \A v \in 1..5 : Applied(v)'
<1> DEFINE u == GreatestOf(todo[p])
<1>1. TypeOK /\ LoopInv(p)
  BY DEF IInv, MigratorInv
<1>2. /\ pc[p] = "revert" /\ todo[p] # {} /\ todo[p] \subseteq Versions
      /\ schema' = schema \ Migrations[u].takes
  BY <1>1 DEF RevertMigration, LoopInv
<1>3. u \in todo[p] /\ u \in 1..8 /\ \A w \in todo[p] : u >= w
  BY <1>2, GreatestIsMember, SlippySchema
<1> HIDE DEF u
<1>4. u # 8 /\ "claimed_by" \in schema /\ 8 \in Versions
  BY <1>2, SlippySchema
<1>5. 8 \notin todo[p]
  BY <1>3, <1>4
<1>6. Target(p) \in 0..8 /\ Target(p) < u /\ job[p][1] \in JobKinds
  BY <1>1, <1>2, <1>3, SlippySchema DEF TypeOK, Target, LoopInv
<1>7. Target(p) < 8 /\ MayRevert(job[p])
  BY <1>3, <1>6, SlippySchema DEF MayRevert, Target
<1>8. job[p][1] # "run"
  <2> SUFFICES ASSUME job[p][1] = "run" PROVE FALSE
    OBVIOUS
  <2>1. ~Applied(8)
    BY <1>2, <1>4, <1>5, <1>7 DEF UndoInv
  <2> QED
    BY <1>4, <2>1, SlippySchema DEF Applied
<1>9. Target(p) >= 5
  BY <1>6, <1>8 DEF ClaimantInv, JobKinds
<1> SUFFICES ASSUME NEW v \in 1..5 PROVE Applied(v)'
  OBVIOUS
<1>10. v < u /\ v \in Versions /\ u \in Versions
  BY <1>3, <1>6, <1>9, SlippySchema
<1>11. Migrations[u].takes \cap Migrations[v].makes = {}
  BY <1>10, MigrationsAssumption
<1> QED
  BY <1>2, <1>4, <1>11 DEF ClaimantInv, Applied

LEMMA ClaimantStep ==
    ASSUME SlippyMigrates, IInv, ClaimantInv, \A p \in Migrators : UndoInv(p), [Next]_vars
    PROVE  ClaimantInv'
<1>1. TypeOK
  BY DEF IInv, MigratorInv
<1>2. ASSUME NEW p \in Migrators, job'[p][1] = "to"
      PROVE  job'[p][2] >= 5
  <2>1. job'[p] \in Jobs \/ job'[p] = job[p]
    BY <1>1 DEF Next, vars, Begin, Connect, NewPool, NoPool, PingSucceeds, PingFails, Retry,
       CancelRetry, Migrate, CreateSchemaVersionTable, ReadPending, ApplyMigration, StartEnsurers,
       RunEnsurer, CreateTablesDone, ReadForTarget, RevertMigration, Finish, Fail, Close, TypeOK
  <2> QED
    BY <1>2, <2>1 DEF ClaimantInv, Target, SlippyMigrates
<1>3. ASSUME "claimed_by" \in schema'
      PROVE  \A v \in 1..5 : Applied(v)'
  <2>1. CASE schema' = schema
    BY <1>3, <2>1 DEF ClaimantInv, Applied
  <2>2. ASSUME NEW p \in Migrators, RunEnsurer(p)
        PROVE  \A v \in 1..5 : Applied(v)'
    <3>1. PICK e : e = LeastOf(todo[p])
      OBVIOUS
    <3>2. LoopInv(p) /\ todo[p] # {} /\ pc[p] = "ensure" /\ schema' = schema \cup Ensurers[e].makes
      BY <2>2, <3>1 DEF IInv, RunEnsurer
    <3>3. e \in DOMAIN Ensurers
      BY <3>1, <3>2, LeastIsMember, MigrationsAssumption DEF LoopInv
    <3>4. "claimed_by" \in schema
      BY <1>3, <3>2, <3>3, SlippySchema
    <3> QED
      BY <3>2, <3>4 DEF ClaimantInv, Applied
  <2>3. ASSUME NEW p \in Migrators, ApplyMigration(p) \/ RevertMigration(p)
        PROVE  \A v \in 1..5 : Applied(v)'
    BY <1>3, <2>3, ApplyKeepsClaimant, RevertKeepsClaimant
  <2>4. schema' = schema \/ \E p \in Migrators : RunEnsurer(p) \/ ApplyMigration(p) \/ RevertMigration(p)
    BY DEF Next, vars, Begin, Connect, NewPool, NoPool, PingSucceeds, PingFails, Retry,
       CancelRetry, Migrate, CreateSchemaVersionTable, ReadPending, StartEnsurers,
       CreateTablesDone, ReadForTarget, Finish, Fail, Close
  <2> QED
    BY <2>1, <2>2, <2>3, <2>4
<1> QED
  BY <1>2, <1>3 DEF ClaimantInv, Target

\* For slippy's migrations, any number of processes and wherever they fail: a
\* process that passes the probe works on a database with every migration,
\* though the probe asks for no key.  RunPostgresMigrations may go for any
\* target; a MigrateToVersion by itself only to v5 or later.
THEOREM ReadyDatabaseIsComplete ==
    ASSUME SlippyMigrates
    PROVE  Spec => []ReadyMeansMigrated
<1>1. DownsUndo
  <2>1. \A v \in 1..8 : GenerateMigrations[v].makes \cap GenerateMigrations[v].takes # {}
    <3>1. /\ Len(GenerateMigrations) = 8
          /\ GenerateMigrations[1] = EnumsMigration /\ GenerateMigrations[2] = RoutingSlipsMigration
          /\ GenerateMigrations[3] = ComponentStatesMigration /\ GenerateMigrations[4] = AncestryMigration
          /\ GenerateMigrations[5] = UniquenessMigration /\ GenerateMigrations[6] = ClaimedFromMigration
          /\ GenerateMigrations[7] = SlipRollbacksMigration
          /\ GenerateMigrations[8] = StepClaimedByMigration
      BY DEF GenerateMigrations
    <3>2. /\ "domains" \in EnumsMigration.makes \cap EnumsMigration.takes
          /\ "routing_slips" \in RoutingSlipsMigration.makes \cap RoutingSlipsMigration.takes
          /\ "component_states" \in ComponentStatesMigration.makes \cap ComponentStatesMigration.takes
          /\ "ancestry" \in AncestryMigration.makes \cap AncestryMigration.takes
          /\ "uq_repo_sha" \in UniquenessMigration.makes \cap UniquenessMigration.takes
          /\ "claimed_from" \in ClaimedFromMigration.makes \cap ClaimedFromMigration.takes
          /\ "rollbacks" \in SlipRollbacksMigration.makes \cap SlipRollbacksMigration.takes
          /\ "claimed_by" \in StepClaimedByMigration.makes \cap StepClaimedByMigration.takes
      BY DEF Migration, EnumsMigration, RoutingSlipsMigration, ComponentStatesMigration,
         AncestryMigration, UniquenessMigration, ClaimedFromMigration, SlipRollbacksMigration,
         StepClaimedByMigration
    <3> QED
      BY <3>1, <3>2
  <2> QED
    BY <2>1, SlippySchema DEF DownsUndo, SlippyMigrates
<1>2. Init => ClaimantInv
  BY DEF Init, ClaimantInv
<1>3. IInv /\ (\A p \in Migrators : UndoInv(p)) /\ ClaimantInv /\ [Next]_vars => ClaimantInv'
  BY ClaimantStep
<1>4. ClaimantInv => ReadyMeansMigrated
  <2> SUFFICES ASSUME ClaimantInv, ProbeSchema(schema), NEW v \in Versions PROVE Applied(v)
    BY DEF ReadyMeansMigrated
  <2>1. {"claimed_from", "rollbacks", "claimed_by"} \subseteq schema
    BY DEF ProbeSchema, ProbeRoutingSlipColumns, ProbeChildTables, ProbeStepClaimant
  <2>2. CASE v \in 1..5
    BY <2>1, <2>2 DEF ClaimantInv
  <2>3. CASE v \in {6, 7, 8}
    BY <2>1, <2>3, SlippySchema DEF Applied
  <2> QED
    BY <2>2, <2>3, SlippySchema
<1>5. Spec => [](IInv /\ \A p \in Migrators : UndoInv(p))
  BY <1>1, UndoInvInductive
<1> QED
  BY <1>2, <1>3, <1>4, <1>5, PTL DEF Spec

-----------------------------------------------------------------------------
(***************************************************************************)
(* ClickhouseMigrator.  Of a process that migrates up the invariant says   *)
(* that every migration below what it has still to make is there, and of   *)
(* one that drops that no version is recorded once the version table's     *)
(* turn has come.                                                          *)
(***************************************************************************)

\* Where a job of each kind can be.
LabelInv(p) ==
    /\ at[p] \in {"version table", "pending"} => task[p][1] = "create"
    /\ at[p] \in {"up", "up recorded"} => task[p][1] \in {"create", "to"}
    /\ at[p] \in {"target", "down", "down recorded"} => task[p][1] = "to"
    /\ at[p] \in {"list", "drop"} => task[p][1] = "drop"

\* The retries are counted, and a ping has its pool.
ChConnInv(p) ==
    /\ at[p] = "backoff" => attempt[p] < ChRetries
    /\ at[p] = "ping" => open[p] = 1

\* All a CreateTables skips is there, and what a MigrateToVersion skips below
\* what it has still to make.
Skipped(p) ==
    {w \in ChVersions \ work[p] : task[p][1] = "create" \/ \E x \in work[p] : w <= x}

UpInv(p) ==
    at[p] \in {"up", "up recorded"} =>
        /\ work[p] \subseteq ChVersions
        /\ ~reverted => Skipped(p) \subseteq tables
        /\ at[p] = "up recorded" =>
              work[p] # {} /\ (~reverted => Lowest(work[p]) \in tables)

DownInv(p) ==
    /\ at[p] \in {"down", "down recorded"} => work[p] \subseteq ChVersions
    /\ at[p] = "down recorded" => reverted

\* After the version table no version is recorded.
DropInv(p) ==
    at[p] = "drop" =>
        /\ work[p] \subseteq DOMAIN ExpectedTables
        /\ \A i \in DOMAIN ExpectedTables \ work[p] :
              ExpectedTables[i] = VersionTable => newest = {}

ProcInv(p) == LabelInv(p) /\ ChConnInv(p) /\ UpInv(p) /\ DownInv(p) /\ DropInv(p)

\* What reverts or drops is the only job that runs.
ChAloneInv ==
    \A p, q \in Processes :
        p # q /\ Active(p) /\ Active(q) => ~Exclusive(task[p]) /\ ~Exclusive(task[q])

ChIInv == ChInv /\ ChAloneInv /\ \A p \in Processes : ProcInv(p)

-----------------------------------------------------------------------------
(***************************************************************************)
(* The loops take the least or the greatest of what they have to do.       *)
(***************************************************************************)
LEMMA LowestIsMember ==
    ASSUME NEW S, S \subseteq Nat, S # {}
    PROVE  Lowest(S) \in S /\ \A w \in S : Lowest(S) <= w
<1>1. PICK x \in S : \A y \in S : ~(<<y, x>> \in OpToRel(<, Nat))
  BY NatLessThanWellFounded, WFMin
<1>2. \A y \in S : x <= y
  <2> TAKE y \in S
  <2>1. ~(y < x)
    BY <1>1 DEF OpToRel
  <2>2. x \in Nat /\ y \in Nat
    OBVIOUS
  <2> QED
    BY <2>1, <2>2
<1> QED
  BY <1>2 DEF Lowest

LEMMA HighestIsMember ==
    ASSUME NEW n \in Nat, NEW S, S \subseteq 1..n, S # {}
    PROVE  Highest(S) \in S /\ \A w \in S : Highest(S) >= w
<1> DEFINE T == {n - s : s \in S}
<1>1. \A s \in S : s \in Int /\ n - s \in Nat
  OBVIOUS
<1>2. T \subseteq Nat /\ T # {}
  BY <1>1
<1>3. Lowest(T) \in T /\ \A w \in T : Lowest(T) <= w
  BY <1>2, LowestIsMember
<1>4. PICK s \in S : Lowest(T) = n - s
  BY <1>3
<1>5. \A w \in S : n - s <= n - w
  BY <1>3, <1>4
<1>6. \A w \in S : s >= w
  BY <1>1, <1>5
<1> QED
  BY <1>6 DEF Highest

LEMMA VersionsAreNumbers == ChVersions \subseteq Nat /\ ChVersions \subseteq 0..ChLatest
<1>1. ChLatest \in Nat
  BY ChAssumption
<1> QED
  BY <1>1 DEF ChVersions

LEMMA ChJobKinds ==
    ASSUME NEW j \in ChJobs \cup {<<"create", 0>>}
    PROVE  /\ j[1] \in {"create", "drop", "to"}
           /\ j[1] = "to" => j[2] \in 0..ChLatest
<1>1. \/ j = <<"create", 0>>
      \/ j = <<"drop", 0>>
      \/ j \in {"to"} \X (0..ChLatest)
  BY ChAssumption
<1>2. CASE j \in {"to"} \X (0..ChLatest)
  BY <1>2
<1>3. CASE j \in {<<"create", 0>>, <<"drop", 0>>}
  BY <1>3
<1> QED
  BY <1>1, <1>2, <1>3

-----------------------------------------------------------------------------
(***************************************************************************)
(* One process moves.                                                      *)
(***************************************************************************)

\* Another process is where it was, with the same job and the same work.
ChStays(q) ==
    /\ at'[q] = at[q] /\ task'[q] = task[q] /\ attempt'[q] = attempt[q]
    /\ open'[q] = open[q] /\ work'[q] = work[q]

\* The job goes on or ends; if it takes a table away, it is alone.
ChGoes(p) ==
    /\ task' = task /\ (Active(p)' => Active(p)) /\ (reverted => reverted')
    /\ \/ tables \subseteq tables' /\ (newest' = newest \/ Active(p))
       \/ Active(p) /\ Exclusive(task[p])

\* What remains to show for a step of p: types, what is applied, and p's own
\* part of the invariant.
LEMMA ChStepKeepsInv ==
    ASSUME ChIInv, NEW p \in Processes, ChGoes(p), ChTypeOK', VersionIsApplied',
           \A q \in Processes \ {p} : ChStays(q), ProcInv(p)',
           at'[p] \in {"dial", "backoff", "idle"} => open'[p] = 0
    PROVE  ChIInv'
<1>1. NoSessionLeaks'
  BY DEF ChIInv, ChInv, NoSessionLeaks, ChStays
<1>2. ChAloneInv'
  BY DEF ChIInv, ChAloneInv, ChGoes, ChStays, Active
<1>3. ASSUME NEW q \in Processes \ {p}
      PROVE  ProcInv(q)'
  <2>1. ChStays(q) /\ ProcInv(q)
    BY DEF ChIInv
  <2>2. CASE ~Active(q)
    BY <2>1, <2>2 DEF ProcInv, LabelInv, ChConnInv, UpInv, DownInv, DropInv, ChStays, Active
  <2>3. CASE Active(q) /\ Active(p)
    <3>1. ~Exclusive(task[p]) /\ ~Exclusive(task[q])
      BY <2>3 DEF ChIInv, ChAloneInv
    <3>2. tables \subseteq tables'
      BY <3>1 DEF ChGoes
    <3>3. at[q] # "drop"
      BY <2>1, <3>1 DEF ProcInv, LabelInv, Exclusive
    <3>4. LabelInv(q)' /\ ChConnInv(q)' /\ DropInv(q)'
      BY <2>1, <3>3 DEF ProcInv, LabelInv, ChConnInv, DropInv, ChStays
    <3>5. UpInv(q)' /\ DownInv(q)'
      BY <2>1, <3>2 DEF ProcInv, UpInv, DownInv, Skipped, ChStays, ChGoes
    <3> QED
      BY <3>4, <3>5 DEF ProcInv
  <2>4. CASE Active(q) /\ ~Active(p)
    <3>1. tables \subseteq tables' /\ newest' = newest /\ (reverted => reverted')
      BY <2>4 DEF ChGoes
    <3>2. LabelInv(q)' /\ ChConnInv(q)' /\ DropInv(q)'
      BY <2>1, <3>1 DEF ProcInv, LabelInv, ChConnInv, DropInv, ChStays
    <3>3. UpInv(q)' /\ DownInv(q)'
      BY <2>1, <3>1 DEF ProcInv, UpInv, DownInv, Skipped, ChStays
    <3> QED
      BY <3>2, <3>3 DEF ProcInv
  <2> QED
    BY <2>2, <2>3, <2>4
<1> QED
  BY <1>1, <1>2, <1>3 DEF ChIInv, ChInv

\* Connecting, retrying and giving up, and closing at the end.
LEMMA ChConnectKeepsInv ==
    ASSUME ChIInv, NEW p \in Processes, Dial(p) \/ Ping(p) \/ Backoff(p) \/ CloseSession(p)
    PROVE  ChIInv'
<1>1. /\ ChTypeOK /\ VersionIsApplied /\ ProcInv(p)
      /\ at[p] \in {"dial", "backoff", "idle"} => open[p] = 0
  BY DEF ChIInv, ChInv, NoSessionLeaks
<1>2. /\ UNCHANGED <<dbVars, task, work, started>>
      /\ \A q \in Processes \ {p} : ChStays(q)
  BY <1>1 DEF Dial, Ping, Backoff, CloseSession, Go, ChStays, ChTypeOK
<1>3. /\ at[p] \in {"dial", "backoff"} => open[p] = 0
      /\ at[p] = "ping" => open[p] = 1
      /\ at[p] = "backoff" => attempt[p] < ChRetries
  BY <1>1 DEF ProcInv, ChConnInv
<1>4. task[p][1] \in {"create", "drop", "to"}
  BY <1>1, ChJobKinds DEF ChTypeOK
<1>5. /\ ChRetries \in Nat /\ at \in [Processes -> ChLabels]
      /\ attempt \in [Processes -> 0..ChRetries] /\ open \in [Processes -> 0..1]
  BY <1>1, ChAssumption DEF ChTypeOK
<1>6. at' \in [Processes -> ChLabels]
  BY <1>1, <1>4
     DEF Dial, Ping, Backoff, CloseSession, AfterError, FirstLabel, Go, ChTypeOK, ChLabels
<1>7. /\ attempt' \in [Processes -> 0..ChRetries] /\ open' \in [Processes -> 0..1]
      /\ at'[p] \in {"dial", "ping", "backoff", "failed", "idle", FirstLabel(task[p])}
      /\ at'[p] \in {"dial", "backoff", "idle"} => open'[p] = 0
      /\ at'[p] = "ping" => open'[p] = 1
      /\ at'[p] = "backoff" => attempt'[p] < ChRetries
      /\ Active(p)' => Active(p)
  <2> USE <1>3, <1>5 DEF Go, Active
  <2>1. CASE Dial(p)
    <3>1. CASE Go(p, "ping") /\ open' = [open EXCEPT ![p] = @ + 1]
      <4>1. at[p] = "dial" /\ open' = [open EXCEPT ![p] = 1] /\ attempt' = attempt
        BY <2>1, <3>1 DEF Dial
      <4> QED
        BY <3>1, <4>1
    <3>2. CASE UNCHANGED open /\ \E transient \in BOOLEAN : Go(p, AfterError(p, transient))
      BY <2>1, <3>2 DEF Dial, AfterError
    <3> QED
      BY <2>1, <3>1, <3>2 DEF Dial
  <2>2. CASE Ping(p)
    <3>1. FirstLabel(task[p]) \in {"version table", "list", "target"}
      BY <1>4 DEF FirstLabel
    <3>2. CASE Go(p, FirstLabel(task[p])) /\ UNCHANGED open
      BY <2>2, <3>1, <3>2 DEF Ping
    <3>3. CASE /\ \E transient \in BOOLEAN : Go(p, AfterError(p, transient))
               /\ open' = [open EXCEPT ![p] = @ - 1]
      <4>1. at[p] = "ping" /\ open' = [open EXCEPT ![p] = 0] /\ attempt' = attempt
        BY <2>2, <3>3 DEF Ping
      <4> QED
        BY <3>3, <4>1 DEF AfterError
    <3> QED
      BY <2>2, <3>2, <3>3 DEF Ping
  <2>3. CASE Backoff(p)
    <3>1. at[p] = "backoff" /\ open' = open /\ attempt[p] + 1 \in 0..ChRetries
      BY <2>3 DEF Backoff
    <3> QED
      BY <2>3, <3>1 DEF Backoff
  <2>4. CASE CloseSession(p)
    <3>1. open[p] = 1
      BY <2>4 DEF CloseSession
    <3>2. open' = [open EXCEPT ![p] = 0] /\ attempt' = attempt
      BY <2>4, <3>1 DEF CloseSession
    <3> QED
      BY <2>4, <3>2 DEF CloseSession
  <2> QED
    BY <2>1, <2>2, <2>3, <2>4
<1>8. ChTypeOK' /\ VersionIsApplied'
  BY <1>1, <1>2, <1>6, <1>7 DEF ChTypeOK, VersionIsApplied, dbVars
<1>9. ChGoes(p)
  BY <1>2, <1>7 DEF ChGoes, dbVars
<1>10. ProcInv(p)'
  <2>1. CASE task[p][1] = "create"
    BY <1>1, <1>2, <1>7, <2>1
       DEF FirstLabel, ProcInv, LabelInv, ChConnInv, UpInv, DownInv, DropInv
  <2>2. CASE task[p][1] = "drop"
    BY <1>1, <1>2, <1>7, <2>2
       DEF FirstLabel, ProcInv, LabelInv, ChConnInv, UpInv, DownInv, DropInv
  <2>3. CASE task[p][1] = "to"
    BY <1>1, <1>2, <1>7, <2>3
       DEF FirstLabel, ProcInv, LabelInv, ChConnInv, UpInv, DownInv, DropInv
  <2> QED
    BY <1>4, <2>1, <2>2, <2>3
<1> QED
  BY <1>2, <1>7, <1>8, <1>9, <1>10, ChStepKeepsInv

\* A process is started.
LEMMA StartKeepsInv ==
    ASSUME ChIInv, NEW p \in Processes, NEW j \in ChJobs, Start(p, j)
    PROVE  ChIInv'
<1>1. ChTypeOK /\ VersionIsApplied /\ NoSessionLeaks /\ ChAloneInv /\ ChMaxJobs \in Nat
  BY ChAssumption DEF ChIInv, ChInv
<1>2. /\ UNCHANGED <<dbVars, open, work>>
      /\ task' = [task EXCEPT ![p] = j]
      /\ attempt' = [attempt EXCEPT ![p] = 0]
      /\ at' = [at EXCEPT ![p] = "dial"]
      /\ started' = started + 1 /\ started < ChMaxJobs
      /\ ~Active(p) /\ open[p] = 0
      /\ \A q \in Processes \ {p} : Active(q) => ~Exclusive(j) /\ ~Exclusive(task[q])
  BY DEF Start, Go
<1>3. ChTypeOK'
  <2>1. started' \in 0..ChMaxJobs
    BY <1>1, <1>2 DEF ChTypeOK
  <2>2. attempt' \in [Processes -> 0..ChRetries]
    BY <1>1, <1>2, ChAssumption DEF ChTypeOK
  <2>3. at' \in [Processes -> ChLabels]
    BY <1>1, <1>2 DEF ChTypeOK, ChLabels
  <2> QED
    BY <1>1, <1>2, <2>1, <2>2, <2>3 DEF ChTypeOK, dbVars
<1>5. at'[p] = "dial" /\ \A q \in Processes \ {p} : at'[q] = at[q] /\ attempt'[q] = attempt[q]
  BY <1>1, <1>2 DEF ChTypeOK
<1>6. VersionIsApplied' /\ NoSessionLeaks'
  BY <1>1, <1>2, <1>5 DEF VersionIsApplied, NoSessionLeaks, dbVars
<1>7. task'[p] = j /\ \A q \in Processes \ {p} : task'[q] = task[q]
  BY <1>1, <1>2 DEF ChTypeOK
<1>9. ChAloneInv'
  <2> SUFFICES ASSUME NEW q \in Processes, NEW r \in Processes, q # r, Active(q)', Active(r)'
               PROVE  ~Exclusive(task'[q]) /\ ~Exclusive(task'[r])
    BY DEF ChAloneInv, Exclusive
  <2>1. CASE q # p /\ r # p
    BY <1>1, <1>5, <1>7, <2>1 DEF ChAloneInv, Active
  <2>2. CASE q = p \/ r = p
    BY <1>2, <1>5, <1>7, <2>2 DEF ChAloneInv, Active
  <2> QED
    BY <2>1, <2>2
<1>10. ProcInv(p)'
  BY <1>5 DEF ProcInv, LabelInv, ChConnInv, UpInv, DownInv, DropInv
<1>11. ASSUME NEW q \in Processes \ {p}
       PROVE  ProcInv(q)'
  <2>1. ChStays(q) /\ ProcInv(q) /\ tables' = tables /\ newest' = newest /\ reverted' = reverted
    BY <1>2, <1>5, <1>7 DEF ChIInv, ChStays, dbVars
  <2>2. UpInv(q)'
    BY <2>1 DEF ProcInv, UpInv, Skipped, ChStays
  <2> QED
    BY <2>1, <2>2 DEF ProcInv, LabelInv, ChConnInv, DownInv, DropInv, ChStays
<1> QED
  BY <1>3, <1>6, <1>9, <1>10, <1>11 DEF ChIInv, ChInv

\* Reading the version, from the table that is made first.
LEMMA ReadKeepsInv ==
    ASSUME ChIInv, NEW p \in Processes,
           CreateVersionTable(p) \/ GetPending(p) \/ MigrateTo(p)
    PROVE  ChIInv'
<1>1. ChTypeOK /\ VersionIsApplied /\ ProcInv(p) /\ ChLatest \in Nat
  BY ChAssumption DEF ChIInv, ChInv
<1>2. /\ UNCHANGED <<newest, ticked, reverted, task, attempt, open, started>>
      /\ \A q \in Processes \ {p} : ChStays(q)
      /\ tables' = tables \/ tables' = tables \cup {VersionTable}
  BY <1>1 DEF CreateVersionTable, GetPending, MigrateTo, Go, ChStays, ChTypeOK, dbVars
<1>3. at' \in [Processes -> ChLabels]
  BY <1>1 DEF CreateVersionTable, GetPending, MigrateTo, Go, ChTypeOK, ChLabels
<1>4. VersionIsApplied' /\ VersionTable \in Tables
  BY <1>1, <1>2 DEF VersionIsApplied, VersionTable, Tables
<1>5. ASSUME NEW v \in 0..ChLatest, VersionRead(v), ~reverted, NEW w \in ChVersions, w <= v
      PROVE  w \in tables
  BY <1>1, <1>5 DEF VersionRead, VersionIsApplied, ChVersions
<1>6. /\ work' \in [Processes -> SUBSET (ChVersions \cup DOMAIN ExpectedTables)]
      /\ at'[p] \in {"pending", "up", "down"} /\ Active(p)
      /\ ProcInv(p)'
  <2>1. CASE CreateVersionTable(p)
    <3>1. at' = [at EXCEPT ![p] = "pending"] /\ at[p] = "version table" /\ work' = work
      BY <2>1 DEF CreateVersionTable, Go
    <3>2. at'[p] = "pending" /\ Active(p)
      BY <1>1, <3>1 DEF ChTypeOK, Active
    <3> QED
      BY <1>1, <1>2, <3>1, <3>2
         DEF ChTypeOK, ProcInv, LabelInv, ChConnInv, UpInv, DownInv, DropInv
  <2>2. CASE GetPending(p)
    <3>1. PICK v \in 0..ChLatest :
            VersionRead(v) /\ work' = [work EXCEPT ![p] = {w \in ChVersions : w > v}]
      BY <2>2 DEF GetPending
    <3>2. /\ at' = [at EXCEPT ![p] = "up"] /\ at[p] = "pending" /\ tables' = tables
          /\ task[p][1] = "create"
      BY <1>1, <2>2 DEF GetPending, Go, dbVars, ProcInv, LabelInv
    <3>3. at'[p] = "up" /\ Active(p) /\ work'[p] = {w \in ChVersions : w > v}
      BY <1>1, <3>1, <3>2 DEF ChTypeOK, Active
    <3>4. \A w \in ChVersions \ work'[p] : w <= v
      BY <1>1, <3>3 DEF ChVersions
    <3>5. ~reverted => Skipped(p)' \subseteq tables'
      BY <1>5, <3>1, <3>2, <3>4 DEF Skipped
    <3>6. UpInv(p)'
      BY <1>2, <3>3, <3>5 DEF UpInv
    <3> QED
      BY <1>1, <1>2, <3>1, <3>2, <3>3, <3>6
         DEF ChTypeOK, ProcInv, LabelInv, ChConnInv, DownInv, DropInv
  <2>3. CASE MigrateTo(p)
    <3> DEFINE t == task[p][2]
    <3>1. /\ at[p] = "target" /\ tables' = tables /\ task[p][1] = "to" /\ t \in 0..ChLatest
      BY <1>1, <2>3, ChJobKinds DEF MigrateTo, dbVars, ProcInv, LabelInv, ChTypeOK
    <3>2. PICK v \in 0..ChLatest :
            /\ VersionRead(v)
            /\ \/ /\ t > v
                  /\ work' = [work EXCEPT ![p] = (v + 1)..t]
                  /\ at' = [at EXCEPT ![p] = "up"]
               \/ /\ work' = [work EXCEPT ![p] = ((t + 1)..v) \ ChIrreversible]
                  /\ at' = [at EXCEPT ![p] = "down"]
      BY <2>3 DEF MigrateTo, Go
    <3>3. CASE /\ t > v
               /\ work' = [work EXCEPT ![p] = (v + 1)..t]
               /\ at' = [at EXCEPT ![p] = "up"]
      <4>1. at'[p] = "up" /\ Active(p) /\ work'[p] = (v + 1)..t /\ work'[p] \subseteq ChVersions
        BY <1>1, <3>1, <3>3 DEF ChTypeOK, Active, ChVersions
      <4>2. \A w \in ChVersions \ work'[p], x \in work'[p] : w <= x => w <= v
        BY <1>1, <3>1, <4>1 DEF ChVersions
      <4>3. ~reverted => Skipped(p)' \subseteq tables'
        BY <1>2, <1>5, <3>1, <3>2, <4>2 DEF Skipped
      <4>4. UpInv(p)'
        BY <1>2, <4>1, <4>3 DEF UpInv
      <4> QED
        BY <1>1, <1>2, <3>1, <3>3, <4>1, <4>4
           DEF ChTypeOK, ProcInv, LabelInv, ChConnInv, DownInv, DropInv
    <3>4. CASE /\ work' = [work EXCEPT ![p] = ((t + 1)..v) \ ChIrreversible]
               /\ at' = [at EXCEPT ![p] = "down"]
      <4>1. /\ at'[p] = "down" /\ Active(p) /\ work'[p] \subseteq ChVersions
            /\ ((t + 1)..v) \ ChIrreversible \subseteq ChVersions
        BY <1>1, <3>1, <3>4 DEF ChTypeOK, Active, ChVersions
      <4> QED
        BY <1>1, <1>2, <3>1, <3>4, <4>1
           DEF ChTypeOK, ProcInv, LabelInv, ChConnInv, UpInv, DownInv, DropInv
    <3> QED
      BY <3>2, <3>3, <3>4
  <2> QED
    BY <2>1, <2>2, <2>3
<1>7. ChTypeOK'
  BY <1>1, <1>2, <1>3, <1>4, <1>6 DEF ChTypeOK
<1>8. ChGoes(p)
  BY <1>2, <1>6 DEF ChGoes
<1> QED
  BY <1>2, <1>4, <1>6, <1>7, <1>8, ChStepKeepsInv

\* A migration's SQL, and then its row.
LEMMA UpKeepsInv ==
    ASSUME ChIInv, NEW p \in Processes, ExecUp(p) \/ RecordUp(p)
    PROVE  ChIInv'
<1>1. /\ ChTypeOK /\ VersionIsApplied /\ ProcInv(p) /\ ChLatest \in Nat
      /\ UpInv(p) /\ at[p] \in {"up", "up recorded"} /\ Active(p)
      /\ work[p] # {} /\ work[p] \subseteq ChVersions
  BY ChAssumption DEF ChIInv, ChInv, ExecUp, RecordUp, Active, ProcInv, UpInv
<1> DEFINE v == Lowest(work[p])
<1>2. v \in work[p] /\ v \in ChVersions /\ v \in 0..ChLatest /\ \A w \in work[p] : v <= w
  <2>1. work[p] \subseteq Nat
    BY <1>1, VersionsAreNumbers
  <2>2. v \in work[p] /\ \A w \in work[p] : v <= w
    BY <1>1, <2>1, LowestIsMember
  <2> QED
    BY <1>1, <2>2, VersionsAreNumbers
<1>3. /\ UNCHANGED <<reverted, task, attempt, open, started>>
      /\ \A q \in Processes \ {p} : ChStays(q)
  BY <1>1 DEF ExecUp, RecordUp, Go, ChStays, ChTypeOK
<1>4. CASE ExecUp(p)
  <2>1. /\ at' = [at EXCEPT ![p] = "up recorded"] /\ at[p] = "up"
        /\ tables' = tables \cup {v} /\ UNCHANGED <<newest, ticked, work>>
    BY <1>4 DEF ExecUp, Go
  <2>2. at'[p] = "up recorded"
    BY <1>1, <2>1 DEF ChTypeOK
  <2>3. ChTypeOK' /\ VersionIsApplied'
    <3>1. tables' \subseteq Tables
      BY <1>1, <1>2, <2>1 DEF ChTypeOK, Tables
    <3>2. at' \in [Processes -> ChLabels]
      BY <1>1, <2>1 DEF ChTypeOK, ChLabels
    <3> QED
      BY <1>1, <1>3, <2>1, <3>1, <3>2 DEF ChTypeOK, VersionIsApplied
  <2>4. UpInv(p)'
    BY <1>1, <1>3, <2>1, <2>2 DEF UpInv, Skipped
  <2>5. ProcInv(p)' /\ ChGoes(p)
    BY <1>1, <1>3, <2>1, <2>2, <2>4
       DEF ProcInv, LabelInv, ChConnInv, DownInv, DropInv, ChGoes
  <2> QED
    BY <1>3, <2>2, <2>3, <2>5, ChStepKeepsInv
<1>5. CASE RecordUp(p)
  <2>1. /\ at' = [at EXCEPT ![p] = "up"] /\ at[p] = "up recorded" /\ tables' = tables
        /\ newest' = (IF ticked THEN {v} ELSE newest \cup {v}) /\ ticked' = FALSE
        /\ work' = [work EXCEPT ![p] = work[p] \ {v}]
    BY <1>5 DEF RecordUp, Go, InsertVersion
  <2>2. at'[p] = "up" /\ work'[p] = work[p] \ {v}
    BY <1>1, <2>1 DEF ChTypeOK
  <2>3. ASSUME ~reverted, NEW w \in ChVersions, w <= v
        PROVE  w \in tables
    <3>1. CASE w \in work[p]
      <4>1. w \in Nat /\ v \in Nat /\ w <= v /\ v <= w
        BY <1>2, <2>3, <3>1, VersionsAreNumbers
      <4>2. w = v
        BY <4>1
      <4> QED
        BY <1>1, <2>1, <2>3, <4>2 DEF UpInv
    <3>2. CASE w \notin work[p]
      BY <1>1, <1>2, <2>3, <3>2 DEF UpInv, Skipped
    <3> QED
      BY <3>1, <3>2
  <2>4. VersionIsApplied'
    BY <1>1, <1>3, <2>1, <2>3 DEF VersionIsApplied
  <2>5. ChTypeOK'
    <3>1. at' \in [Processes -> ChLabels]
      BY <1>1, <2>1 DEF ChTypeOK, ChLabels
    <3>2. newest' \subseteq 0..ChLatest
      BY <1>1, <1>2, <2>1 DEF ChTypeOK
    <3> QED
      BY <1>1, <1>3, <2>1, <3>1, <3>2 DEF ChTypeOK
  <2>6. ~reverted' => Skipped(p)' \subseteq tables'
    <3> SUFFICES ASSUME ~reverted, NEW w \in ChVersions \ work'[p],
                        task[p][1] = "create" \/ \E x \in work'[p] : w <= x
                 PROVE  w \in tables
      BY <1>3, <2>1 DEF Skipped
    <3>1. CASE w = v
      BY <1>1, <2>1, <3>1 DEF UpInv
    <3>2. CASE w # v
      BY <1>1, <2>2, <3>2 DEF UpInv, Skipped
    <3> QED
      BY <3>1, <3>2
  <2>7. UpInv(p)'
    BY <1>1, <2>2, <2>6 DEF UpInv
  <2>8. ProcInv(p)' /\ ChGoes(p)
    BY <1>1, <1>3, <2>1, <2>2, <2>7
       DEF ProcInv, LabelInv, ChConnInv, DownInv, DropInv, ChGoes
  <2> QED
    BY <1>3, <2>2, <2>4, <2>5, <2>8, ChStepKeepsInv
<1> QED
  BY <1>4, <1>5

\* Reverting, alone.
LEMMA DownKeepsInv ==
    ASSUME ChIInv, NEW p \in Processes, ExecDown(p) \/ RecordDown(p)
    PROVE  ChIInv'
<1>1. /\ ChTypeOK /\ VersionIsApplied /\ ProcInv(p)
      /\ at[p] \in {"down", "down recorded"} /\ Active(p)
  BY DEF ChIInv, ChInv, ExecDown, RecordDown, Active
<1>2. /\ task[p][1] = "to" /\ Exclusive(task[p]) /\ task[p][2] \in 0..ChLatest
      /\ work[p] \subseteq ChVersions /\ (at[p] = "down recorded" => reverted)
  BY <1>1, ChJobKinds DEF ProcInv, LabelInv, DownInv, Exclusive, ChTypeOK
<1>3. /\ UNCHANGED <<task, attempt, open, started>> /\ reverted' = TRUE
      /\ \A q \in Processes \ {p} : ChStays(q)
  BY <1>1, <1>2 DEF ExecDown, RecordDown, Go, ChStays, ChTypeOK
<1>4. at' \in [Processes -> ChLabels] /\ at'[p] \in {"down", "down recorded"}
  BY <1>1 DEF ExecDown, RecordDown, Go, ChTypeOK, ChLabels
<1>5. /\ tables' \subseteq tables /\ newest' \subseteq 0..ChLatest /\ ticked' \in BOOLEAN
      /\ work' \in [Processes -> SUBSET (ChVersions \cup DOMAIN ExpectedTables)]
      /\ work'[p] \subseteq work[p]
  BY <1>1, <1>2 DEF ExecDown, RecordDown, InsertVersion, ChTypeOK
<1>6. ChTypeOK' /\ VersionIsApplied'
  BY <1>1, <1>3, <1>4, <1>5 DEF ChTypeOK, VersionIsApplied
<1>7. ProcInv(p)' /\ ChGoes(p)
  BY <1>1, <1>2, <1>3, <1>4, <1>5
     DEF ProcInv, LabelInv, ChConnInv, UpInv, DownInv, DropInv, ChGoes
<1> QED
  BY <1>3, <1>4, <1>6, <1>7, ChStepKeepsInv

\* Dropping, alone: the version table is the first to go.
LEMMA DropKeepsInv ==
    ASSUME VersionTableLast, ChIInv, NEW p \in Processes, ListTables(p) \/ DropTable(p)
    PROVE  ChIInv'
<1>1. /\ ChTypeOK /\ VersionIsApplied /\ ProcInv(p)
      /\ at[p] \in {"list", "drop"} /\ Active(p)
  BY DEF ChIInv, ChInv, ListTables, DropTable, Active
<1>2. task[p][1] = "drop" /\ Exclusive(task[p])
  BY <1>1 DEF ProcInv, LabelInv, Exclusive
<1>3. /\ UNCHANGED <<ticked, reverted, task, attempt, open, started>>
      /\ \A q \in Processes \ {p} : ChStays(q)
  BY <1>1 DEF ListTables, DropTable, Dropped, Go, ChStays, ChTypeOK, dbVars
<1>4. at' \in [Processes -> ChLabels] /\ at'[p] = "drop"
  BY <1>1 DEF ListTables, DropTable, Go, ChTypeOK, ChLabels
<1>5. /\ tables' \subseteq tables /\ newest' \subseteq newest
      /\ work' \in [Processes -> SUBSET (ChVersions \cup DOMAIN ExpectedTables)]
      /\ VersionIsApplied'
      /\ DropInv(p)'
  <2>1. CASE ListTables(p)
    <3>1. /\ work' = [work EXCEPT ![p] = DOMAIN ExpectedTables]
          /\ tables' = tables /\ newest' = newest
      BY <2>1 DEF ListTables, dbVars
    <3>2. work'[p] = DOMAIN ExpectedTables
      BY <1>1, <3>1 DEF ChTypeOK
    <3> QED
      BY <1>1, <1>3, <3>1, <3>2 DEF ChTypeOK, VersionIsApplied, DropInv
  <2>2. CASE DropTable(p)
    <3> DEFINE i == Highest(work[p])
    <3>1. /\ at[p] = "drop" /\ work[p] # {} /\ work[p] \subseteq DOMAIN ExpectedTables
          /\ tables' = tables \ {ExpectedTables[i]}
          /\ newest' = IF ExpectedTables[i] = VersionTable THEN {} ELSE newest
          /\ work' = [work EXCEPT ![p] = work[p] \ {i}]
      BY <1>1, <2>2 DEF DropTable, Dropped, ProcInv, DropInv
    <3>2. work'[p] = work[p] \ {i}
      BY <1>1, <3>1 DEF ChTypeOK
    <3>3. i \in work[p] /\ \A j \in work[p] : i >= j
      <4>1. Len(ExpectedTables) \in Nat /\ DOMAIN ExpectedTables = 1..Len(ExpectedTables)
        BY ChAssumption
      <4> QED
        BY <3>1, <4>1, HighestIsMember
    <3>4. ExpectedTables[i] # VersionTable => newest = {}
      <4> SUFFICES ASSUME ExpectedTables[i] # VersionTable
                   PROVE  newest = {}
        OBVIOUS
      <4>1. PICK j \in DOMAIN ExpectedTables : j > i /\ ExpectedTables[j] = VersionTable
        BY <3>1, <3>3 DEF VersionTableLast
      <4>2. j \notin work[p]
        <5>1. i \in Int /\ j \in Int
          BY <3>1, <3>3, ChAssumption
        <5> QED
          BY <3>3, <4>1, <5>1
      <4> QED
        BY <1>1, <3>1, <4>1, <4>2 DEF ProcInv, DropInv
    <3>5. newest' = {}
      BY <3>1, <3>4
    <3>6. VersionIsApplied' /\ DropInv(p)'
      BY <3>1, <3>2, <3>5 DEF VersionIsApplied, DropInv
    <3> QED
      BY <1>1, <3>1, <3>5, <3>6 DEF ChTypeOK
  <2> QED
    BY <1>1, <2>1, <2>2
<1>6. ChTypeOK'
  BY <1>1, <1>3, <1>4, <1>5 DEF ChTypeOK
<1>7. ProcInv(p)' /\ ChGoes(p)
  BY <1>1, <1>2, <1>3, <1>4, <1>5
     DEF ProcInv, LabelInv, ChConnInv, UpInv, DownInv, ChGoes
<1> QED
  BY <1>3, <1>4, <1>5, <1>6, <1>7, ChStepKeepsInv

\* A job returns, or stops where it is.
LEMMA EndKeepsInv ==
    ASSUME ChIInv, NEW p \in Processes, Return(p) \/ Stop(p)
    PROVE  ChIInv'
<1>1. ChTypeOK /\ VersionIsApplied /\ ProcInv(p) /\ Active(p)
  BY DEF ChIInv, ChInv, Return, Stop, Active
<1>2. /\ UNCHANGED <<tables, newest, ticked, reverted, task, attempt, open, started>>
      /\ \A q \in Processes \ {p} : ChStays(q)
      /\ work' \in [Processes -> SUBSET (ChVersions \cup DOMAIN ExpectedTables)]
  BY <1>1 DEF Return, Stop, Go, ChStays, ChTypeOK, dbVars
<1>3. at' \in [Processes -> ChLabels] /\ at'[p] \in {"done", "failed"}
  BY <1>1 DEF Return, Stop, Go, ChTypeOK, ChLabels
<1>4. ChTypeOK' /\ VersionIsApplied'
  BY <1>1, <1>2, <1>3 DEF ChTypeOK, VersionIsApplied
<1>5. ProcInv(p)' /\ ChGoes(p)
  BY <1>1, <1>2, <1>3
     DEF ProcInv, LabelInv, ChConnInv, UpInv, DownInv, DropInv, ChGoes
<1> QED
  BY <1>2, <1>3, <1>4, <1>5, ChStepKeepsInv

-----------------------------------------------------------------------------
(***************************************************************************)
(* The theorems.                                                           *)
(***************************************************************************)
LEMMA InitHasInv == ChInit => ChIInv
<1> SUFFICES ASSUME ChInit
             PROVE  ChIInv
  OBVIOUS
<1>1. ChTypeOK
  <2>1. 0 \in 0..ChRetries /\ 0 \in 0..ChMaxJobs /\ 0 \in 0..1
    BY ChAssumption
  <2>2. at \in [Processes -> ChLabels]
    BY DEF ChInit, ChLabels
  <2> QED
    BY <2>1, <2>2 DEF ChInit, ChTypeOK
<1>2. VersionIsApplied /\ NoSessionLeaks /\ ChAloneInv
  BY DEF ChInit, VersionIsApplied, NoSessionLeaks, ChAloneInv, Active
<1>3. \A p \in Processes : ProcInv(p)
  BY DEF ChInit, ProcInv, LabelInv, ChConnInv, UpInv, DownInv, DropInv
<1> QED
  BY <1>1, <1>2, <1>3 DEF ChIInv, ChInv

LEMMA NextKeepsInv == VersionTableLast /\ ChIInv /\ [ChNext]_chVars => ChIInv'
<1> SUFFICES ASSUME VersionTableLast, ChIInv, [ChNext]_chVars
             PROVE  ChIInv'
  OBVIOUS
<1>1. CASE Tick \/ UNCHANGED chVars
  <2>1. /\ UNCHANGED <<tables, newest, reverted, at, task, attempt, open, work, started>>
        /\ ticked' \in BOOLEAN
    BY <1>1 DEF Tick, chVars, ChIInv, ChInv, ChTypeOK
  <2>2. ChInv' /\ ChAloneInv'
    BY <2>1 DEF ChIInv, ChInv, ChTypeOK, VersionIsApplied, NoSessionLeaks, ChAloneInv, Active
  <2>3. \A p \in Processes : ProcInv(p)'
    BY <2>1 DEF ChIInv, ProcInv, LabelInv, ChConnInv, UpInv, DownInv, DropInv, Skipped
  <2> QED
    BY <2>2, <2>3 DEF ChIInv
<1>2. ASSUME NEW p \in Processes, NEW j \in ChJobs, Start(p, j)
      PROVE  ChIInv'
  BY <1>2, StartKeepsInv
<1>3. ASSUME NEW p \in Processes, ChStep(p)
      PROVE  ChIInv'
  BY <1>3, ChConnectKeepsInv, ReadKeepsInv, UpKeepsInv, DownKeepsInv, DropKeepsInv, EndKeepsInv
     DEF ChStep
<1> QED
  BY <1>1, <1>2, <1>3 DEF ChNext

LEMMA IsInvariant ==
    ASSUME VersionTableLast
    PROVE  ChSpec => []ChIInv
<1>1. ChIInv /\ [ChNext]_chVars => ChIInv'
  BY NextKeepsInv
<1> QED
  BY <1>1, InitHasInv, PTL DEF ChSpec

\* Whatever the migrations, however many processes migrate and wherever each
\* stops: the recorded version, of whichever row of the newest second it is read,
\* is applied until something is reverted, and no connection is left open. The
\* version table must be dropped first.
THEOREM ClickhouseMigratorInvariant ==
    ASSUME VersionTableLast
    PROVE  ChSpec => []ChInv
<1>1. ChIInv => ChInv
  BY DEF ChIInv
<1> QED
  BY <1>1, IsInvariant, PTL

\* When CreateTables returns nil, and nothing was ever reverted, the table of
\* every migration is there, whoever made it.
THEOREM CreatedTablesAreThere ==
    ASSUME VersionTableLast
    PROVE  ChSpec => CreateTablesIsComplete
<1>1. ChIInv /\ [ChNext]_chVars =>
        \A p \in Processes :
            Active(p) /\ at'[p] = "done" /\ task[p][1] = "create" /\ ~reverted
                => ChVersions \subseteq tables
  <2> SUFFICES ASSUME ChIInv, [ChNext]_chVars, NEW p \in Processes,
                      Active(p), at'[p] = "done", task[p][1] = "create", ~reverted
               PROVE  ChVersions \subseteq tables
    OBVIOUS
  <2>1. ChTypeOK /\ ProcInv(p)
    BY DEF ChIInv, ChInv
  <2>2. Return(p)
    <3>1. at[p] # "done"
      BY DEF Active
    <3>2. PICK q \in Processes : (\E j \in ChJobs : Start(q, j)) \/ ChStep(q)
      BY <3>1 DEF ChNext, Tick, chVars
    <3>3. q = p
      BY <2>1, <3>1, <3>2
         DEF ChStep, Start, Dial, Ping, Backoff, CreateVersionTable, GetPending, MigrateTo,
             ExecUp, RecordUp, ExecDown, RecordDown, Return, ListTables, DropTable, Stop,
             CloseSession, Go, ChTypeOK
    <3> QED
      BY <2>1, <3>1, <3>2, <3>3
         DEF ChStep, Start, Dial, Ping, Backoff, CreateVersionTable, GetPending, MigrateTo,
             ExecUp, RecordUp, ExecDown, RecordDown, ListTables, DropTable, Stop,
             CloseSession, Go, ChTypeOK, AfterError, FirstLabel
  <2>3. at[p] = "up" /\ work[p] = {}
    BY <2>1, <2>2 DEF Return, ProcInv, LabelInv
  <2> QED
    BY <2>1, <2>3 DEF ProcInv, UpInv, Skipped
<1>2. ChIInv /\ [ChNext]_chVars =>
        [\A p \in Processes :
            Active(p) /\ at'[p] = "done" /\ task[p][1] = "create" /\ ~reverted
                => ChVersions \subseteq tables]_chVars
  BY <1>1
<1> QED
  BY <1>2, IsInvariant, PTL DEF ChSpec, CreateTablesIsComplete
=============================================================================
