------------------------------- MODULE SlipPush -------------------------------
(***************************************************************************)
(* Client.CreateSlipForPush: concurrent pushes for ONE commit, against the *)
(* runs and claimants of the slips they meet.                              *)
(*                                                                         *)
(* Every delivery of the commit has a correlation id, and its retries bear *)
(* the same one.  A slip is identified by the id of the delivery that wrote*)
(* it; at most one slip may exist for the commit (uq_routing_slips_repo_   *)
(* sha, migration v5).  A push reads the commit's slip, resolves ancestry  *)
(* against GitHub, and only then writes, so what it read may be stale.     *)
(*                                                                         *)
(* A slip is reduced here to what the push decides on: its status, its     *)
(* claim, and whether a step of its run is executing.                      *)
(***************************************************************************)
EXTENDS SlipStatus, Naturals, FiniteSets

CONSTANTS
    Ids,          \* correlation ids
    Pushes,       \* calls of CreateSlipForPush for the commit
    IdOf,         \* the id each of them bears
    Dispatching,  \* the pushes the library takes to start a run: the others
                  \* are those of dispatchesNothing
    Stated,       \* the pushes that state which (DispatchIntent), rather than
                  \* have it read off their component count
    RunStatuses,  \* the slip statuses runs and operators write
    Expectations, \* the "expected" sets claimants pass
    Overlap,      \* may a delivery be retried while its last push goes on?
    Meanwhile,    \* do runs and claimants act while a push is under way?
    Faults        \* may a push fail at any of its calls?

None == "none"

ASSUME PushAssumption ==
    /\ IdOf \in [Pushes -> Ids] /\ None \notin Ids
    /\ Dispatching \subseteq Pushes /\ Stated \subseteq Pushes
    /\ RunStatuses \subseteq SlipStatuses
    /\ \A e \in Expectations : e \subseteq SlipStatuses
    /\ Overlap \in BOOLEAN /\ Meanwhile \in BOOLEAN /\ Faults \in BOOLEAN

VARIABLES
    rows,      \* correlation id -> slip, or NoSlip
    pc,        \* where each push is
    existing,  \* the slip the push found for its commit, if any
    conflict,  \* the slip its duplicate backstop found, if any
    result     \* the slip it returned

pushVars == <<pc, existing, conflict, result>>
vars == <<rows, pushVars>>

NoSlip == [status |-> None]
Slips == [status : SlipStatuses, claimedFrom : SlipStatuses \cup {Unclaimed}, busy : BOOLEAN]

Exists(i)  == rows[i] # NoSlip
Live(i)    == Exists(i) /\ SlipLive(rows[i].status)
Claimed(i) == Exists(i) /\ rows[i].claimedFrom # Unclaimed

-----------------------------------------------------------------------------
(***************************************************************************)
(* The store, as the push sees it: one transaction each, with the outcome  *)
(* it reports.                                                             *)
(***************************************************************************)

\* Mutant: LoadLiveByCommit, which does not see ended slips.
FoundLive(i) ==
    IF \E s \in Ids : Live(s) THEN i \in Ids /\ Live(i) ELSE i = None

\* LoadByCommit: the commit's slip.
Found(i) ==
    IF \E s \in Ids : Exists(s) THEN i \in Ids /\ Exists(i) ELSE i = None

\* The row createTx leaves: the claim is not among the columns it writes.
Written(c) ==
    [status |-> "in_progress",
     claimedFrom |-> IF Exists(c) THEN rows[c].claimedFrom ELSE Unclaimed,
     busy |-> FALSE]

\* Mutant: no unique index on the commit, only the primary key.
CreateTxWithoutIndex(c, gone, outcome) ==
    /\ outcome = "written"
    /\ rows' = [i \in Ids |-> IF i = c THEN Written(c) ELSE IF i \in gone THEN NoSlip ELSE rows[i]]

\* createTx over the rows that are left once those in "gone" are removed: an
\* upsert on the correlation id, under the unique index on the commit.
CreateTx(c, gone, outcome) ==
    IF \E i \in Ids \ (gone \cup {c}) : Exists(i)
    THEN outcome = "duplicate" /\ UNCHANGED rows
    ELSE /\ outcome = "written"
         /\ rows' = [i \in Ids |-> IF i = c THEN Written(c) ELSE IF i \in gone THEN NoSlip ELSE rows[i]]

Create(c, outcome) == CreateTx(c, {}, outcome)

\* ResetSlipInPlace decides on the row it has locked; a row that is gone is
\* created.
ResetSlipInPlace(c, outcome) ==
    IF Exists(c) /\ ~ResetAllowed(rows[c].claimedFrom)
    THEN outcome = "claimed" /\ UNCHANGED rows
    ELSE Create(c, outcome)

\* Mutant: the guard without its claim half.
SupersededByStatus(i) == rows[i].status \in Repaveable

\* The guarded DELETE of removeSupersededSlipTx.
Superseded(i) == rows[i].status \in Repaveable /\ rows[i].claimedFrom = Unclaimed

\* Repave removes slip i and writes slip c in one transaction.
Repave(i, c, outcome) ==
    IF Exists(i) /\ ~Superseded(i)
    THEN outcome = "went live" /\ UNCHANGED rows
    ELSE CreateTx(c, {i}, outcome)

-----------------------------------------------------------------------------
(***************************************************************************)
(* Moving a push on.                                                       *)
(***************************************************************************)
Goto(p, where) ==
    /\ pc' = [pc EXCEPT ![p] = where]
    /\ UNCHANGED result

Return(p, i) ==
    /\ pc' = [pc EXCEPT ![p] = "done"]
    /\ result' = [result EXCEPT ![p] = i]

Fail(p) == Goto(p, "failed")

\* Mutant: the guard does not ask whether the push starts anything.
EmptyRunGuardForAll(p, i) == i # IdOf[p] /\ rows[i].status # "failed"

\* emptyRunGuardApplies: a push that starts nothing reuses the ended slip; one
\* that only seems to start nothing does not reuse a failed one.
EmptyRunGuard(p, i) ==
    /\ i # IdOf[p]
    /\ p \notin Dispatching
    /\ p \in Stated \/ rows[i].status # "failed"

\* Mutant: the push's own slip is repaved like any other.
PersistByRepave(p, i) == "repave"

\* persistSlipForPush: how the push writes over slip i.
Persist(p, i) == IF i = IdOf[p] THEN "reset" ELSE "repave"

\* The first load, and what it decides.
LoadByCommit(p) ==
    /\ pc[p] = "load"
    /\ \E i \in Ids \cup {None} :
          /\ Found(i)
          /\ existing' = [existing EXCEPT ![p] = i]
          /\ IF i = None THEN Goto(p, "create")
             ELSE IF Live(i) THEN Goto(p, "retry")
             ELSE IF EmptyRunGuard(p, i) THEN Return(p, i)
             ELSE IF Claimed(i) THEN Goto(p, "retry")
             ELSE Goto(p, Persist(p, i))
    /\ UNCHANGED <<rows, conflict>>

\* handlePushRetry: push_parsed is set to running on the slip that was found,
\* and the slip is loaded again.  push_parsed never counts as executing.
HandlePushRetry(p) ==
    /\ pc[p] = "retry"
    /\ IF Exists(existing[p]) THEN Goto(p, "reload") ELSE Fail(p)
    /\ UNCHANGED <<rows, existing, conflict>>

Reload(p) ==
    /\ pc[p] = "reload"
    /\ IF Exists(existing[p]) THEN Return(p, existing[p]) ELSE Fail(p)
    /\ UNCHANGED <<rows, existing, conflict>>

-----------------------------------------------------------------------------
(***************************************************************************)
(* Persisting: createFreshSlip, resetSlipInPlace, repaveExistingSlip.  A   *)
(* duplicate goes to the backstop, once; "again" is the retry after it.    *)
(***************************************************************************)

\* Mutant: no backstop.
ConflictedForGood(p, again) == Fail(p)

\* Only the first attempt of a write goes to the backstop.
Conflicted(p, again) == IF again THEN Fail(p) ELSE Goto(p, "backstop")

CreateFreshSlip(p) ==
    /\ pc[p] \in {"create", "create again"}
    /\ \E outcome \in {"written", "duplicate"} :
          /\ Create(IdOf[p], outcome)
          /\ IF outcome = "written" THEN Return(p, IdOf[p])
             ELSE Conflicted(p, pc[p] = "create again")
    /\ UNCHANGED <<existing, conflict>>

\* A refused reset means that a claimant holds the push's own slip.
ResetOwnSlip(p) ==
    /\ pc[p] \in {"reset", "reset again"}
    /\ \E outcome \in {"written", "duplicate", "claimed"} :
          /\ ResetSlipInPlace(IdOf[p], outcome)
          /\ CASE outcome = "written"   -> Return(p, IdOf[p])
               [] outcome = "claimed"   -> Goto(p, "reload")
               [] outcome = "duplicate" -> Conflicted(p, pc[p] = "reset again")
    /\ UNCHANGED <<existing, conflict>>

RepaveExistingSlip(p) ==
    /\ pc[p] \in {"repave", "repave again"}
    /\ \E outcome \in {"written", "duplicate", "went live"} :
          /\ Repave(existing[p], IdOf[p], outcome)
          /\ CASE outcome = "written"   -> Return(p, IdOf[p])
               [] outcome = "went live" -> IF pc[p] = "repave" THEN Goto(p, "revisit") ELSE Fail(p)
               [] outcome = "duplicate" -> Conflicted(p, pc[p] = "repave again")
    /\ UNCHANGED <<existing, conflict>>

\* The slip that went live is loaded and then handled as a retry.
Revisit(p) ==
    /\ pc[p] = "revisit"
    /\ IF Exists(existing[p]) THEN Goto(p, "retry") ELSE Fail(p)
    /\ UNCHANGED <<rows, existing, conflict>>

-----------------------------------------------------------------------------
(***************************************************************************)
(* handleDuplicateSlipBackstop.                                            *)
(***************************************************************************)

\* The write that met the duplicate is made once more.
Again(p) ==
    IF existing[p] = None THEN "create again"
    ELSE IF existing[p] = IdOf[p] THEN "reset again" ELSE "repave again"

BackstopLoad(p) ==
    /\ pc[p] = "backstop"
    /\ \E i \in Ids \cup {None} :
          /\ Found(i)
          /\ conflict' = [conflict EXCEPT ![p] = i]
          /\ IF i = None THEN Goto(p, Again(p))
             ELSE IF Live(i) \/ EmptyRunGuard(p, i) \/ Claimed(i) THEN Return(p, i)
             ELSE IF i = IdOf[p] THEN Goto(p, "backstop reset")
             ELSE Goto(p, "backstop repave")
    /\ UNCHANGED <<rows, existing>>

BackstopReset(p) ==
    /\ pc[p] = "backstop reset"
    /\ \E outcome \in {"written", "duplicate", "claimed"} :
          /\ ResetSlipInPlace(IdOf[p], outcome)
          /\ CASE outcome = "written"   -> Return(p, IdOf[p])
               [] outcome = "claimed"   -> Goto(p, "backstop reload")
               [] outcome = "duplicate" -> Fail(p)
    /\ UNCHANGED <<existing, conflict>>

\* Mutant: a refused repave starts the backstop over.
WentLiveAgain(p) == Goto(p, "backstop")

\* The conflicting slip went live before the repave: reload it as it is.
WentLive(p) == Goto(p, "backstop reload")

BackstopRepave(p) ==
    /\ pc[p] = "backstop repave"
    /\ \E outcome \in {"written", "duplicate", "went live"} :
          /\ Repave(conflict[p], IdOf[p], outcome)
          /\ CASE outcome = "written"   -> Return(p, IdOf[p])
               [] outcome = "went live" -> WentLive(p)
               [] outcome = "duplicate" -> Fail(p)
    /\ UNCHANGED <<existing, conflict>>

BackstopReload(p) ==
    /\ pc[p] = "backstop reload"
    /\ IF Exists(conflict[p]) THEN Return(p, conflict[p]) ELSE Fail(p)
    /\ UNCHANGED <<rows, existing, conflict>>

-----------------------------------------------------------------------------
(***************************************************************************)
(* Pushes begin, and fail.  A delivery that failed, in its push or after   *)
(* it, is retried under its own id: by another member of Pushes.           *)
(***************************************************************************)
InFlight(p) == pc[p] \notin {"idle", "done", "failed"}

CreateSlipForPush(p) ==
    /\ pc[p] = "idle"
    /\ Overlap \/ \A q \in Pushes : IdOf[q] = IdOf[p] => ~InFlight(q)
    /\ Goto(p, "load")
    /\ UNCHANGED <<rows, existing, conflict>>

\* A call of the push fails and has written nothing.  (A write that lands but
\* whose answer is lost leaves what a push that returned leaves.)
Fault(p) ==
    /\ Faults /\ InFlight(p)
    /\ Fail(p)
    /\ UNCHANGED <<rows, existing, conflict>>

Proceed(p) ==
    \/ LoadByCommit(p) \/ HandlePushRetry(p) \/ Reload(p)
    \/ CreateFreshSlip(p) \/ ResetOwnSlip(p) \/ RepaveExistingSlip(p) \/ Revisit(p)
    \/ BackstopLoad(p) \/ BackstopReset(p) \/ BackstopRepave(p) \/ BackstopReload(p)

-----------------------------------------------------------------------------
(***************************************************************************)
(* Everyone else who writes the slip: its run, operators and claimants.    *)
(***************************************************************************)
Others == Meanwhile \/ \A p \in Pushes : ~InFlight(p)

UpdateSlipStatus(i, s) ==
    /\ Others /\ Exists(i)
    /\ rows' = [rows EXCEPT ![i].status = s,
                            ![i].claimedFrom = IF s \in SlipTerminal THEN Unclaimed ELSE @]
    /\ UNCHANGED pushVars

\* A step of the run starts, or the last executing one ends.
UpdateStep(i, busy) ==
    /\ Others /\ Exists(i)
    /\ rows' = [rows EXCEPT ![i].busy = busy]
    /\ UNCHANGED pushVars

ClaimSlip(i, expected) ==
    /\ Others /\ Exists(i)
    /\ ClaimWrites(rows[i].status, rows[i].claimedFrom, rows[i].busy, expected)
    /\ rows' = [rows EXCEPT ![i].claimedFrom = rows[i].status]
    /\ UNCHANGED pushVars

ReleaseClaim(i) ==
    /\ Others /\ Exists(i)
    /\ ReleaseWrites(rows[i].claimedFrom, rows[i].busy)
    /\ rows' = [rows EXCEPT ![i].claimedFrom = Unclaimed]
    /\ UNCHANGED pushVars

-----------------------------------------------------------------------------
Init ==
    /\ rows = [i \in Ids |-> NoSlip]
    /\ pc = [p \in Pushes |-> "idle"]
    /\ existing = [p \in Pushes |-> None]
    /\ conflict = [p \in Pushes |-> None]
    /\ result = [p \in Pushes |-> None]

Next ==
    \/ \E p \in Pushes : CreateSlipForPush(p) \/ Proceed(p) \/ Fault(p)
    \/ \E i \in Ids :
          \/ \E s \in RunStatuses : UpdateSlipStatus(i, s)
          \/ \E busy \in BOOLEAN : UpdateStep(i, busy)
          \/ \E expected \in Expectations : ClaimSlip(i, expected)
          \/ ReleaseClaim(i)

Spec == Init /\ [][Next]_vars

\* A push that was begun goes on; nothing makes deliveries, runs or claimants act.
FairSpec == Spec /\ \A p \in Pushes : WF_vars(Proceed(p))

-----------------------------------------------------------------------------
(***************************************************************************)
(* Properties.                                                             *)
(***************************************************************************)

Places == {"idle", "load", "create", "create again", "reset", "reset again",
           "repave", "repave again", "retry", "reload", "revisit", "backstop",
           "backstop reset", "backstop repave", "backstop reload", "done", "failed"}

\* The rows are those CreateSlipForPush and its runs write; a push is at one of
\* its calls; and it resets only its own slip in place, repaves only another's.
TypeOK ==
    /\ rows \in [Ids -> Slips \cup {NoSlip}]
    /\ pc \in [Pushes -> Places]
    /\ existing \in [Pushes -> Ids \cup {None}]
    /\ conflict \in [Pushes -> Ids \cup {None}]
    /\ result \in [Pushes -> Ids \cup {None}]
    /\ \A p \in Pushes :
          /\ pc[p] \in {"reset", "reset again"} => existing[p] = IdOf[p]
          /\ pc[p] = "backstop reset" => conflict[p] = IdOf[p]
          /\ pc[p] \in {"repave", "repave again", "revisit"} => existing[p] \in Ids \ {IdOf[p]}
          /\ pc[p] \in {"retry", "reload"} => existing[p] \in Ids
          /\ pc[p] = "backstop repave" => conflict[p] \in Ids \ {IdOf[p]}
          /\ pc[p] = "backstop reload" => conflict[p] \in Ids

\* push.go: "There is no longer a window in which the commit has no slip".
\* Whatever the pushes race for, and wherever they fail, a commit that has a
\* slip has exactly one from then on.
CommitKeepsOneSlip ==
    [][(\E i \in Ids : Exists(i)) => \E i \in Ids : Exists(i)' /\ \A j \in Ids \ {i} : ~Exists(j)']_vars

\* A push leaves another delivery's live slip, and any claimed slip, exactly as
\* it finds them, however long ago it decided what to write.  (When a delivery
\* is retried while its last push goes on, Create's upsert may meet a row that
\* the other push has written: then only other deliveries' slips are safe.)
PushSparesRuns ==
    [][\A p \in Pushes : pc'[p] # pc[p] =>
          \A i \in Ids :
             \/ i # IdOf[p] /\ (Live(i) \/ Claimed(i))
             \/ i = IdOf[p] /\ Claimed(i) /\ ~Overlap
             => rows'[i] = rows[i]]_vars

\* A push that has begun ends, with a slip or with an error: no sequence of
\* conflicts keeps it retrying.
EveryPushAnswers ==
    \A p \in Pushes : pc[p] = "load" ~> pc[p] \in {"done", "failed"}

\* The dual write of a duplicate is never needed: since a commit keeps a slip,
\* the backstop of a push that met a duplicate always finds a slip.
BackstopFindsSlip ==
    \A p \in Pushes : pc[p] \notin {"create again", "reset again", "repave again"}

\* Pushes that race only with each other all succeed: whichever order their
\* reads and writes fall in, none is sent back to be redelivered.
RacingPushesSucceed == \A p \in Pushes : pc[p] # "failed"

\* A push that starts a run returns a slip that is live or claimed as it
\* returns, when only pushes are racing: it is not handed an ended one.
DispatchedPushHasRun ==
    [][\A p \in Dispatching : pc'[p] = "done" /\ pc[p] # "done" =>
          \E i \in Ids : result'[p] = i /\ (Live(i)' \/ Claimed(i)')]_vars
=============================================================================
