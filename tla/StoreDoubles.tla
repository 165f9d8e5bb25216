----------------------------- MODULE StoreDoubles -----------------------------
(***************************************************************************)
(* PostgresStore and MockStore side by side: every call goes to both, and  *)
(* the two must keep giving the same answers for as long as the calls are  *)
(* of the kind the shared contract (slippytest.RunClaimContract) makes.    *)
(*                                                                         *)
(* "covered" turns FALSE with the first call outside the contract: one on  *)
(* a component or an unconfigured step, or one the freshness gate refuses. *)
(* The double is set aside then.                                           *)
(***************************************************************************)
EXTENDS SlipStore

CONSTANT Claimants   \* the runs that name themselves when they start a step

VARIABLES
    mock,       \* the slip in the double
    claimedBy,  \* slip_component_states.claimed_by of the rows of whole steps
    covered     \* every call so far is of the contract

doubles == <<mock, claimedBy, covered>>

Mock == INSTANCE MockStore

\* The claimant a loaded slip shows: applyClaimants reads the rows of the
\* running whole steps.
ClaimantOf(n) ==
    IF col[n] = "running" /\ comp[<<n, Whole>>] = "running"
    THEN claimedBy[n] ELSE Mock!Nobody

\* The conflict arm of upsertComponentState: a running write replaces the
\* claimant, any other leaves it.
ClaimedBy(n, s, by) ==
    IF s = "running" \/ comp[<<n, Whole>>] = NoRow
    THEN [claimedBy EXCEPT ![n] = IF s = "running" THEN by ELSE Mock!Nobody]
    ELSE claimedBy

NoClaimants == [n \in Steps |-> Mock!Nobody]

-----------------------------------------------------------------------------
(***************************************************************************)
(* The calls.  The store takes one, or refuses it and writes nothing.      *)
(***************************************************************************)
Called(call, taken) == IF taken THEN call ELSE UNCHANGED vars

MayRepave  == present /\ status \in Repaveable /\ claimedFrom = Unclaimed
MayClaim(expected) == present /\ ClaimWrites(status, claimedFrom, RunInFlight, expected)
MayRelease == present /\ ReleaseWrites(claimedFrom, RunInFlight)
MayReport(n, entry) == present /\ {n, entry} \cap MarkerSteps = {}

\* The double is asked as well, unless it was set aside.
Also(call) ==
    /\ IF covered THEN call ELSE UNCHANGED mock
    /\ UNCHANGED covered

SetAside ==
    /\ covered' = FALSE
    /\ mock' = Mock!Absent /\ claimedBy' = NoClaimants

\* The contract's step calls.
InContract(n, c, s) ==
    /\ c = Whole /\ n \in Steps
    /\ n \in AggregateSteps => Recorded(comp, n) = {}
    /\ GateAdmits(n, c, s)

\* A step write; push_parsed is the push's own, and a push names nobody.
StepTaken(n, c, s, entry, by) ==
    /\ n = PushParsed => by = Mock!Nobody
    /\ UpdateStep(n, c, s, entry)
    /\ IF covered /\ InContract(n, c, s)
       THEN /\ Also(Mock!UpdateStepWithHistory(n, s, entry, by))
            /\ claimedBy' = ClaimedBy(n, s, by)
       ELSE by = Mock!Nobody /\ SetAside   \* who started it no longer matters

\* There is no slip, or the entry is under a marker's name.
StepRefused(n, c, s, entry, by) ==
    /\ covered /\ InContract(n, c, s)
    /\ ~MayReport(n, entry) /\ UNCHANGED vars
    /\ Also(Mock!UpdateStepWithHistory(n, s, entry, by))
    /\ UNCHANGED claimedBy

\* The terminal-freshness gate refuses; the double has none.
GateRefuses(n, c, s) ==
    /\ covered /\ present /\ ~GateAdmits(n, c, s)
    /\ UNCHANGED vars /\ SetAside

\* Only calls on the slip and its claim.
SlipCall ==
    \/ \E d \in BOOLEAN : Create(d) /\ Also(Mock!Create)
    \/ \E d \in BOOLEAN : /\ present /\ Called(ResetSlipInPlace(d), ResetAllowed(claimedFrom))
                           /\ Also(Mock!ResetSlipInPlace)
    \/ \E s \in SlipWrites : Called(UpdateSlipStatus(s), present) /\ Also(Mock!UpdateSlipStatus(s))
    \/ \E e \in Expectations : Called(ClaimSlip(e), MayClaim(e)) /\ Also(Mock!ClaimSlip(e))
    \/ Called(ReleaseClaim, MayRelease) /\ Also(Mock!ReleaseClaim)

\* The rows go with the slip, and their claimants with them.
RepaveCall ==
    /\ Called(Repaved, MayRepave) /\ Also(Mock!Repave)
    /\ claimedBy' = IF MayRepave THEN NoClaimants ELSE claimedBy

DoublesInit == Init /\ mock = Mock!Absent /\ claimedBy = NoClaimants /\ covered = TRUE

DoublesNext ==
    \/ SlipCall /\ UNCHANGED claimedBy
    \/ RepaveCall
    \/ \E k \in Reports, s \in StepWrites, by \in Claimants \cup {Mock!Nobody} :
          \E entry \in {k[1]} \cup MarkerSteps :
             \/ StepTaken(k[1], k[2], s, entry, by)
             \/ StepRefused(k[1], k[2], s, entry, by)
    \/ \E k \in Reports, s \in StepWrites : GateRefuses(k[1], k[2], s)
    \/ \E a \in AggregateSteps, c \in Components : SetComponentImageTag(a, c) /\ SetAside
    \/ Age /\ UNCHANGED doubles

DoublesSpec == DoublesInit /\ [][DoublesNext]_<<vars, doubles>>

-----------------------------------------------------------------------------
\* The two stores agree on what a caller can load: a test that passes against
\* the double passes against Postgres, and the double keeps SlipContract because
\* PostgresStore does (ImplementsContract).  A claimant is shown in both or in
\* neither: a consumer takes a step that shows another one for another run's.
DoublesAgree ==
    covered =>
        /\ mock.present = present /\ mock.status = status
        /\ mock.claimedFrom = claimedFrom /\ mock.marker = marker
        /\ mock.steps = col
        /\ \A n \in Steps : mock.claimedBy[n] = ClaimantOf(n)
        /\ (Mock!InFlight <=> RunInFlight)
=============================================================================
