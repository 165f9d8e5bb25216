-------------------------- MODULE StoreDoublesProofs --------------------------
(***************************************************************************)
(* Proofs about StoreDoubles, for any pipeline, any claimants and any      *)
(* calls: for as long as the calls are of the contract, the double holds   *)
(* what a caller can load from PostgresStore; and about SlipLookups, for   *)
(* any rows and searches: it answers a lookup as PostgresStore may.        *)
(***************************************************************************)
EXTENDS StoreDoubles, SlipLookups, SlipStoreProofs,
        FiniteSetTheorems, WellFoundedInduction

\* The slip a caller loads from PostgresStore.
Shown ==
    [present |-> present, status |-> status, claimedFrom |-> claimedFrom, marker |-> marker,
     steps |-> col, claimedBy |-> [n \in Steps |-> ClaimantOf(n)]]

\* No component has reported, and no item executes.
WholeStepsOnly ==
    /\ \A n \in Names, c \in Components : comp[<<n, c>>] = NoRow
    /\ \A a \in AggregateSteps, c \in Components : items[a][c] \notin StepRunning

\* The rows' claimants; nobody claims push_parsed.
ClaimantsOK ==
    /\ claimedBy \in [Steps -> Claimants \cup {Mock!Nobody}]
    /\ claimedBy[PushParsed] = Mock!Nobody

DoublesInv == ClaimantsOK /\ (covered => mock = Shown /\ WholeStepsOnly)

\* The double has the vocabulary of the store.
LEMMA SameVocabulary ==
    /\ Mock!StepRunning = StepRunning /\ Mock!SlipTerminal = SlipTerminal
    /\ Mock!Unclaimed = Unclaimed /\ Mock!NoRow = NoRow
    /\ Mock!ClaimMarker = ClaimMarker /\ Mock!ReleaseMarker = ReleaseMarker
    /\ Mock!MarkerSteps = MarkerSteps
BY DEF Mock!StepRunning, StepRunning, Mock!SlipTerminal, SlipTerminal, Mock!Unclaimed, Unclaimed,
       Mock!NoRow, NoRow, Mock!ClaimMarker, ClaimMarker, Mock!ReleaseMarker, ReleaseMarker,
       Mock!MarkerSteps, MarkerSteps

LEMMA SameDecisions ==
    /\ \A c : Mock!ResetAllowed(c) <=> ResetAllowed(c)
    /\ \A st \in SlipStatuses : ~Mock!SlipLive(st) <=> st \in Repaveable
<1>1. \A c : Mock!ResetAllowed(c) <=> ResetAllowed(c)
  BY SameVocabulary DEF Mock!ResetAllowed, ResetAllowed
<1>2. \A st \in SlipStatuses : ~Mock!SlipLive(st) <=> st \in Repaveable
  BY SameVocabulary DEF Mock!SlipLive, SlipTerminal, Repaveable, SlipStatuses
<1> QED
  BY <1>1, <1>2

\* The two stores' work goes on in step.
LEMMA SameWork ==
    ASSUME mock = Shown, WholeStepsOnly
    PROVE  Mock!InFlight <=> RunInFlight
BY SameVocabulary DEF Shown, WholeStepsOnly, RunInFlight, Mock!InFlight

-----------------------------------------------------------------------------
(***************************************************************************)
(* Every call is a transaction of the store, or none.                      *)
(***************************************************************************)
LEMMA CallsAreTransactions == DoublesNext => [Next]_vars
<1> SUFFICES ASSUME DoublesNext PROVE [Next]_vars
  OBVIOUS
<1>1. CASE SlipCall
  BY <1>1 DEF SlipCall, Called, Next
<1>2. CASE RepaveCall
  BY <1>2 DEF RepaveCall, Called, Next
<1>3. ASSUME NEW k \in Reports, NEW s \in StepWrites, NEW by,
             NEW entry \in {k[1]} \cup MarkerSteps,
             StepTaken(k[1], k[2], s, entry, by)
      PROVE  Next
  BY <1>3 DEF StepTaken, Next
<1>4. ASSUME NEW k \in Reports, NEW s \in StepWrites, NEW by,
             NEW entry \in {k[1]} \cup MarkerSteps,
             StepRefused(k[1], k[2], s, entry, by)
      PROVE  UNCHANGED vars
  BY <1>4 DEF StepRefused
<1>5. ASSUME NEW k \in Reports, NEW s \in StepWrites, GateRefuses(k[1], k[2], s)
      PROVE  UNCHANGED vars
  BY <1>5 DEF GateRefuses
<1>6. ASSUME NEW a \in AggregateSteps, NEW c \in Components, SetComponentImageTag(a, c)
      PROVE  Next
  BY <1>6 DEF Next
<1>7. CASE Age
  BY <1>7 DEF Next
<1> QED
  BY <1>1, <1>2, <1>3, <1>4, <1>5, <1>6, <1>7 DEF DoublesNext

LEMMA DoublesUseTheStore == DoublesSpec => Spec
<1>1. DoublesInit => Init
  BY DEF DoublesInit
<1>2. [DoublesNext]_<<vars, doubles>> => [Next]_vars
  BY CallsAreTransactions
<1> QED
  BY <1>1, <1>2, PTL DEF DoublesSpec, Spec

-----------------------------------------------------------------------------
(***************************************************************************)
(* Calls on the slip and its claim.                                        *)
(***************************************************************************)

\* Where the columns, the rows and the claimants stay, so does what is shown
\* of the steps.
LEMMA StepsStay ==
    ASSUME DoublesInv, covered, UNCHANGED <<col, items, comp, claimedBy>>
    PROVE  /\ ClaimantsOK' /\ WholeStepsOnly'
           /\ [n \in Steps |-> ClaimantOf(n)]' = [n \in Steps |-> ClaimantOf(n)]
BY DEF DoublesInv, ClaimantsOK, WholeStepsOnly, ClaimantOf

\* A push's slip: nobody is shown to have started anything.
LEMMA PushShows ==
    ASSUME TypeOK, DoublesInv, covered, NEW d \in BOOLEAN,
           present' = TRUE, Seed(d), claimedFrom = Unclaimed,
           UNCHANGED <<claimedFrom, comp, claimedBy>>,
           mock' = Mock!Pushed(Unclaimed)
    PROVE  ClaimantsOK' /\ mock' = Shown' /\ WholeStepsOnly'
<1> DEFINE claimants == [n \in Steps |-> ClaimantOf(n)]
<1>1. ClaimantsOK'
  BY DEF DoublesInv, ClaimantsOK
<1>2. WholeStepsOnly'
  BY DEF DoublesInv, WholeStepsOnly, Seed, StepRunning, NoRow
<1>3. claimants' = [n \in Steps |-> Mock!Nobody]
  BY <1>1, "pending" # "running" DEF ClaimantOf, Seed, ClaimantsOK
<1>4. mock' = [present |-> TRUE, status |-> "in_progress", claimedFrom |-> Unclaimed,
               marker |-> NoRow, claimedBy |-> [n \in Steps |-> Mock!Nobody],
               steps |-> [n \in Steps |-> IF n = PushParsed THEN "running" ELSE "pending"]]
  BY SameVocabulary DEF Mock!Pushed, Mock!Absent
<1>5. Shown' = [present |-> TRUE, status |-> "in_progress", claimedFrom |-> Unclaimed,
               marker |-> NoRow, claimedBy |-> claimants',
               steps |-> [n \in Steps |-> IF n = PushParsed THEN "running" ELSE "pending"]]
  BY DEF Shown, Seed
<1> QED
  BY <1>1, <1>2, <1>3, <1>4, <1>5

LEMMA SlipCallAgrees ==
    ASSUME ClaimInv, DoublesInv, covered, SlipCall, UNCHANGED claimedBy
    PROVE  ClaimantsOK' /\ mock' = Shown' /\ WholeStepsOnly'
<1> USE SameVocabulary, SameDecisions DEF DoublesInv
<1> DEFINE claimants == [n \in Steps |-> ClaimantOf(n)]
<1>0. mock = [present |-> present, status |-> status, claimedFrom |-> claimedFrom,
              marker |-> marker, steps |-> col, claimedBy |-> claimants]
  BY DEF Shown
<1>1. /\ mock.present = present /\ mock.status = status
      /\ mock.claimedFrom = claimedFrom /\ mock.marker = marker
  BY DEF Shown
<1>2. ASSUME NEW d \in BOOLEAN, Create(d), Also(Mock!Create)
      PROVE  ClaimantsOK' /\ mock' = Shown' /\ WholeStepsOnly'
  BY <1>1, <1>2, PushShows DEF Create, Also, Mock!Create, ClaimInv, GoneIsUnclaimed
<1>3. ASSUME UNCHANGED <<vars, mock>>
      PROVE  ClaimantsOK' /\ mock' = Shown' /\ WholeStepsOnly'
  BY <1>3, StepsStay DEF vars, Shown
<1>4. ASSUME NEW d \in BOOLEAN, present, Called(ResetSlipInPlace(d), ResetAllowed(claimedFrom)),
             Also(Mock!ResetSlipInPlace)
      PROVE  ClaimantsOK' /\ mock' = Shown' /\ WholeStepsOnly'
  <2>1. CASE ResetAllowed(claimedFrom)
    BY <1>1, <1>4, <2>1, PushShows
    DEF Called, ResetSlipInPlace, Also, Mock!ResetSlipInPlace, ResetAllowed, ClaimInv
  <2>2. CASE ~ResetAllowed(claimedFrom)
    BY <1>1, <1>3, <1>4, <2>2 DEF Called, Also, Mock!ResetSlipInPlace
  <2> QED
    BY <2>1, <2>2
<1>5. ASSUME NEW st, NEW cf, NEW mk, present,
             status' = st, claimedFrom' = cf, marker' = mk,
             UNCHANGED <<present, col, items, comp>>,
             mock' = [present |-> present, status |-> st, claimedFrom |-> cf,
                      marker |-> mk, steps |-> col, claimedBy |-> claimants]
      PROVE  ClaimantsOK' /\ mock' = Shown' /\ WholeStepsOnly'
  <2>1. ClaimantsOK' /\ WholeStepsOnly' /\ claimants' = claimants
    BY <1>5, StepsStay
  <2>2. Shown' = [present |-> present', status |-> status', claimedFrom |-> claimedFrom',
                  marker |-> marker', steps |-> col', claimedBy |-> claimants']
    BY DEF Shown
  <2> QED
    BY <1>5, <2>1, <2>2
<1>6. ASSUME NEW s \in SlipWrites, Called(UpdateSlipStatus(s), present),
             Also(Mock!UpdateSlipStatus(s))
      PROVE  ClaimantsOK' /\ mock' = Shown' /\ WholeStepsOnly'
  <2>1. CASE ~present
    BY <1>1, <1>3, <1>6, <2>1 DEF Called, Also, Mock!UpdateSlipStatus, Mock!Writes
  <2>2. CASE present
    <3> DEFINE cf == IF s \in SlipTerminal THEN Unclaimed ELSE claimedFrom
               mk == IF s \in SlipTerminal /\ claimedFrom # Unclaimed
                     THEN ReleaseMarker ELSE marker
    <3>1. /\ status' = s /\ claimedFrom' = cf /\ marker' = mk
          /\ UNCHANGED <<present, col, items, comp>>
      BY <1>6, <2>2 DEF Called, UpdateSlipStatus
    <3>2. mock' = [mock EXCEPT !.status = s, !.claimedFrom = cf, !.marker = mk]
      BY <1>1, <1>6, <2>2 DEF Also, Mock!UpdateSlipStatus, Mock!Writes, Shown
    <3> HIDE DEF cf, mk
    <3>3. mock' = [present |-> present, status |-> s, claimedFrom |-> cf,
                   marker |-> mk, steps |-> col, claimedBy |-> claimants]
      <4> HIDE DEF claimants
      <4> QED
        BY <1>0, <3>2
    <3> QED
      BY <1>5, <2>2, <3>1, <3>3
  <2> QED
    BY <2>1, <2>2
<1>7. ASSUME NEW e \in Expectations, Called(ClaimSlip(e), MayClaim(e)),
             Also(Mock!ClaimSlip(e))
      PROVE  ClaimantsOK' /\ mock' = Shown' /\ WholeStepsOnly'
  <2>1. MayClaim(e) <=> mock.present /\ Mock!ClaimWrites(mock.status, mock.claimedFrom, Mock!InFlight, e)
    BY <1>1, SameWork DEF MayClaim, ClaimWrites, Mock!ClaimWrites
  <2>2. CASE ~MayClaim(e)
    BY <1>3, <1>7, <2>1, <2>2 DEF Called, Also, Mock!ClaimSlip, Mock!Writes
  <2>3. CASE MayClaim(e)
    <3>1. mock' = [mock EXCEPT !.claimedFrom = status, !.marker = ClaimMarker]
      BY <1>1, <1>7, <2>1, <2>3 DEF Also, Mock!ClaimSlip, Mock!Writes
    <3>2. mock' = [present |-> present, status |-> status, claimedFrom |-> status,
                   marker |-> ClaimMarker, steps |-> col, claimedBy |-> claimants]
      <4> HIDE DEF claimants
      <4> QED
        BY <1>0, <3>1
    <3> QED
      BY <1>5, <1>7, <2>3, <3>2 DEF Called, ClaimSlip, MayClaim
  <2> QED
    BY <2>2, <2>3
<1>8. ASSUME Called(ReleaseClaim, MayRelease), Also(Mock!ReleaseClaim)
      PROVE  ClaimantsOK' /\ mock' = Shown' /\ WholeStepsOnly'
  <2>1. MayRelease <=> mock.present /\ Mock!ReleaseWrites(mock.claimedFrom, Mock!InFlight)
    BY <1>1, SameWork DEF MayRelease, ReleaseWrites, Mock!ReleaseWrites
  <2>2. CASE ~MayRelease
    BY <1>3, <1>8, <2>1, <2>2 DEF Called, Also, Mock!ReleaseClaim, Mock!Writes
  <2>3. CASE MayRelease
    <3>1. mock' = [mock EXCEPT !.claimedFrom = Unclaimed, !.marker = ReleaseMarker]
      BY <1>1, <1>8, <2>1, <2>3 DEF Also, Mock!ReleaseClaim, Mock!Writes
    <3>2. mock' = [present |-> present, status |-> status, claimedFrom |-> Unclaimed,
                   marker |-> ReleaseMarker, steps |-> col, claimedBy |-> claimants]
      <4> HIDE DEF claimants
      <4> QED
        BY <1>0, <3>1
    <3> QED
      BY <1>5, <1>8, <2>3, <3>2 DEF Called, ReleaseClaim, MayRelease
  <2> QED
    BY <2>2, <2>3
<1> QED
  BY <1>2, <1>4, <1>6, <1>7, <1>8 DEF SlipCall

-----------------------------------------------------------------------------
(***************************************************************************)
(* Calls on steps, and the repave.                                         *)
(***************************************************************************)

LEMMA NoneRecorded ==
    ASSUME NEW reported, NEW a,
           \A n \in Aliases(a), c \in Components : reported[<<n, c>>] = NoRow
    PROVE  Recorded(reported, a) = {}
<1>1. ASSUME NEW v \in Recorded(reported, a) PROVE FALSE
  <2>1. PICK x \in Aliases(a), d \in Components : v = reported[<<x, d>>] /\ v # NoRow
    BY DEF Recorded
  <2> QED
    BY <2>1
<1> QED
  BY <1>1

\* A step call of the contract is a write of the step's own column.
LEMMA OwnColumnIsWritten ==
    ASSUME TypeOK, WholeStepsOnly, NEW n \in Steps, NEW s \in StepStatuses,
           comp' = [comp EXCEPT ![<<n, Whole>>] = s], WriteColumns(n, Whole, s)
    PROVE  /\ WholeStepsOnly'
           /\ col' = [col EXCEPT ![n] = s] /\ items' = items
<1>1. \A m \in Names, c \in Components : comp'[<<m, c>>] = NoRow
  BY ConfigAssumption DEF TypeOK, WholeStepsOnly, Slots
<1>2. CASE n \in AggregateSteps
  <2>1. RollsUpTo(n, n)
    BY <1>2 DEF RollsUpTo, Aliases
  <2>2. Recorded(comp', n) = {}
    <3>1. \A m \in Aliases(n), c \in Components : comp'[<<m, c>>] = NoRow
      BY <1>1, <1>2, AliasesAreNames
    <3> QED
      BY <3>1, NoneRecorded
  <2>3. PICK a \in AggregateSteps :
           /\ RollsUpTo(n, a)
           /\ IF OwnColumn(n, Whole, a)
              THEN col' = [col EXCEPT ![a] = s] /\ UNCHANGED items
              ELSE Recompute(comp', a)
    BY <1>2, <2>1 DEF WriteColumns
  <2>4. a = n /\ OwnColumn(n, Whole, a)
    BY <2>1, <2>2, <2>3, RollsUpOnce DEF OwnColumn
  <2> QED
    BY <1>1, <2>3, <2>4 DEF WholeStepsOnly
<1>3. CASE n \notin AggregateSteps
  BY <1>1, <1>3 DEF WriteColumns, WholeStepsOnly
<1> QED
  BY <1>2, <1>3

LEMMA StepCallAgrees ==
    ASSUME ClaimInv, DoublesInv, covered, NEW n \in Steps, NEW s \in StepStatuses,
           NEW entry, NEW by \in Claimants \cup {Mock!Nobody},
           <<n, Whole>> \in Names \X Slots,
           n = PushParsed => by = Mock!Nobody,
           UpdateStep(n, Whole, s, entry),
           Mock!UpdateStepWithHistory(n, s, entry, by),
           claimedBy' = ClaimedBy(n, s, by)
    PROVE  ClaimantsOK' /\ mock' = Shown' /\ WholeStepsOnly'
<1> DEFINE claimants == [m \in Steps |-> ClaimantOf(m)]
           own == IF s = "running" THEN by ELSE Mock!Nobody
<1>1. /\ mock = Shown /\ WholeStepsOnly /\ ClaimantsOK /\ TypeOK
  BY DEF DoublesInv, ClaimInv
<1>2. /\ present /\ n \notin MarkerSteps /\ entry \notin MarkerSteps
      /\ comp' = [comp EXCEPT ![<<n, Whole>>] = s]
      /\ WriteColumns(n, Whole, s)
      /\ UNCHANGED <<present, status, claimedFrom, marker>>
  BY DEF UpdateStep
<1>3. WholeStepsOnly' /\ col' = [col EXCEPT ![n] = s] /\ items' = items
  BY <1>1, <1>2, OwnColumnIsWritten
<1>4. /\ claimedBy' \in [Steps -> Claimants \cup {Mock!Nobody}]
      /\ \A m \in Steps \ {n} : claimedBy'[m] = claimedBy[m]
      /\ s = "running" => claimedBy'[n] = by
      /\ s # "running" => claimedBy'[n] \in {claimedBy[n], Mock!Nobody}
  BY <1>1 DEF ClaimantsOK, ClaimedBy
<1>5. ClaimantsOK'
  BY <1>1, <1>4, ConfigAssumption DEF ClaimantsOK, Steps
<1>6. claimants' = [claimants EXCEPT ![n] = own]
  <2>1. \A m \in Steps \ {n} :
           /\ col'[m] = col[m] /\ comp'[<<m, Whole>>] = comp[<<m, Whole>>]
           /\ claimedBy'[m] = claimedBy[m]
    BY <1>1, <1>2, <1>3, <1>4 DEF TypeOK
  <2>2. col'[n] = s /\ comp'[<<n, Whole>>] = s
    BY <1>1, <1>2, <1>3 DEF TypeOK
  <2> QED
    BY <1>4, <2>1, <2>2 DEF ClaimantOf
<1>7. mock = [present |-> present, status |-> status, claimedFrom |-> claimedFrom,
              marker |-> marker, steps |-> col, claimedBy |-> claimants]
  BY <1>1 DEF Shown
<1>8. mock' = [mock EXCEPT !.steps[n] = s, !.claimedBy[n] = own]
  BY <1>2, <1>7, SameVocabulary
  DEF Mock!UpdateStepWithHistory, Mock!UpdateStep, Mock!Writes, Mock!ClaimantFor
<1>9. mock' = [present |-> present, status |-> status, claimedFrom |-> claimedFrom,
               marker |-> marker, steps |-> [col EXCEPT ![n] = s],
               claimedBy |-> [claimants EXCEPT ![n] = own]]
  <2> HIDE DEF claimants, own
  <2> QED
    BY <1>7, <1>8
<1>10. Shown' = [present |-> present', status |-> status', claimedFrom |-> claimedFrom',
                 marker |-> marker', steps |-> col', claimedBy |-> claimants']
  BY DEF Shown
<1> QED
  BY <1>2, <1>3, <1>5, <1>6, <1>9, <1>10

LEMMA RepaveAgrees ==
    ASSUME ClaimInv, DoublesInv, covered, RepaveCall
    PROVE  ClaimantsOK' /\ mock' = Shown' /\ WholeStepsOnly'
<1> USE SameVocabulary DEF DoublesInv
<1> DEFINE claimants == [m \in Steps |-> ClaimantOf(m)]
<1>1. /\ mock.present = present /\ mock.status = status /\ mock.claimedFrom = claimedFrom
  BY DEF Shown
<1>2. MayRepave <=> mock.present /\ ~Mock!SlipLive(mock.status) /\ mock.claimedFrom = Unclaimed
  BY <1>1, SameDecisions DEF MayRepave, ClaimInv, TypeOK
<1>3. CASE ~MayRepave
  <2>1. UNCHANGED <<vars, mock, claimedBy>>
    BY <1>2, <1>3 DEF RepaveCall, Called, Also, Mock!Repave, Mock!Writes
  <2> QED
    BY <2>1, StepsStay DEF vars, Shown
<1>4. CASE MayRepave
  <2>1. /\ Repaved /\ mock' = Mock!Absent /\ claimedBy' = NoClaimants
    BY <1>2, <1>4 DEF RepaveCall, Called, Also, Mock!Repave, Mock!Writes
  <2>2. /\ present' = FALSE /\ status' = "pending" /\ claimedFrom' = Unclaimed
        /\ marker' = NoRow /\ col' = NoColumns /\ items' = NoItems /\ comp' = NoRows
    BY <2>1 DEF Repaved
  <2>3. ClaimantsOK'
    BY <2>1, ConfigAssumption DEF ClaimantsOK, NoClaimants, Steps
  <2>4. WholeStepsOnly'
    BY <2>2 DEF WholeStepsOnly, NoItems, NoRows, NoRow, StepRunning, Slots
  <2>5. claimants' = [m \in Steps |-> Mock!Nobody]
    BY <2>2, "pending" # "running" DEF ClaimantOf, NoColumns
  <2>6. mock' = [present |-> FALSE, status |-> "pending", claimedFrom |-> Unclaimed,
                 marker |-> NoRow, steps |-> [n \in Steps |-> "pending"],
                 claimedBy |-> [n \in Steps |-> Mock!Nobody]]
    BY <2>1 DEF Mock!Absent
  <2>7. Shown' = [present |-> present', status |-> status', claimedFrom |-> claimedFrom',
                  marker |-> marker', steps |-> col', claimedBy |-> claimants']
    BY DEF Shown
  <2> QED
    BY <2>2, <2>3, <2>4, <2>5, <2>6, <2>7 DEF NoColumns
<1> QED
  BY <1>3, <1>4

-----------------------------------------------------------------------------
(***************************************************************************)
(* The two stores agree.                                                   *)
(***************************************************************************)

LEMMA SetAsideKeepsInv == SetAside => DoublesInv'
BY ConfigAssumption DEF SetAside, DoublesInv, ClaimantsOK, NoClaimants, Steps

LEMMA DoublesInvInductive == DoublesSpec => []DoublesInv
<1>1. DoublesInit => DoublesInv
  <2> SUFFICES ASSUME DoublesInit PROVE DoublesInv
    OBVIOUS
  <2> USE SameVocabulary
  <2>1. ClaimantsOK
    BY ConfigAssumption DEF DoublesInit, ClaimantsOK, NoClaimants, Steps
  <2>2. WholeStepsOnly
    BY DEF DoublesInit, Init, WholeStepsOnly, NoItems, NoRows, NoRow, StepRunning, Slots
  <2>3. [n \in Steps |-> ClaimantOf(n)] = [n \in Steps |-> Mock!Nobody]
    BY "pending" # "running" DEF DoublesInit, Init, ClaimantOf, NoColumns
  <2> QED
    BY <2>1, <2>2, <2>3 DEF DoublesInit, Init, Shown, Mock!Absent, NoColumns, DoublesInv
<1>2. ClaimInv /\ DoublesInv /\ [DoublesNext]_<<vars, doubles>> => DoublesInv'
  <2> SUFFICES ASSUME ClaimInv, DoublesInv, [DoublesNext]_<<vars, doubles>>
               PROVE  DoublesInv'
    OBVIOUS
  <2>1. CASE SlipCall /\ UNCHANGED claimedBy
    <3>1. covered' = covered
      BY <2>1 DEF SlipCall, Also
    <3>2. ClaimantsOK'
      BY <2>1 DEF DoublesInv, ClaimantsOK
    <3> QED
      BY <2>1, <3>1, <3>2, SlipCallAgrees DEF DoublesInv
  <2>2. CASE RepaveCall
    <3>1. covered' = covered
      BY <2>2 DEF RepaveCall, Also
    <3>2. ClaimantsOK'
      BY <2>2, ConfigAssumption DEF RepaveCall, DoublesInv, ClaimantsOK, NoClaimants, Steps
    <3> QED
      BY <2>2, <3>1, <3>2, RepaveAgrees DEF DoublesInv
  <2>3. ASSUME NEW k \in Reports, NEW s \in StepWrites,
               NEW by \in Claimants \cup {Mock!Nobody}, NEW entry \in {k[1]} \cup MarkerSteps,
               StepTaken(k[1], k[2], s, entry, by)
        PROVE  DoublesInv'
    <3>1. CASE covered /\ InContract(k[1], k[2], s)
      <4>1. /\ k[2] = Whole /\ k[1] \in Steps /\ s \in StepStatuses
            /\ <<k[1], Whole>> \in Names \X Slots
        BY <3>1, WritesAssumption DEF InContract
      <4>2. /\ k[1] = PushParsed => by = Mock!Nobody
            /\ UpdateStep(k[1], Whole, s, entry)
            /\ Mock!UpdateStepWithHistory(k[1], s, entry, by)
            /\ claimedBy' = ClaimedBy(k[1], s, by)
        BY <2>3, <3>1, <4>1 DEF StepTaken, Also
      <4> QED
        BY <3>1, <4>1, <4>2, StepCallAgrees DEF DoublesInv
    <3>2. CASE ~(covered /\ InContract(k[1], k[2], s))
      BY <2>3, <3>2, SetAsideKeepsInv DEF StepTaken
    <3> QED
      BY <3>1, <3>2
  <2>4. ASSUME NEW k \in Reports, NEW s \in StepWrites,
               NEW by \in Claimants \cup {Mock!Nobody}, NEW entry \in {k[1]} \cup MarkerSteps,
               StepRefused(k[1], k[2], s, entry, by)
        PROVE  DoublesInv'
    <3>1. mock.present = present
      BY <2>4 DEF StepRefused, DoublesInv, Shown
    <3>2. UNCHANGED <<vars, mock, claimedBy, covered>> /\ covered
      BY <2>4, <3>1, SameVocabulary
      DEF StepRefused, MayReport, Also, Mock!UpdateStepWithHistory, Mock!UpdateStep, Mock!Writes
    <3> QED
      BY <3>2, StepsStay DEF vars, Shown, DoublesInv
  <2>5. ASSUME NEW k \in Reports, NEW s \in StepWrites, GateRefuses(k[1], k[2], s)
        PROVE  DoublesInv'
    BY <2>5, SetAsideKeepsInv DEF GateRefuses
  <2>6. ASSUME NEW a \in AggregateSteps, NEW c \in Components,
               SetComponentImageTag(a, c), SetAside
        PROVE  DoublesInv'
    BY <2>6, SetAsideKeepsInv
  <2>7. CASE (Age \/ UNCHANGED vars) /\ UNCHANGED doubles
    <3>1. UNCHANGED <<present, status, claimedFrom, marker, col, items, comp, mock, claimedBy, covered>>
      BY <2>7 DEF Age, vars, doubles
    <3>2. CASE covered
      BY <3>1, <3>2, StepsStay DEF Shown, DoublesInv
    <3>3. CASE ~covered
      BY <3>1, <3>3 DEF DoublesInv, ClaimantsOK
    <3> QED
      BY <3>2, <3>3
  <2> QED
    BY <2>1, <2>2, <2>3, <2>4, <2>5, <2>6, <2>7 DEF DoublesNext
<1> QED
  BY <1>1, <1>2, DoublesUseTheStore, ClaimInvInductive, PTL DEF DoublesSpec

\* For as long as the calls are of the contract, the double and PostgresStore
\* show the same slip: the same status, claim and marker, the same steps and
\* who started them, and the same answer to whether anything is in flight.
THEOREM DoubleIsFaithful == DoublesSpec => []DoublesAgree
<1>1. DoublesInv => DoublesAgree
  BY SameWork DEF DoublesInv, Shown, DoublesAgree
<1> QED
  BY <1>1, DoublesInvInductive, PTL

-----------------------------------------------------------------------------
(***************************************************************************)
(* The lookups.  Sorting: the elements of a finite set, each at the place  *)
(* that counts those before it, are the set in order.  An order is a set   *)
(* of pairs here.                                                          *)
(***************************************************************************)
StrictOrder(S, R) ==
    /\ \A q \in S : <<q, q>> \notin R
    /\ \A q, r \in S : q # r => <<q, r>> \in R \/ <<r, q>> \in R
    /\ \A p, q, r \in S : <<p, q>> \in R /\ <<q, r>> \in R => <<p, r>> \in R

Below(S, R, r) == {q \in S : <<q, r>> \in R}

InOrder(s, S, R) ==
    /\ s \in [1..Cardinality(S) -> S]
    /\ \A r \in S : \E n \in 1..Cardinality(S) : s[n] = r
    /\ \A m, n \in 1..Cardinality(S) : m < n => <<s[m], s[n]>> \in R

LEMMA PlaceInRange ==
    ASSUME NEW S, IsFiniteSet(S), NEW R, StrictOrder(S, R), NEW r \in S
    PROVE  /\ Cardinality(S) \in Nat /\ Cardinality(Below(S, R, r)) \in Nat
           /\ Cardinality(Below(S, R, r)) < Cardinality(S)
<1>1. Below(S, R, r) \in SUBSET S /\ Below(S, R, r) # S
  BY DEF Below, StrictOrder
<1>2. IsFiniteSet(Below(S, R, r))
  BY <1>1, FS_Subset
<1>3. Cardinality(S) \in Nat /\ Cardinality(Below(S, R, r)) \in Nat
  BY <1>2, FS_CardinalityType
<1>4. /\ Cardinality(Below(S, R, r)) <= Cardinality(S)
      /\ Cardinality(Below(S, R, r)) # Cardinality(S)
  BY <1>1, FS_Subset
<1> QED
  BY <1>3, <1>4

LEMMA EarlierIsLower ==
    ASSUME NEW S, IsFiniteSet(S), NEW R, StrictOrder(S, R),
           NEW q \in S, NEW r \in S, <<q, r>> \in R
    PROVE  Cardinality(Below(S, R, q)) < Cardinality(Below(S, R, r))
<1> DEFINE A == Below(S, R, q)
           B == Below(S, R, r)
<1>1. A \in SUBSET B /\ A # B /\ B \in SUBSET S
  BY DEF Below, StrictOrder
<1>2. IsFiniteSet(B)
  BY <1>1, FS_Subset
<1>3. Cardinality(A) \in Nat /\ Cardinality(B) \in Nat
  BY PlaceInRange
<1>4. Cardinality(A) <= Cardinality(B) /\ Cardinality(A) # Cardinality(B)
  BY <1>1, <1>2, FS_Subset
<1> QED
  BY <1>3, <1>4

LEMMA EveryPlaceIsTaken ==
    ASSUME NEW S, IsFiniteSet(S), NEW R, StrictOrder(S, R), NEW n \in 1..Cardinality(S)
    PROVE  \E r \in S : Cardinality(Below(S, R, r)) = n - 1
<1> DEFINE N == Cardinality(S)
           T == 0..(N - 1)
           f == [r \in S |-> Cardinality(Below(S, R, r))]
<1>1. N \in Nat
  BY FS_CardinalityType
<1>2. f \in [S -> T]
  <2>1. ASSUME NEW r \in S PROVE Cardinality(Below(S, R, r)) \in T
    BY PlaceInRange
  <2> QED
    BY <2>1
<1>3. ASSUME NEW q \in S, NEW r \in S, f[q] = f[r] PROVE q = r
  <2>1. Cardinality(Below(S, R, q)) = Cardinality(Below(S, R, r))
    BY <1>3
  <2>2. Cardinality(Below(S, R, q)) \in Nat /\ Cardinality(Below(S, R, r)) \in Nat
    BY PlaceInRange
  <2>3. <<q, r>> \notin R /\ <<r, q>> \notin R
    BY <2>1, <2>2, EarlierIsLower
  <2> QED
    BY <2>3 DEF StrictOrder
<1>4. f \in Injection(S, T)
  BY <1>2, <1>3 DEF Injection, IsInjective
<1>5. IsFiniteSet(T) /\ Cardinality(T) = N
  <2>1. 0 \in Int /\ N - 1 \in Int
    BY <1>1
  <2>2. IsFiniteSet(T) /\ Cardinality(T) = IF 0 > N - 1 THEN 0 ELSE (N - 1) - 0 + 1
    BY <2>1, FS_Interval
  <2> QED
    BY <1>1, <2>2
<1>6. f \in Surjection(S, T)
  BY <1>4, <1>5, FS_Injection
<1>7. n - 1 \in T
  BY <1>1
<1>8. \E r \in S : f[r] = n - 1
  BY <1>6, <1>7 DEF Surjection
<1> QED
  BY <1>8

LEMMA RankingSorts ==
    ASSUME NEW S, IsFiniteSet(S), NEW R, StrictOrder(S, R), NEW s,
           s = [n \in 1..Cardinality(S) |-> s[n]],
           \A n \in 1..Cardinality(S) :
               (\E r \in S : Cardinality(Below(S, R, r)) = n - 1)
                   => s[n] \in S /\ Cardinality(Below(S, R, s[n])) = n - 1
    PROVE  InOrder(s, S, R)
<1> DEFINE N == Cardinality(S)
           Rank(r) == Cardinality(Below(S, R, r))
<1>1. N \in Nat
  BY FS_CardinalityType
<1>2. ASSUME NEW n \in 1..N PROVE s[n] \in S /\ Rank(s[n]) = n - 1
  BY EveryPlaceIsTaken
<1>3. \A q, r \in S : Rank(q) \in Nat /\ (<<q, r>> \in R => Rank(q) < Rank(r))
  BY PlaceInRange, EarlierIsLower
<1>4. ASSUME NEW r \in S PROVE \E n \in 1..N : s[n] = r
  <2>1. Rank(r) \in Nat /\ Rank(r) < N
    BY PlaceInRange
  <2>2. PICK k \in 1..N : k - 1 = Rank(r)
    <3> HIDE DEF Rank, N
    <3>1. Rank(r) + 1 \in 1..N /\ (Rank(r) + 1) - 1 = Rank(r)
      BY <1>1, <2>1
    <3> QED
      BY <3>1
  <2>3. s[k] \in S /\ Rank(s[k]) = Rank(r)
    BY <1>2, <2>2
  <2> HIDE DEF Rank
  <2>4. <<s[k], r>> \notin R /\ <<r, s[k]>> \notin R
    <3>1. /\ <<s[k], r>> \in R => Rank(s[k]) < Rank(r)
          /\ <<r, s[k]>> \in R => Rank(r) < Rank(s[k])
      BY <1>3, <2>3
    <3>2. \A i \in Nat : ~(i < i)
      OBVIOUS
    <3> QED
      BY <2>1, <2>3, <3>1, <3>2
  <2> QED
    BY <2>3, <2>4 DEF StrictOrder
<1>5. ASSUME NEW m \in 1..N, NEW n \in 1..N, m < n PROVE <<s[m], s[n]>> \in R
  <2>1. /\ s[m] \in S /\ Rank(s[m]) = m - 1
        /\ s[n] \in S /\ Rank(s[n]) = n - 1
    BY <1>2
  <2>2. ~(n - 1 < m - 1) /\ m - 1 # n - 1
    BY <1>1, <1>5
  <2>3. s[m] # s[n]
    BY <2>1, <2>2
  <2>4. <<s[n], s[m]>> \notin R
    BY <1>3, <2>1, <2>2
  <2> QED
    BY <2>1, <2>3, <2>4 DEF StrictOrder
<1> HIDE DEF Rank
<1>6. s \in [1..N -> S]
  BY <1>2
<1> QED
  BY <1>4, <1>5, <1>6 DEF InOrder

\* The two orders of the double, and of pairs of a place and a row.
LoadPairs(S) == {p \in S \X S : LoadOrder(p[1], p[2])}
FindPairs(S) == {p \in S \X S : FindOrder(p[1], p[2])}
PlacePairs(S) == {p \in S \X S : PlaceOrder(p[1], p[2])}

LEMMA SortedForLoad ==
    ASSUME NEW S, IsFiniteSet(S), StrictOrder(S, LoadPairs(S))
    PROVE  InOrder(Sorted(S, LoadOrder), S, LoadPairs(S))
<1> DEFINE s == Sorted(S, LoadOrder)
<1>1. \A r \in S : Below(S, LoadPairs(S), r) = {q \in S : LoadOrder(q, r)}
  BY DEF Below, LoadPairs
<1>2. s = [n \in 1..Cardinality(S) |->
              CHOOSE r \in S : Cardinality({q \in S : LoadOrder(q, r)}) = n - 1]
  BY DEF Sorted
<1>3. ASSUME NEW n \in 1..Cardinality(S),
             \E r \in S : Cardinality(Below(S, LoadPairs(S), r)) = n - 1
      PROVE  s[n] \in S /\ Cardinality(Below(S, LoadPairs(S), s[n])) = n - 1
  <2>1. \E r \in S : Cardinality({q \in S : LoadOrder(q, r)}) = n - 1
    BY <1>1, <1>3
  <2>2. s[n] = CHOOSE r \in S : Cardinality({q \in S : LoadOrder(q, r)}) = n - 1
    BY <1>2
  <2>3. s[n] \in S /\ Cardinality({q \in S : LoadOrder(q, s[n])}) = n - 1
    BY <2>1, <2>2
  <2> QED
    BY <1>1, <2>3
<1>4. s = [n \in 1..Cardinality(S) |-> s[n]]
  BY <1>2
<1>5. InOrder(s, S, LoadPairs(S))
  <2> HIDE DEF s
  <2> QED
    BY <1>3, <1>4, RankingSorts
<1> QED
  BY <1>5

LEMMA SortedForFind ==
    ASSUME NEW S, IsFiniteSet(S), StrictOrder(S, FindPairs(S))
    PROVE  InOrder(Sorted(S, FindOrder), S, FindPairs(S))
<1> DEFINE s == Sorted(S, FindOrder)
<1>1. \A r \in S : Below(S, FindPairs(S), r) = {q \in S : FindOrder(q, r)}
  BY DEF Below, FindPairs
<1>2. s = [n \in 1..Cardinality(S) |->
              CHOOSE r \in S : Cardinality({q \in S : FindOrder(q, r)}) = n - 1]
  BY DEF Sorted
<1>3. ASSUME NEW n \in 1..Cardinality(S),
             \E r \in S : Cardinality(Below(S, FindPairs(S), r)) = n - 1
      PROVE  s[n] \in S /\ Cardinality(Below(S, FindPairs(S), s[n])) = n - 1
  <2>1. \E r \in S : Cardinality({q \in S : FindOrder(q, r)}) = n - 1
    BY <1>1, <1>3
  <2>2. s[n] = CHOOSE r \in S : Cardinality({q \in S : FindOrder(q, r)}) = n - 1
    BY <1>2
  <2>3. s[n] \in S /\ Cardinality({q \in S : FindOrder(q, s[n])}) = n - 1
    BY <2>1, <2>2
  <2> QED
    BY <1>1, <2>3
<1>4. s = [n \in 1..Cardinality(S) |-> s[n]]
  BY <1>2
<1>5. InOrder(s, S, FindPairs(S))
  <2> HIDE DEF s
  <2> QED
    BY <1>3, <1>4, RankingSorts
<1> QED
  BY <1>5

LEMMA SortedByPlace ==
    ASSUME NEW S, IsFiniteSet(S), StrictOrder(S, PlacePairs(S))
    PROVE  InOrder(Sorted(S, PlaceOrder), S, PlacePairs(S))
<1> DEFINE s == Sorted(S, PlaceOrder)
<1>1. \A r \in S : Below(S, PlacePairs(S), r) = {q \in S : PlaceOrder(q, r)}
  BY DEF Below, PlacePairs
<1>2. s = [n \in 1..Cardinality(S) |->
              CHOOSE r \in S : Cardinality({q \in S : PlaceOrder(q, r)}) = n - 1]
  BY DEF Sorted
<1>3. ASSUME NEW n \in 1..Cardinality(S),
             \E r \in S : Cardinality(Below(S, PlacePairs(S), r)) = n - 1
      PROVE  s[n] \in S /\ Cardinality(Below(S, PlacePairs(S), s[n])) = n - 1
  <2>1. \E r \in S : Cardinality({q \in S : PlaceOrder(q, r)}) = n - 1
    BY <1>1, <1>3
  <2>2. s[n] = CHOOSE r \in S : Cardinality({q \in S : PlaceOrder(q, r)}) = n - 1
    BY <1>2
  <2>3. s[n] \in S /\ Cardinality({q \in S : PlaceOrder(q, s[n])}) = n - 1
    BY <2>1, <2>2
  <2> QED
    BY <1>1, <2>3
<1>4. s = [n \in 1..Cardinality(S) |-> s[n]]
  BY <1>2
<1>5. InOrder(s, S, PlacePairs(S))
  <2> HIDE DEF s
  <2> QED
    BY <1>3, <1>4, RankingSorts
<1> QED
  BY <1>5

-----------------------------------------------------------------------------
(***************************************************************************)
(* The orders.  They order any rows of different ids, and where the double *)
(* puts a row first, PostgresStore's query puts none before it.            *)
(***************************************************************************)
LEMMA TieBreakIsStrict ==
    ASSUME NEW a \in Row, NEW b \in Row, NEW c \in Row
    PROVE  /\ ~TieBreak(a, a)
           /\ a.id # b.id => TieBreak(a, b) \/ TieBreak(b, a)
           /\ TieBreak(a, b) /\ TieBreak(b, c) => TieBreak(a, c)
           /\ TieBreak(a, b) => ~Newer(b, a)
<1>1. /\ a.id \in Nat /\ b.id \in Nat /\ c.id \in Nat
      /\ a.updated \in Nat /\ b.updated \in Nat /\ c.updated \in Nat
  BY LookupsAssumption DEF Row
<1> QED
  BY <1>1 DEF TieBreak, Newer

LEMMA LoadOrderIsStrict ==
    ASSUME NEW a \in Row, NEW b \in Row, NEW c \in Row
    PROVE  /\ ~LoadOrder(a, a)
           /\ a.id # b.id => LoadOrder(a, b) \/ LoadOrder(b, a)
           /\ LoadOrder(a, b) /\ LoadOrder(b, c) => LoadOrder(a, c)
           /\ LoadOrder(a, b) => ~LiveFirst(b, a)
           /\ ~LiveFirst(a, a)
<1>1. /\ a.status \in SlipStatuses /\ b.status \in SlipStatuses /\ c.status \in SlipStatuses
  BY LookupsAssumption DEF Row
<1>2. \A st \in SlipStatuses : SlipLive(st) <=> st \notin Repaveable
  BY DEF SlipLive, SlipTerminal, Repaveable, SlipStatuses
<1>3. /\ SlipLive(a.status) <=> a.status \notin Repaveable
      /\ SlipLive(b.status) <=> b.status \notin Repaveable
      /\ SlipLive(c.status) <=> c.status \notin Repaveable
  BY <1>1, <1>2
<1>4. ~Newer(a, a)
  <2>1. a.updated \in Nat
    BY LookupsAssumption DEF Row
  <2>2. \A n \in Nat : ~(n > n)
    OBVIOUS
  <2> QED
    BY <2>1, <2>2 DEF Newer
<1> HIDE DEF SlipLive
<1> QED
  BY <1>3, <1>4, TieBreakIsStrict DEF LoadOrder, LiveFirst

LEMMA PlaceOrderIsStrict ==
    ASSUME NEW p \in Nat \X Row, NEW q \in Nat \X Row, NEW r \in Nat \X Row
    PROVE  /\ ~PlaceOrder(p, p)
           /\ p[1] # q[1] \/ p[2].id # q[2].id => PlaceOrder(p, q) \/ PlaceOrder(q, p)
           /\ PlaceOrder(p, q) /\ PlaceOrder(q, r) => PlaceOrder(p, r)
           /\ PlaceOrder(p, q) => ~ByPriority(q, p)
<1>1. /\ p[1] \in Nat /\ q[1] \in Nat /\ r[1] \in Nat
      /\ p[2] \in Row /\ q[2] \in Row /\ r[2] \in Row
  OBVIOUS
<1>2. /\ ~TieBreak(p[2], p[2])
      /\ p[2].id # q[2].id => TieBreak(p[2], q[2]) \/ TieBreak(q[2], p[2])
      /\ TieBreak(p[2], q[2]) /\ TieBreak(q[2], r[2]) => TieBreak(p[2], r[2])
      /\ TieBreak(p[2], q[2]) => ~Newer(q[2], p[2])
  BY <1>1, TieBreakIsStrict
<1> QED
  BY <1>1, <1>2 DEF PlaceOrder, FindOrder, ByPriority

\* Rows are finitely many, each of an id of its own.
RowsOK ==
    /\ rows \in SUBSET Row /\ IsFiniteSet(rows)
    /\ \A q, r \in rows : q.id = r.id => q = r

LEMMA RowsAreOrdered ==
    ASSUME RowsOK, NEW k
    PROVE  /\ RowsOf(k) \in SUBSET Row /\ IsFiniteSet(RowsOf(k))
           /\ StrictOrder(RowsOf(k), LoadPairs(RowsOf(k)))
           /\ StrictOrder(RowsOf(k), FindPairs(RowsOf(k)))
<1> DEFINE S == RowsOf(k)
<1>1. S \in SUBSET rows /\ S \in SUBSET Row
  BY DEF RowsOK, RowsOf
<1>2. IsFiniteSet(S)
  BY <1>1, FS_Subset DEF RowsOK
<1>3. \A q, r \in S : q # r => q.id # r.id
  BY <1>1 DEF RowsOK
<1> HIDE DEF S
<1>4. StrictOrder(S, LoadPairs(S))
  BY <1>1, <1>3, LoadOrderIsStrict DEF StrictOrder, LoadPairs
<1>5. StrictOrder(S, FindPairs(S))
  BY <1>1, <1>3, TieBreakIsStrict DEF StrictOrder, FindPairs, FindOrder
<1> QED
  BY <1>1, <1>2, <1>4, <1>5 DEF S

-----------------------------------------------------------------------------
(***************************************************************************)
(* The double takes the first that will do.                                *)
(***************************************************************************)
LEMMA LeastNumber ==
    ASSUME NEW S \in SUBSET Nat, S # {}
    PROVE  Min(S) \in S /\ \A n \in S : Min(S) <= n
<1>1. PICK m \in S : \A n \in S : <<n, m>> \notin OpToRel(<, Nat)
  BY NatLessThanWellFounded, WFMin
<1>2. ASSUME NEW n \in S PROVE m <= n
  <2>1. ~(n < m)
    BY <1>1 DEF OpToRel
  <2> QED
    BY <2>1
<1> QED
  BY <1>2 DEF Min

LEMMA FirstUsefulIsFirst ==
    ASSUME NEW S, IsFiniteSet(S), NEW R, StrictOrder(S, R), NEW s, InOrder(s, S, R),
           \E r \in S : ~SupersededTerminal(r)
    PROVE  /\ FirstUseful(s) \in S /\ ~SupersededTerminal(FirstUseful(s))
           /\ \A q \in S : ~SupersededTerminal(q) =>
                 q = FirstUseful(s) \/ <<FirstUseful(s), q>> \in R
<1> DEFINE N == Cardinality(S)
           D == {n \in DOMAIN s : ~SupersededTerminal(s[n])}
           m == Min(D)
<1>1. N \in Nat
  BY FS_CardinalityType
<1>2. DOMAIN s = 1..N /\ \A n \in 1..N : s[n] \in S
  BY DEF InOrder
<1>3. \A q \in S : \E n \in 1..N : s[n] = q
  BY DEF InOrder
<1>4. D \in SUBSET Nat /\ D # {}
  BY <1>1, <1>2, <1>3
<1>5. m \in D /\ \A n \in D : m <= n
  <2> HIDE DEF D
  <2> QED
    BY <1>4, LeastNumber
<1>6. FirstUseful(s) = s[m]
  BY DEF FirstUseful
<1>7. ASSUME NEW q \in S, ~SupersededTerminal(q), q # s[m]
      PROVE  <<s[m], q>> \in R
  <2>1. PICK n \in 1..N : s[n] = q
    BY <1>3
  <2>2. n \in D /\ m \in 1..N
    BY <1>2, <1>5, <1>7, <2>1
  <2> HIDE DEF m, D
  <2>3. m < n
    BY <1>1, <1>5, <1>7, <2>1, <2>2
  <2> QED
    BY <2>1, <2>2, <2>3 DEF InOrder
<1> HIDE DEF m
<1> QED
  BY <1>2, <1>5, <1>6, <1>7

-----------------------------------------------------------------------------
(***************************************************************************)
(* The four lookups.                                                       *)
(***************************************************************************)
LEMMA LoadsAgree ==
    ASSUME RowsOK, NEW k
    PROVE  /\ MockLoadByCommit(k) \in LoadByCommit(k)
           /\ MockLoadLiveByCommit(k) \in LoadLiveByCommit(k)
<1> DEFINE S == RowsOf(k)
           s == Sorted(S, LoadOrder)
           U == {r \in S : ~SupersededTerminal(r)}
<1>1. S \in SUBSET Row /\ IsFiniteSet(S) /\ StrictOrder(S, LoadPairs(S))
  BY RowsAreOrdered
<1>2. InOrder(s, S, LoadPairs(S))
  <2> HIDE DEF S
  <2> QED
    BY <1>1, SortedForLoad
<1>3. ASSUME NEW a \in S, NEW b \in S, a = b \/ <<a, b>> \in LoadPairs(S)
      PROVE  ~LiveFirst(b, a)
  BY <1>1, <1>3, LoadOrderIsStrict DEF LoadPairs
<1>4. Useful(k) = U
  BY DEF Useful
<1>5. LoadByCommit(k) = IF S = {} THEN {NotFound} ELSE {r \in S : \A q \in S : ~LiveFirst(q, r)}
  BY DEF LoadByCommit, FirstOf
<1>6. LoadLiveByCommit(k) = IF U = {} THEN {NotFound} ELSE {r \in U : \A q \in U : ~LiveFirst(q, r)}
  BY DEF LoadLiveByCommit, FirstOf
<1>7. MockLoadByCommit(k) = IF S = {} THEN NotFound ELSE s[1]
  BY DEF MockLoadByCommit
<1>8. MockLoadLiveByCommit(k) = IF U = {} THEN NotFound ELSE FirstUseful(s)
  BY <1>4 DEF MockLoadLiveByCommit
<1> HIDE DEF s
<1>9. ASSUME S # {} PROVE MockLoadByCommit(k) \in LoadByCommit(k)
  <2>1. Cardinality(S) \in Nat /\ Cardinality(S) # 0
    BY <1>1, <1>9, FS_CardinalityType, FS_EmptySet
  <2>2. 1 \in 1..Cardinality(S)
    BY <2>1
  <2>3. s[1] \in S
    BY <1>2, <2>2 DEF InOrder
  <2>4. ASSUME NEW q \in S PROVE ~LiveFirst(q, s[1])
    <3>1. PICK n \in 1..Cardinality(S) : s[n] = q
      BY <1>2 DEF InOrder
    <3>2. n = 1 \/ 1 < n
      BY <2>1
    <3>3. s[1] = q \/ <<s[1], q>> \in LoadPairs(S)
      BY <1>2, <2>2, <3>1, <3>2 DEF InOrder
    <3> QED
      BY <1>3, <2>3, <3>3
  <2> QED
    BY <1>5, <1>7, <1>9, <2>3, <2>4
<1>10. MockLoadByCommit(k) \in LoadByCommit(k)
  BY <1>5, <1>7, <1>9
<1>11. ASSUME U # {} PROVE MockLoadLiveByCommit(k) \in LoadLiveByCommit(k)
  <2>1. /\ FirstUseful(s) \in U
        /\ \A q \in U : q = FirstUseful(s) \/ <<FirstUseful(s), q>> \in LoadPairs(S)
    <3> HIDE DEF S
    <3> QED
      BY <1>1, <1>2, <1>11, FirstUsefulIsFirst
  <2>2. ASSUME NEW q \in U PROVE ~LiveFirst(q, FirstUseful(s))
    BY <1>3, <2>1
  <2> QED
    BY <1>6, <1>8, <1>11, <2>1, <2>2
<1>12. MockLoadLiveByCommit(k) \in LoadLiveByCommit(k)
  BY <1>6, <1>8, <1>11
<1> QED
  BY <1>10, <1>12

\* What a query finds is not superseded for no more than its recency.
LEMMA LiveIsFound == RowsOK => LiveSlipIsFound
<1> SUFFICES ASSUME RowsOK, NEW k \in Commits, NEW r \in RowsOf(k), SlipLive(r.status),
                    NEW a \in LoadByCommit(k) \cup LoadLiveByCommit(k)
             PROVE  SlipLive(a.status)
  BY DEF LiveSlipIsFound
<1>1. \A b \in RowsOf(k) : SlipLive(b.status) <=> b.status \notin Repaveable
  BY LookupsAssumption
  DEF RowsOK, RowsOf, Row, SlipLive, SlipTerminal, Repaveable, SlipStatuses
<1>2. ~SupersededTerminal(r)
  BY DEF SupersededTerminal, SlipLive, SlipTerminal
<1> HIDE DEF SlipLive
<1>3. a \in RowsOf(k) /\ ~LiveFirst(r, a)
  BY <1>2 DEF LoadByCommit, LoadLiveByCommit, FirstOf
<1> QED
  BY <1>1, <1>3 DEF LiveFirst

LEMMA FindAgrees ==
    ASSUME RowsOK, NEW ks \in Seq(Commits)
    PROVE  MockFindByCommits(ks) \in FindByCommits(ks)
<1> DEFINE F == {i \in DOMAIN ks : Useful(ks[i]) # {}}
           found == {p \in Matches(ks) : ~SupersededTerminal(p[2])}
<1>1. F \in SUBSET Nat /\ DOMAIN ks \in SUBSET Nat
  OBVIOUS
<1>2. \A p : p \in found <=>
          p \in (DOMAIN ks) \X rows /\ p[2] \in Useful(ks[p[1]])
  BY DEF Matches, Useful, RowsOf
<1>3. CASE F = {}
  <2>1. ASSUME NEW p \in found PROVE FALSE
    <3>1. p[1] \in DOMAIN ks /\ p[2] \in Useful(ks[p[1]])
      BY <1>2
    <3> QED
      BY <1>3, <3>1
  <2> QED
    BY <1>3, <2>1 DEF MockFindByCommits, FindByCommits
<1>4. CASE F # {}
  <2> DEFINE i == Min(F)
             S == RowsOf(ks[i])
             s == Sorted(S, FindOrder)
             r == FirstUseful(s)
  <2>1. i \in F /\ \A j \in F : i <= j
    <3> HIDE DEF F
    <3> QED
      BY <1>1, <1>4, LeastNumber
  <2>2. MockFindByCommits(ks) = r
    BY <1>4 DEF MockFindByCommits
  <2> HIDE DEF i
  <2>3. /\ S \in SUBSET Row /\ S \in SUBSET rows /\ IsFiniteSet(S)
        /\ StrictOrder(S, FindPairs(S))
    BY RowsAreOrdered DEF RowsOf
  <2>4. InOrder(s, S, FindPairs(S))
    <3> HIDE DEF S
    <3> QED
      BY <2>3, SortedForFind
  <2>5. Useful(ks[i]) = {b \in S : ~SupersededTerminal(b)}
    BY DEF Useful
  <2> HIDE DEF s
  <2>6. /\ r \in Useful(ks[i])
        /\ \A q \in Useful(ks[i]) : q = r \/ <<r, q>> \in FindPairs(S)
    <3>1. \E b \in S : ~SupersededTerminal(b)
      BY <2>1, <2>5
    <3> HIDE DEF S
    <3> QED
      BY <2>3, <2>4, <2>5, <3>1, FirstUsefulIsFirst
  <2> HIDE DEF r
  <2>7. r \in S /\ r \in Row /\ r \in rows
    BY <2>3, <2>5, <2>6
  <2>8. <<i, r>> \in found
    BY <1>2, <2>1, <2>6, <2>7
  <2>9. ASSUME NEW p \in found PROVE ~ByPriority(p, <<i, r>>)
    <3>1. p[1] \in DOMAIN ks /\ p[2] \in Useful(ks[p[1]])
      BY <1>2
    <3>2. p[1] \in F /\ i <= p[1] /\ i \in Nat /\ p[1] \in Nat
      BY <1>1, <2>1, <3>1
    <3>3. CASE p[1] # i
      <4>1. ~(p[1] < i) /\ p[1] # i
        BY <3>2, <3>3
      <4> QED
        BY <4>1 DEF ByPriority
    <3>4. CASE p[1] = i
      <4>1. p[2] = r \/ <<r, p[2]>> \in FindPairs(S)
        BY <2>6, <3>1, <3>4
      <4>2. p[2] \in Row /\ r \in Row
        BY <2>3, <2>5, <2>7, <3>1, <3>4
      <4>3. ~Newer(p[2], r)
        <5>1. CASE p[2] = r
          <6>1. r.updated \in Nat
            BY <4>2, LookupsAssumption DEF Row
          <6>2. \A n \in Nat : ~(n > n)
            OBVIOUS
          <6> QED
            BY <5>1, <6>1, <6>2 DEF Newer
        <5>2. CASE FindOrder(r, p[2])
          BY <4>2, <5>2, TieBreakIsStrict DEF FindOrder
        <5> QED
          BY <4>1, <5>1, <5>2 DEF FindPairs
      <4>4. ~(p[1] < i)
        BY <3>2, <3>4
      <4> QED
        BY <4>3, <4>4 DEF ByPriority
    <3> QED
      BY <3>3, <3>4
  <2>10. FindByCommits(ks) = {p[2] : p \in {q \in found : \A t \in found : ~ByPriority(t, q)}}
    BY <2>8 DEF FindByCommits, FirstOf
  <2> HIDE DEF found
  <2>11. <<i, r>> \in {q \in found : \A t \in found : ~ByPriority(t, q)}
    BY <2>8, <2>9
  <2>12. r \in {p[2] : p \in {q \in found : \A t \in found : ~ByPriority(t, q)}}
    BY <2>11
  <2> QED
    BY <2>2, <2>10, <2>12
<1> QED
  BY <1>3, <1>4

LEMMA FindAllAgrees ==
    ASSUME RowsOK, NEW ks \in Seq(Commits)
    PROVE  IsFindAllByCommits(ks, MockFindAllByCommits(ks))
<1> DEFINE S == Matches(ks)
           s == Sorted(S, PlaceOrder)
           N == Cardinality(S)
<1>1. S \in SUBSET ((DOMAIN ks) \X rows) /\ S \in SUBSET (Nat \X Row)
  BY DEF Matches, RowsOK
<1>2. IsFiniteSet(S)
  <2>1. IsFiniteSet(DOMAIN ks)
    <3>1. DOMAIN ks = 1..Len(ks) /\ 1 \in Int /\ Len(ks) \in Int
      OBVIOUS
    <3> QED
      BY <3>1, FS_Interval
  <2>2. IsFiniteSet((DOMAIN ks) \X rows)
    BY <2>1, FS_Product DEF RowsOK
  <2> QED
    BY <1>1, <2>2, FS_Subset
<1>3. \A p, q \in S : p # q => p[1] # q[1] \/ p[2].id # q[2].id
  BY <1>1 DEF RowsOK
<1>4. MockFindAllByCommits(ks) = s
  BY DEF MockFindAllByCommits
<1> HIDE DEF S
<1>5. StrictOrder(S, PlacePairs(S))
  BY <1>1, <1>3, PlaceOrderIsStrict DEF StrictOrder, PlacePairs
<1>6. InOrder(s, S, PlacePairs(S))
  BY <1>2, <1>5, SortedByPlace
<1> HIDE DEF s
<1>7. N \in Nat /\ DOMAIN s = 1..N
  BY <1>2, <1>6, FS_CardinalityType DEF InOrder
<1>8. ToSet(s) = S
  BY <1>6, <1>7 DEF InOrder, ToSet
<1>9. ASSUME NEW i \in DOMAIN s, NEW j \in DOMAIN s, i < j
      PROVE  s[i] # s[j] /\ ~ByPriority(s[j], s[i])
  <2>1. <<s[i], s[j]>> \in PlacePairs(S) /\ s[i] \in S /\ s[j] \in S
    BY <1>6, <1>7, <1>9 DEF InOrder
  <2>2. s[i] # s[j]
    BY <1>5, <2>1 DEF StrictOrder
  <2>3. PlaceOrder(s[i], s[j])
    BY <2>1 DEF PlacePairs
  <2> QED
    BY <1>1, <2>1, <2>2, <2>3, PlaceOrderIsStrict
<1> QED
  BY <1>4, <1>8, <1>9 DEF IsFindAllByCommits, S

LEMMA RowsInductive == LookupsSpec => []RowsOK
<1>1. LookupsInit => RowsOK
  BY FS_EmptySet DEF LookupsInit, RowsOK
<1>2. RowsOK /\ [LookupsNext]_rows => RowsOK'
  <2> SUFFICES ASSUME RowsOK, [LookupsNext]_rows PROVE RowsOK'
    OBVIOUS
  <2>1. ASSUME NEW r \in Row, AddSlip(r) PROVE RowsOK'
    BY <2>1, FS_AddElement DEF AddSlip, RowsOK
  <2>2. CASE Reset
    BY <2>2, FS_EmptySet DEF Reset, RowsOK
  <2>3. CASE UNCHANGED rows
    BY <2>3 DEF RowsOK
  <2> QED
    BY <2>1, <2>2, <2>3 DEF LookupsNext
<1> QED
  BY <1>1, <1>2, PTL DEF LookupsSpec

\* Whatever slips share a commit: a commit with a live slip is never answered
\* with an ended one, and the double answers each of the four lookups with
\* what the store's query may answer.
THEOREM LookupsAreSound == LookupsSpec => []LookupsSound
<1>1. RowsOK => LookupsAgree
  BY LoadsAgree, FindAgrees, FindAllAgrees, LookupsAssumption DEF LookupsAgree
<1>2. RowsOK => LookupsSound
  BY <1>1, LiveIsFound DEF LookupsSound
<1> QED
  BY <1>2, RowsInductive, PTL
=============================================================================
