--------------------------- MODULE SlipStoreProofs ---------------------------
(***************************************************************************)
(* Proofs about SlipStore, for any pipeline configuration, any components  *)
(* and any sets of statuses the clients write.                             *)
(*                                                                         *)
(* The invariant has four parts: types; the row that is gone keeps no      *)
(* claim; the claim agrees with its markers; columns agree with the        *)
(* component rows.  The second is what makes the third inductive: Create   *)
(* does not write claimed_from.  Two more stand beside it, for what the    *)
(* claim decisions read and for the freshness gate: ItemsMatchRows and     *)
(* FreshIsTerminal.                                                        *)
(***************************************************************************)
EXTENDS SlipStore, TLAPS

\* The aggregate rule yields a step status.
LEMMA AggregateStatusType == \A S : AggregateStatus(S) \in StepStatuses
BY DEF AggregateStatus, StepStatuses

\* A name rolls up to one aggregate at most.
LEMMA RollsUpOnce ==
    ASSUME NEW n, NEW a, NEW b, RollsUpTo(n, a), RollsUpTo(n, b)
    PROVE  a = b
BY ConfigAssumption DEF RollsUpTo, Aliases

\* The row names of an aggregate are names.
LEMMA AliasesAreNames ==
    ASSUME NEW a \in AggregateSteps
    PROVE  Aliases(a) \subseteq Names
BY DEF Aliases, Names, Steps

-----------------------------------------------------------------------------
(***************************************************************************)
(* Types.                                                                  *)
(***************************************************************************)

\* Rolling an aggregate up keeps the columns well typed, whatever rows of the
\* right type it is given.
LEMMA RecomputeType ==
    ASSUME NEW rows \in [Names \X Slots -> StepStatuses \cup {NoRow}],
           NEW a \in AggregateSteps,
           TypeOK, Recompute(rows, a)
    PROVE  /\ col' \in [Steps -> StepStatuses]
           /\ items' \in [AggregateSteps -> [Components -> StepStatuses \cup {NoRow}]]
<1>1. CASE Recorded(rows, a) = {}
  BY <1>1 DEF Recompute, TypeOK
<1>2. CASE Recorded(rows, a) # {}
  <2>1. col' = [col EXCEPT ![a] = AggregateStatus(Recorded(rows, a))]
    BY <1>2 DEF Recompute
  <2>2. col' \in [Steps -> StepStatuses]
    BY <2>1, AggregateStatusType DEF TypeOK
  <2>3. PICK last \in [Components -> Aliases(a)] :
           items' = [items EXCEPT ![a] = Merged(rows, a, last)]
    BY <1>2 DEF Recompute
  <2>4. ASSUME NEW c \in Components
        PROVE  Merged(rows, a, last)[c] \in StepStatuses \cup {NoRow}
    <3>1. \A n \in Aliases(a) : rows[<<n, c>>] \in StepStatuses \cup {NoRow}
      BY AliasesAreNames DEF Slots
    <3>2. last[c] \in Aliases(a)
      OBVIOUS
    <3>3. items[a][c] \in StepStatuses \cup {NoRow}
      BY DEF TypeOK
    <3>4. DEFINE seen == {rows[<<n, c>>] : n \in Aliases(a)} \ {NoRow}
    <3>5. CASE rows[<<last[c], c>>] # NoRow
      BY <3>1, <3>2, <3>5 DEF Merged
    <3>6. CASE rows[<<last[c], c>>] = NoRow /\ seen = {}
      BY <3>3, <3>6 DEF Merged
    <3>7. CASE rows[<<last[c], c>>] = NoRow /\ seen # {}
      <4>1. (CHOOSE s \in seen : TRUE) \in seen
        BY <3>7
      <4>2. seen \subseteq StepStatuses \cup {NoRow}
        BY <3>1
      <4>3. Merged(rows, a, last)[c] = CHOOSE s \in seen : TRUE
        BY <3>7 DEF Merged
      <4> QED
        BY <4>1, <4>2, <4>3
    <3> QED
      BY <3>5, <3>6, <3>7
  <2>5. Merged(rows, a, last) \in [Components -> StepStatuses \cup {NoRow}]
    BY <2>4 DEF Merged
  <2>6. items' \in [AggregateSteps -> [Components -> StepStatuses \cup {NoRow}]]
    BY <2>3, <2>5 DEF TypeOK
  <2> QED
    BY <2>2, <2>6
<1> QED
  BY <1>1, <1>2

\* A step write keeps every column well typed.
LEMMA UpdateStepType ==
    ASSUME TypeOK, NEW k \in Reports, NEW s \in StepWrites, NEW entry,
           UpdateStep(k[1], k[2], s, entry)
    PROVE  TypeOK'
<1>1. /\ k \in Names \X Slots
      /\ k[1] \in Names /\ k[2] \in Slots /\ k = <<k[1], k[2]>>
      /\ s \in StepStatuses
  BY WritesAssumption
<1>2. comp' \in [Names \X Slots -> StepStatuses \cup {NoRow}]
  BY <1>1 DEF UpdateStep, TypeOK
<1>3. fresh' \subseteq Names \X Slots
  BY <1>1 DEF UpdateStep, Touched, TypeOK
<1>4. synced' \subseteq Steps
  BY DEF UpdateStep, Synced, Steps, TypeOK
<1>5. /\ present' \in BOOLEAN /\ status' \in SlipStatuses
      /\ claimedFrom' \in SlipStatuses \cup {Unclaimed}
      /\ marker' \in MarkerSteps \cup {NoRow}
  BY DEF UpdateStep, TypeOK
<1>6. /\ col' \in [Steps -> StepStatuses]
      /\ items' \in [AggregateSteps -> [Components -> StepStatuses \cup {NoRow}]]
  <2>1. WriteColumns(k[1], k[2], s)
    BY DEF UpdateStep
  <2>2. CASE k[2] # Whole \/ k[1] \in AggregateSteps
    <3>1. CASE \A a \in AggregateSteps : ~RollsUpTo(k[1], a)
      BY <2>1, <2>2, <3>1 DEF WriteColumns, TypeOK
    <3>2. CASE \E a \in AggregateSteps : RollsUpTo(k[1], a)
      <4>1. PICK a \in AggregateSteps :
              /\ RollsUpTo(k[1], a)
              /\ IF OwnColumn(k[1], k[2], a)
                 THEN col' = [col EXCEPT ![a] = s] /\ UNCHANGED items
                 ELSE Recompute(comp', a)
        BY <2>1, <2>2, <3>2 DEF WriteColumns
      <4>2. CASE Recompute(comp', a)
        BY <1>2, <4>2, RecomputeType
      <4>3. CASE col' = [col EXCEPT ![a] = s] /\ UNCHANGED items
        BY <1>1, <4>3 DEF TypeOK
      <4> QED
        BY <4>1, <4>2, <4>3
    <3> QED
      BY <3>1, <3>2
  <2>3. CASE ~(k[2] # Whole \/ k[1] \in AggregateSteps)
    BY <1>1, <2>1, <2>3 DEF WriteColumns, TypeOK
  <2> QED
    BY <2>2, <2>3
<1> QED
  BY <1>2, <1>3, <1>4, <1>5, <1>6 DEF TypeOK

\* What a push writes is well typed.
LEMMA SeedType ==
    ASSUME TypeOK, NEW d \in BOOLEAN, Seed(d)
    PROVE  /\ status' \in SlipStatuses
           /\ marker' \in MarkerSteps \cup {NoRow}
           /\ col' \in [Steps -> StepStatuses]
           /\ items' \in [AggregateSteps -> [Components -> StepStatuses \cup {NoRow}]]
           /\ synced' \subseteq Steps
<1>1. {"running", "pending"} \subseteq StepStatuses /\ "in_progress" \in SlipStatuses
  BY DEF StepStatuses, SlipStatuses
<1> QED
  BY <1>1 DEF Seed

\* Type correctness: every column holds a value the schema and the Go types
\* know, after any sequence of store calls.
THEOREM TypeCorrect == Spec => []TypeOK
<1>1. Init => TypeOK
  <2>1. "pending" \in SlipStatuses /\ "pending" \in StepStatuses
    BY DEF SlipStatuses, StepStatuses
  <2> QED
    BY <2>1 DEF Init, TypeOK, NoColumns, NoItems, NoRows
<1>2. TypeOK /\ [Next]_vars => TypeOK'
  <2> SUFFICES ASSUME TypeOK, [Next]_vars PROVE TypeOK'
    OBVIOUS
  <2>1. ASSUME NEW d \in BOOLEAN, Create(d) PROVE TypeOK'
    BY <2>1, SeedType DEF Create, TypeOK
  <2>2. ASSUME NEW d \in BOOLEAN, ResetSlipInPlace(d) PROVE TypeOK'
    BY <2>2, SeedType DEF ResetSlipInPlace, TypeOK
  <2>3. ASSUME NEW k \in Reports, NEW s \in StepWrites,
               NEW entry \in {k[1]} \cup MarkerSteps,
               UpdateStep(k[1], k[2], s, entry)
        PROVE  TypeOK'
    BY <2>3, UpdateStepType
  <2>4. ASSUME NEW a \in AggregateSteps, NEW c \in Components,
               SetComponentImageTag(a, c)
        PROVE  TypeOK'
    <3>1. /\ col' \in [Steps -> StepStatuses]
          /\ items' \in [AggregateSteps -> [Components -> StepStatuses \cup {NoRow}]]
      BY <2>4, RecomputeType DEF SetComponentImageTag, TypeOK
    <3>2. fresh' \subseteq Names \X Slots
      BY <2>4, AliasesAreNames DEF SetComponentImageTag, Touched, Slots, TypeOK
    <3> QED
      BY <2>4, <3>1, <3>2 DEF SetComponentImageTag, Steps, TypeOK
  <2>5. ASSUME NEW s \in SlipWrites, UpdateSlipStatus(s) PROVE TypeOK'
    BY <2>5, WritesAssumption DEF UpdateSlipStatus, MarkerSteps, TypeOK
  <2>6. ASSUME NEW e \in Expectations, ClaimSlip(e) PROVE TypeOK'
    BY <2>6 DEF ClaimSlip, MarkerSteps, TypeOK
  <2>7. CASE ReleaseClaim
    BY <2>7 DEF ReleaseClaim, MarkerSteps, TypeOK
  <2>8. CASE Repaved
    <3>1. "pending" \in SlipStatuses /\ "pending" \in StepStatuses
      BY DEF SlipStatuses, StepStatuses
    <3> QED
      BY <2>8, <3>1 DEF Repaved, NoColumns, NoItems, NoRows, TypeOK
  <2>9. CASE Age
    BY <2>9 DEF Age, TypeOK
  <2>10. CASE UNCHANGED vars
    BY <2>10 DEF vars, TypeOK
  <2> QED
    BY <2>1, <2>2, <2>3, <2>4, <2>5, <2>6, <2>7, <2>8, <2>9, <2>10 DEF Next
<1> QED
  BY <1>1, <1>2, PTL DEF Spec

-----------------------------------------------------------------------------
(***************************************************************************)
(* The claim.                                                              *)
(***************************************************************************)

\* A slip that is gone holds no claim.
GoneIsUnclaimed == ~present => claimedFrom = Unclaimed

ClaimInv == TypeOK /\ GoneIsUnclaimed /\ ClaimMarkerAgrees

\* The empty string that marks an unclaimed row is no slip status, so a claim
\* taken out of any status is a claim.
LEMMA ClaimIsVisible == Unclaimed \notin SlipStatuses
BY DEF Unclaimed, SlipStatuses

LEMMA MarkersDiffer == ClaimMarker # ReleaseMarker /\ ClaimMarker # NoRow
BY DEF ClaimMarker, ReleaseMarker, NoRow

\* The claim invariant is inductive: every write path that touches
\* claimed_from or the markers touches them together.
LEMMA ClaimInvInductive == Spec => []ClaimInv
<1>1. Init => GoneIsUnclaimed /\ ClaimMarkerAgrees
  BY MarkersDiffer DEF Init, GoneIsUnclaimed, ClaimMarkerAgrees
<1>2. TypeOK /\ GoneIsUnclaimed /\ ClaimMarkerAgrees /\ [Next]_vars
        => GoneIsUnclaimed' /\ ClaimMarkerAgrees'
  <2> SUFFICES ASSUME TypeOK, GoneIsUnclaimed, ClaimMarkerAgrees, [Next]_vars
               PROVE  GoneIsUnclaimed' /\ ClaimMarkerAgrees'
    OBVIOUS
  <2> USE MarkersDiffer DEF GoneIsUnclaimed, ClaimMarkerAgrees
  <2>1. ASSUME NEW d \in BOOLEAN, Create(d)
        PROVE  GoneIsUnclaimed' /\ ClaimMarkerAgrees'
    BY <2>1 DEF Create, Seed
  <2>2. ASSUME NEW d \in BOOLEAN, ResetSlipInPlace(d)
        PROVE  GoneIsUnclaimed' /\ ClaimMarkerAgrees'
    BY <2>2 DEF ResetSlipInPlace, ResetAllowed, Seed
  <2>3. ASSUME NEW k \in Reports, NEW s \in StepWrites,
               NEW entry \in {k[1]} \cup MarkerSteps,
               UpdateStep(k[1], k[2], s, entry)
        PROVE  GoneIsUnclaimed' /\ ClaimMarkerAgrees'
    BY <2>3 DEF UpdateStep
  <2>4. ASSUME NEW a \in AggregateSteps, NEW c \in Components,
               SetComponentImageTag(a, c)
        PROVE  GoneIsUnclaimed' /\ ClaimMarkerAgrees'
    BY <2>4 DEF SetComponentImageTag
  <2>5. ASSUME NEW s \in SlipWrites, UpdateSlipStatus(s)
        PROVE  GoneIsUnclaimed' /\ ClaimMarkerAgrees'
    BY <2>5 DEF UpdateSlipStatus
  <2>6. ASSUME NEW e \in Expectations, ClaimSlip(e)
        PROVE  GoneIsUnclaimed' /\ ClaimMarkerAgrees'
    BY <2>6, ClaimIsVisible DEF ClaimSlip, TypeOK
  <2>7. CASE ReleaseClaim
    BY <2>7 DEF ReleaseClaim
  <2>8. CASE Repaved
    BY <2>8 DEF Repaved
  <2>9. CASE Age
    BY <2>9 DEF Age
  <2>10. CASE UNCHANGED vars
    BY <2>10 DEF vars
  <2> QED
    BY <2>1, <2>2, <2>3, <2>4, <2>5, <2>6, <2>7, <2>8, <2>9, <2>10 DEF Next
<1> QED
  BY <1>1, <1>2, TypeCorrect, PTL DEF Spec, ClaimInv

\* Both readers of a claim, the column and the newest marker, always agree.
THEOREM ClaimAgreement == Spec => []ClaimMarkerAgrees
BY ClaimInvInductive, PTL DEF ClaimInv

\* A claim ends only over a quiet run or with a terminal status.
THEOREM ClaimEnds == Spec => ClaimEndsQuietly
<1>1. ClaimInv /\ [Next]_vars
        => [claimedFrom # Unclaimed /\ claimedFrom' = Unclaimed
              => ~RunInFlight \/ status' \in SlipTerminal]_vars
  <2> SUFFICES ASSUME ClaimInv, Next,
                      claimedFrom # Unclaimed, claimedFrom' = Unclaimed
               PROVE  ~RunInFlight \/ status' \in SlipTerminal
    OBVIOUS
  <2>1. ASSUME NEW s \in SlipWrites, UpdateSlipStatus(s)
        PROVE  status' \in SlipTerminal
    BY <2>1 DEF UpdateSlipStatus
  <2>2. ASSUME ReleaseClaim PROVE ~RunInFlight
    BY <2>2 DEF ReleaseClaim, ReleaseWrites
  <2>3. ASSUME NEW e \in Expectations PROVE ~ClaimSlip(e)
    BY DEF ClaimSlip, ClaimWrites
  <2>4. \/ \E s \in SlipWrites : UpdateSlipStatus(s)
        \/ \E e \in Expectations : ClaimSlip(e)
        \/ ReleaseClaim
    BY DEF Next, Create, ResetSlipInPlace, UpdateStep, SetComponentImageTag,
           Repaved, Age
  <2> QED
    BY <2>1, <2>2, <2>3, <2>4
<1> QED
  BY <1>1, ClaimInvInductive, PTL DEF Spec, ClaimEndsQuietly

\* Under a claim the row is neither removed nor written whole, so no step
\* loses the report it made.
THEOREM ClaimProtects == Spec => ClaimedRunSurvives
<1>1. ClaimInv /\ [Next]_vars
        => [claimedFrom # Unclaimed => present' /\ synced \subseteq synced']_vars
  <2> SUFFICES ASSUME ClaimInv, Next, claimedFrom # Unclaimed
               PROVE  present' /\ synced \subseteq synced'
    OBVIOUS
  <2>1. present
    BY DEF ClaimInv, GoneIsUnclaimed
  <2>2. /\ \A d \in BOOLEAN : ~Create(d) /\ ~ResetSlipInPlace(d)
        /\ ~Repaved
    BY <2>1 DEF Create, ResetSlipInPlace, ResetAllowed, Repaved
  <2> QED
    BY <2>1, <2>2 DEF Next, UpdateStep, SetComponentImageTag, UpdateSlipStatus,
                      ClaimSlip, ReleaseClaim, Age
<1> QED
  BY <1>1, ClaimInvInductive, PTL DEF Spec, ClaimedRunSurvives

-----------------------------------------------------------------------------
(***************************************************************************)
(* I5: the step columns match the component rows.                          *)
(***************************************************************************)

\* What is recorded for an aggregate depends on the component rows under its
\* two names only.
LEMMA RecordedWithin ==
    ASSUME NEW rows, NEW others, NEW a,
           \A x \in Aliases(a), d \in Components : rows[<<x, d>>] = others[<<x, d>>],
           NEW v \in Recorded(rows, a)
    PROVE  v \in Recorded(others, a)
<1>1. PICK x \in Aliases(a), d \in Components : v = rows[<<x, d>>] /\ v # NoRow
  BY DEF Recorded
<1>2. v = others[<<x, d>>]
  BY <1>1
<1> QED
  BY <1>1, <1>2 DEF Recorded

LEMMA RecordedAgrees ==
    ASSUME NEW rows, NEW others, NEW a,
           \A x \in Aliases(a), d \in Components : rows[<<x, d>>] = others[<<x, d>>]
    PROVE  Recorded(rows, a) = Recorded(others, a)
<1>1. ASSUME NEW v \in Recorded(rows, a)
      PROVE  v \in Recorded(others, a)
  BY RecordedWithin
<1>2. ASSUME NEW v \in Recorded(others, a)
      PROVE  v \in Recorded(rows, a)
  BY RecordedWithin
<1> QED
  BY <1>1, <1>2

\* A component write leaves the rows of every other aggregate alone, and the
\* whole-step rows of all of them.
LEMMA ComponentWriteIsLocal ==
    ASSUME TypeOK, NEW n \in Names, NEW c \in Components, NEW s,
           comp' = [comp EXCEPT ![<<n, c>>] = s],
           NEW m \in Steps, ~RollsUpTo(n, m)
    PROVE  Derived(m)' = Derived(m)
<1>1. <<m, Whole>> # <<n, c>>
  BY ConfigAssumption
<1>2. comp'[<<m, Whole>>] = comp[<<m, Whole>>]
  BY <1>1 DEF TypeOK, Slots, Names
<1>3. ASSUME m \in AggregateSteps
      PROVE  Recorded(comp', m) = Recorded(comp, m)
  <2>1. n \notin Aliases(m)
    BY <1>3 DEF RollsUpTo
  <2>2. \A x \in Aliases(m), d \in Components : comp'[<<x, d>>] = comp[<<x, d>>]
    BY <1>3, <2>1, AliasesAreNames DEF TypeOK, Slots
  <2> QED
    BY ONLY <2>2, RecordedAgrees
<1> QED
  BY <1>2, <1>3 DEF Derived

\* A whole-step write changes the derived status of that step at most.
LEMMA WholeWriteIsLocal ==
    ASSUME TypeOK, NEW n \in Names, NEW s,
           comp' = [comp EXCEPT ![<<n, Whole>>] = s],
           NEW m \in Steps, m # n
    PROVE  Derived(m)' = Derived(m)
<1>1. comp'[<<m, Whole>>] = comp[<<m, Whole>>]
  BY DEF TypeOK, Slots, Names
<1>2. ASSUME m \in AggregateSteps
      PROVE  Recorded(comp', m) = Recorded(comp, m)
  <2>1. \A x \in Aliases(m), d \in Components : comp'[<<x, d>>] = comp[<<x, d>>]
    BY <1>2, AliasesAreNames, ConfigAssumption DEF TypeOK, Slots
  <2> QED
    BY ONLY <2>1, RecordedAgrees
<1> QED
  BY <1>1, <1>2 DEF Derived

\* Rolling an aggregate with component rows up brings its column in line and
\* touches no other column.
LEMMA RecomputeSyncs ==
    ASSUME TypeOK, NEW rows, NEW a \in AggregateSteps,
           Recompute(rows, a), Recorded(rows, a) # {}
    PROVE  /\ col'[a] = AggregateStatus(Recorded(rows, a))
           /\ \A m \in Steps \ {a} : col'[m] = col[m]
BY DEF Recompute, TypeOK, Steps

\* A step write that is admitted keeps the invariant and extends it to the
\* step it brings up to date.
LEMMA UpdateStepSyncs ==
    ASSUME TypeOK, ColumnsMatchRows, NEW k \in Reports, NEW s \in StepWrites,
           NEW entry, UpdateStep(k[1], k[2], s, entry)
    PROVE  ColumnsMatchRows'
<1> DEFINE n == k[1]
           c == k[2]
<1>1. n \in Names /\ c \in Slots /\ s \in StepStatuses /\ s # NoRow
  BY WritesAssumption, ConfigAssumption
<1>2. /\ comp' = [comp EXCEPT ![<<n, c>>] = s]
      /\ synced' = synced \cup Synced(n, c)
      /\ WriteColumns(n, c, s)
  BY DEF UpdateStep
<1>3. comp'[<<n, c>>] = s
  BY <1>1, <1>2 DEF TypeOK
<1>4. synced \subseteq Steps
  BY DEF TypeOK
<1> SUFFICES ASSUME NEW m \in synced' PROVE col'[m] = Derived(m)'
  BY DEF ColumnsMatchRows
<1>5. CASE c # Whole
  <2>1. c \in Components
    BY <1>1, <1>5 DEF Slots
  <2>2. CASE \E a \in AggregateSteps : RollsUpTo(n, a)
    <3>1. PICK a \in AggregateSteps : RollsUpTo(n, a) /\ Recompute(comp', a)
      BY <1>2, <1>5, <2>2 DEF WriteColumns, OwnColumn
    <3>2. s \in Recorded(comp', a)
      BY <1>1, <1>3, <2>1, <3>1 DEF Recorded, RollsUpTo
    <3>3. /\ col'[a] = AggregateStatus(Recorded(comp', a))
          /\ \A x \in Steps \ {a} : col'[x] = col[x]
      <4>1. Recorded(comp', a) # {}
        BY <3>2
      <4> HIDE DEF n, c
      <4> QED
        BY <3>1, <4>1, RecomputeSyncs
    <3>4. CASE m = a
      BY <3>2, <3>3, <3>4 DEF Derived
    <3>5. CASE m # a
      <4>1. ~RollsUpTo(n, m)
        BY <3>1, <3>5, RollsUpOnce
      <4>2. m \in synced /\ m \in Steps
        BY <1>2, <1>4, <1>5, <4>1 DEF Synced
      <4>3. Derived(m)' = Derived(m)
        BY <1>1, <1>2, <2>1, <4>1, <4>2, ComponentWriteIsLocal
      <4> QED
        BY <3>3, <3>5, <4>2, <4>3 DEF ColumnsMatchRows
    <3> QED
      BY <3>4, <3>5
  <2>3. CASE \A a \in AggregateSteps : ~RollsUpTo(n, a)
    <3>1. col' = col /\ m \in synced /\ m \in Steps
      BY <1>2, <1>4, <1>5, <2>3 DEF WriteColumns, Synced
    <3>2. ~RollsUpTo(n, m)
      BY <2>3 DEF RollsUpTo
    <3>3. Derived(m)' = Derived(m)
      BY <1>1, <1>2, <2>1, <3>1, <3>2, ComponentWriteIsLocal
    <3> QED
      BY <3>1, <3>3 DEF ColumnsMatchRows
  <2> QED
    BY <2>2, <2>3
<1>6. CASE c = Whole /\ n \in AggregateSteps
  <2>1. RollsUpTo(n, n)
    BY <1>6 DEF RollsUpTo, Aliases
  <2>2. /\ RollsUpTo(n, n)
        /\ IF Recorded(comp', n) = {}
           THEN col' = [col EXCEPT ![n] = s] /\ UNCHANGED items
           ELSE Recompute(comp', n)
    BY <1>2, <1>6, <2>1, RollsUpOnce DEF WriteColumns, OwnColumn
  <2>3. /\ col'[n] = Derived(n)'
        /\ \A x \in Steps \ {n} : col'[x] = col[x]
    <3>1. CASE Recorded(comp', n) = {}
      BY <1>3, <1>6, <2>2, <3>1 DEF Derived, TypeOK, Steps
    <3>2. CASE Recorded(comp', n) # {}
      BY <1>6, <2>2, <3>2, RecomputeSyncs DEF Derived
    <3> QED
      BY <3>1, <3>2
  <2>4. CASE m = n
    BY <2>3, <2>4
  <2>5. CASE m # n
    <3>1. m \in synced /\ m \in Steps
      BY <1>2, <1>4, <1>6, <2>1, <2>5, RollsUpOnce DEF Synced
    <3>2. Derived(m)' = Derived(m)
      BY <1>1, <1>2, <1>6, <2>5, <3>1, WholeWriteIsLocal
    <3> QED
      BY <2>3, <2>5, <3>1, <3>2 DEF ColumnsMatchRows
  <2> QED
    BY <2>4, <2>5
<1>7. CASE c = Whole /\ n \notin AggregateSteps
  <2>1. /\ col' = IF n \in Steps THEN [col EXCEPT ![n] = s] ELSE col
        /\ m \in Steps
        /\ m = n \/ m \in synced
    BY <1>2, <1>4, <1>7 DEF WriteColumns, Synced
  <2>2. CASE m = n
    BY <1>3, <1>7, <2>1, <2>2 DEF Derived, TypeOK
  <2>3. CASE m # n
    <3>1. Derived(m)' = Derived(m)
      BY <1>1, <1>2, <1>7, <2>1, <2>3, WholeWriteIsLocal
    <3>2. col'[m] = col[m]
      BY <2>1, <2>3 DEF TypeOK
    <3> QED
      BY <2>1, <2>3, <3>1, <3>2 DEF ColumnsMatchRows
  <2> QED
    BY <2>2, <2>3
<1> QED
  BY <1>5, <1>6, <1>7

\* I5 for step writes: after any sequence of store calls, the column of every
\* step written since the last whole-row write is what its rows derive.
THEOREM Materialization == Spec => []ColumnsMatchRows
<1>1. Init => ColumnsMatchRows
  BY DEF Init, ColumnsMatchRows
<1>2. TypeOK /\ ColumnsMatchRows /\ [Next]_vars => ColumnsMatchRows'
  <2> SUFFICES ASSUME TypeOK, ColumnsMatchRows, [Next]_vars
               PROVE  ColumnsMatchRows'
    OBVIOUS
  <2>1. ASSUME NEW d \in BOOLEAN, Create(d) \/ ResetSlipInPlace(d)
        PROVE  ColumnsMatchRows'
    BY <2>1 DEF Create, ResetSlipInPlace, Seed, ColumnsMatchRows
  <2>2. ASSUME NEW k \in Reports, NEW s \in StepWrites,
               NEW entry \in {k[1]} \cup MarkerSteps,
               UpdateStep(k[1], k[2], s, entry)
        PROVE  ColumnsMatchRows'
    BY <2>2, UpdateStepSyncs
  <2>3. ASSUME NEW a \in AggregateSteps, NEW c \in Components,
               SetComponentImageTag(a, c)
        PROVE  ColumnsMatchRows'
    <3>1. PICK n \in Aliases(a) : comp[<<n, c>>] # NoRow
      BY <2>3 DEF SetComponentImageTag
    <3>2. Recorded(comp, a) # {}
      <4>1. comp[<<n, c>>] \in Recorded(comp, a)
        BY <3>1 DEF Recorded
      <4> QED
        BY <4>1
    <3>3. /\ col'[a] = AggregateStatus(Recorded(comp, a))
          /\ \A x \in Steps \ {a} : col'[x] = col[x]
      BY <2>3, <3>2, RecomputeSyncs DEF SetComponentImageTag
    <3>4. comp' = comp /\ synced' = synced \cup {a} /\ synced \subseteq Steps
      BY <2>3 DEF SetComponentImageTag, TypeOK
    <3> QED
      BY <3>2, <3>3, <3>4 DEF ColumnsMatchRows, Derived
  <2>4. CASE Repaved
    BY <2>4 DEF Repaved, ColumnsMatchRows
  <2>5. CASE UNCHANGED <<col, comp, synced>>
    BY <2>5 DEF ColumnsMatchRows, Derived
  <2> QED
    BY <2>1, <2>2, <2>3, <2>4, <2>5
    DEF Next, UpdateSlipStatus, ClaimSlip, ReleaseClaim, Age, vars
<1> QED
  BY <1>1, <1>2, TypeCorrect, PTL DEF Spec
-----------------------------------------------------------------------------
(***************************************************************************)
(* The items of an aggregate show its component rows.                      *)
(***************************************************************************)

\* Where a component has a row under one name only, that row is its item.
ItemsMatchRows ==
    \A a \in synced \cap AggregateSteps : \A c \in Components, n \in Aliases(a) :
        SingleName(a, c) /\ comp[<<n, c>>] # NoRow => items[a][c] = comp[<<n, c>>]

\* Whichever row is merged last, the only one there is stays.
LEMMA OnlyRowIsMerged ==
    ASSUME NEW rows, NEW a \in AggregateSteps, NEW last \in [Components -> Aliases(a)],
           NEW c \in Components, NEW n \in Aliases(a), rows[<<n, c>>] # NoRow,
           NEW m \in Aliases(a), rows[<<m, c>>] = NoRow
    PROVE  Merged(rows, a, last)[c] = rows[<<n, c>>]
<1> DEFINE seen == {rows[<<x, c>>] : x \in Aliases(a)} \ {NoRow}
<1>1. \A x \in Aliases(a) : x = n \/ x = m
  BY DEF Aliases
<1>2. last[c] = n \/ last[c] = m
  BY <1>1
<1>3. seen = {rows[<<n, c>>]}
  BY <1>1
<1>4. (CHOOSE v \in seen : TRUE) = rows[<<n, c>>]
  BY <1>3
<1>5. CASE last[c] = n
  BY <1>5 DEF Merged
<1>6. CASE last[c] = m
  BY <1>3, <1>4, <1>6 DEF Merged
<1> QED
  BY <1>2, <1>5, <1>6

\* Rolling an aggregate up brings its items in line and touches no others.
LEMMA RecomputeShows ==
    ASSUME TypeOK, NEW rows, NEW a \in AggregateSteps,
           Recompute(rows, a), Recorded(rows, a) # {}
    PROVE  /\ \A c \in Components, n, m \in Aliases(a) :
                 rows[<<n, c>>] # NoRow /\ rows[<<m, c>>] = NoRow => items'[a][c] = rows[<<n, c>>]
           /\ \A b \in AggregateSteps \ {a} : items'[b] = items[b]
<1>1. PICK last \in [Components -> Aliases(a)] : items' = [items EXCEPT ![a] = Merged(rows, a, last)]
  BY DEF Recompute
<1>2. items'[a] = Merged(rows, a, last) /\ \A b \in AggregateSteps \ {a} : items'[b] = items[b]
  BY <1>1 DEF TypeOK
<1> QED
  BY <1>2, OnlyRowIsMerged

\* What an aggregate's items show stays right while its own rows and items stay
\* as they are.
LEMMA ItemsStay ==
    ASSUME ItemsMatchRows, NEW b \in synced \cap AggregateSteps, items'[b] = items[b],
           \A x \in Aliases(b), d \in Components : comp'[<<x, d>>] = comp[<<x, d>>],
           NEW c \in Components, NEW n \in Aliases(b), SingleName(b, c)', comp'[<<n, c>>] # NoRow
    PROVE  items'[b][c] = comp'[<<n, c>>]
<1>1. SingleName(b, c)
  BY DEF SingleName
<1> QED
  BY <1>1 DEF ItemsMatchRows

\* A step write that is admitted keeps what the items show.
LEMMA UpdateStepShows ==
    ASSUME TypeOK, ItemsMatchRows, NEW k \in Reports, NEW s \in StepWrites,
           NEW entry, UpdateStep(k[1], k[2], s, entry)
    PROVE  ItemsMatchRows'
<1>0. PICK n \in Names, c \in Slots : n = k[1] /\ c = k[2]
  BY WritesAssumption
<1>1. s \in StepStatuses /\ s # NoRow
  BY WritesAssumption, ConfigAssumption
<1>2. /\ comp' = [comp EXCEPT ![<<n, c>>] = s]
      /\ synced' = synced \cup Synced(n, c)
      /\ WriteColumns(n, c, s)
  BY <1>0 DEF UpdateStep
<1> SUFFICES ASSUME NEW b \in synced' \cap AggregateSteps, NEW d \in Components,
                    NEW x \in Aliases(b), SingleName(b, d)', comp'[<<x, d>>] # NoRow
             PROVE  items'[b][d] = comp'[<<x, d>>]
  BY DEF ItemsMatchRows
<1>3. PICK y \in Aliases(b) : comp'[<<y, d>>] = NoRow
  BY DEF SingleName
<1>4. comp'[<<x, d>>] \in Recorded(comp', b)
  BY DEF Recorded
<1>5. ASSUME \A z \in Aliases(b), e \in Components : <<z, e>> # <<n, c>>
      PROVE  \A z \in Aliases(b), e \in Components : comp'[<<z, e>>] = comp[<<z, e>>]
  BY <1>2, <1>5, AliasesAreNames DEF TypeOK, Slots
<1>6. CASE Recompute(comp', b)
  BY <1>3, <1>4, <1>6, RecomputeShows
<1>7. CASE ~RollsUpTo(n, b)
  <2>1. b \in synced
    BY <1>2, <1>7, ConfigAssumption DEF Synced, RollsUpTo, Aliases
  <2>2. \A z \in Aliases(b), e \in Components : comp'[<<z, e>>] = comp[<<z, e>>]
    BY <1>5, <1>7 DEF RollsUpTo
  <2>3. items'[b] = items[b]
    <3>1. CASE UNCHANGED items
      BY <3>1
    <3>2. CASE \E a \in AggregateSteps : RollsUpTo(n, a) /\ Recompute(comp', a)
      <4>1. PICK a \in AggregateSteps : RollsUpTo(n, a) /\ Recompute(comp', a)
        BY <3>2
      <4>2. a # b
        BY <1>7, <4>1
      <4>3. UNCHANGED items \/ \E last : items' = [items EXCEPT ![a] = Merged(comp', a, last)]
        BY <4>1 DEF Recompute
      <4> QED
        BY <4>2, <4>3 DEF TypeOK
    <3> QED
      BY <1>2, <3>1, <3>2 DEF WriteColumns
  <2> QED
    BY <2>1, <2>2, <2>3, ItemsStay
<1>8. CASE RollsUpTo(n, b) /\ ~Recompute(comp', b)
  <2>1. c = Whole /\ UNCHANGED items
    <3>1. CASE c # Whole \/ n \in AggregateSteps
      <4>1. PICK a \in AggregateSteps : /\ RollsUpTo(n, a)
                                        /\ IF OwnColumn(n, c, a)
                                           THEN col' = [col EXCEPT ![a] = s] /\ UNCHANGED items
                                           ELSE Recompute(comp', a)
        BY <1>2, <1>8, <3>1 DEF WriteColumns
      <4>2. a = b
        BY <1>8, <4>1, RollsUpOnce
      <4> QED
        BY <1>8, <4>1, <4>2 DEF OwnColumn
    <3>2. CASE ~(c # Whole \/ n \in AggregateSteps)
      BY <1>2, <3>2 DEF WriteColumns
    <3> QED
      BY <3>1, <3>2
  <2>2. \A z \in Aliases(b), e \in Components : comp'[<<z, e>>] = comp[<<z, e>>]
    BY <1>5, <2>1, ConfigAssumption
  <2>3. CASE n \notin AggregateSteps
    <3>1. b \in synced
      BY <1>2, <2>1, <2>3, ConfigAssumption DEF Synced
    <3> QED
      BY <2>1, <2>2, <3>1, ItemsStay
  <2>4. CASE n \in AggregateSteps
    <3>1. OwnColumn(n, c, b)
      BY <1>2, <1>8, <2>1, <2>4, RollsUpOnce DEF WriteColumns
    <3> QED
      BY <1>4, <3>1 DEF OwnColumn
  <2> QED
    BY <2>3, <2>4
<1> QED
  BY <1>6, <1>7, <1>8

\* For any pipeline: nothing that executes is hidden from the claim decisions.
THEOREM WorkIsVisible == Spec => []NoHiddenWork
<1>1. Init => ItemsMatchRows
  BY DEF Init, ItemsMatchRows
<1>2. TypeOK /\ ItemsMatchRows /\ [Next]_vars => ItemsMatchRows'
  <2> SUFFICES ASSUME TypeOK, ItemsMatchRows, [Next]_vars
               PROVE  ItemsMatchRows'
    OBVIOUS
  <2>1. ASSUME NEW d \in BOOLEAN, Create(d) \/ ResetSlipInPlace(d)
        PROVE  ItemsMatchRows'
    BY <2>1 DEF Create, ResetSlipInPlace, Seed, ItemsMatchRows
  <2>2. ASSUME NEW k \in Reports, NEW s \in StepWrites,
               NEW entry \in {k[1]} \cup MarkerSteps,
               UpdateStep(k[1], k[2], s, entry)
        PROVE  ItemsMatchRows'
    BY <2>2, UpdateStepShows
  <2>3. ASSUME NEW a \in AggregateSteps, NEW c \in Components,
               SetComponentImageTag(a, c)
        PROVE  ItemsMatchRows'
    <3>1. PICK n \in Aliases(a) : comp[<<n, c>>] # NoRow
      BY <2>3 DEF SetComponentImageTag
    <3>2. Recorded(comp, a) # {}
      <4>1. comp[<<n, c>>] \in Recorded(comp, a)
        BY <3>1 DEF Recorded
      <4> QED
        BY <4>1
    <3>3. /\ \A d \in Components, x, y \in Aliases(a) :
                comp[<<x, d>>] # NoRow /\ comp[<<y, d>>] = NoRow => items'[a][d] = comp[<<x, d>>]
          /\ \A b \in AggregateSteps \ {a} : items'[b] = items[b]
      BY <2>3, <3>2, RecomputeShows DEF SetComponentImageTag
    <3>4. comp' = comp /\ synced' = synced \cup {a}
      BY <2>3 DEF SetComponentImageTag
    <3> QED
      BY <3>3, <3>4 DEF ItemsMatchRows, SingleName
  <2>4. CASE Repaved
    BY <2>4 DEF Repaved, ItemsMatchRows
  <2>5. CASE UNCHANGED <<items, comp, synced>>
    BY <2>5 DEF ItemsMatchRows, SingleName
  <2> QED
    BY <2>1, <2>2, <2>3, <2>4, <2>5
    DEF Next, UpdateSlipStatus, ClaimSlip, ReleaseClaim, Age, vars
<1>3. ItemsMatchRows => NoHiddenWork
  <2>1. NoRow \notin StepRunning
    BY ConfigAssumption DEF StepRunning, StepStatuses
  <2> QED
    BY <2>1 DEF ItemsMatchRows, NoHiddenWork
<1> QED
  BY <1>1, <1>2, <1>3, TypeCorrect, PTL DEF Spec

-----------------------------------------------------------------------------
(***************************************************************************)
(* A fresh verdict sticks.                                                 *)
(***************************************************************************)

\* Only verdicts are fresh.
FreshIsTerminal == \A k \in fresh : comp[k] \in StepTerminal

LEMMA FreshIsTerminalInductive == Spec => []FreshIsTerminal
<1>1. Init => FreshIsTerminal
  BY DEF Init, FreshIsTerminal
<1>2. TypeOK /\ FreshIsTerminal /\ [Next]_vars => FreshIsTerminal'
  <2> SUFFICES ASSUME TypeOK, FreshIsTerminal, [Next]_vars
               PROVE  FreshIsTerminal'
    OBVIOUS
  <2>1. ASSUME NEW k \in Reports, NEW s \in StepWrites, NEW entry,
               UpdateStep(k[1], k[2], s, entry)
        PROVE  FreshIsTerminal'
    <3>1. PICK n \in Names, c \in Slots : n = k[1] /\ c = k[2]
      BY WritesAssumption
    <3>2. comp' = [comp EXCEPT ![<<n, c>>] = s] /\ fresh' = Touched(n, c, s)
      BY <2>1, <3>1 DEF UpdateStep
    <3>3. fresh \subseteq Names \X Slots /\ comp \in [Names \X Slots -> StepStatuses \cup {NoRow}]
      BY DEF TypeOK
    <3> QED
      BY <3>2, <3>3 DEF Touched, FreshIsTerminal
  <2>2. ASSUME NEW a \in AggregateSteps, NEW c \in Components, SetComponentImageTag(a, c)
        PROVE  FreshIsTerminal'
    BY <2>2 DEF SetComponentImageTag, Touched, FreshIsTerminal
  <2>3. CASE Repaved
    BY <2>3 DEF Repaved, FreshIsTerminal
  <2>4. CASE Age
    BY <2>4 DEF Age, FreshIsTerminal
  <2>5. CASE UNCHANGED <<comp, fresh>>
    BY <2>5 DEF FreshIsTerminal
  <2> QED
    BY <2>1, <2>2, <2>3, <2>4, <2>5
    DEF Next, Create, ResetSlipInPlace, UpdateSlipStatus, ClaimSlip, ReleaseClaim, vars
<1> QED
  BY <1>1, <1>2, TypeCorrect, PTL DEF Spec

\* For any clients: within the window no late report replaces a verdict.
THEOREM VerdictsStick == Spec => FreshVerdictSticks
<1>1. ASSUME TypeOK, ColumnsMatchRows, ColumnsMatchRows', FreshIsTerminal, Next,
             NEW n \in (synced \cap synced') \ ({PushParsed} \cup AggregateSteps),
             GateEnabled, <<n, Whole>> \in fresh
      PROVE  \/ col'[n] \in StepTerminal
             \/ col[n] = "aborted" /\ col'[n] = "pending"
  <2>1. col[n] = comp[<<n, Whole>>] /\ col'[n] = comp'[<<n, Whole>>]
    BY <1>1 DEF ColumnsMatchRows, Derived
  <2>2. comp[<<n, Whole>>] \in StepTerminal
    BY <1>1 DEF FreshIsTerminal
  <2>3. ASSUME NEW k \in Reports, NEW s \in StepWrites, NEW entry,
               UpdateStep(k[1], k[2], s, entry)
        PROVE  \/ col'[n] \in StepTerminal
               \/ col[n] = "aborted" /\ col'[n] = "pending"
    <3>1. PICK m \in Names, c \in Slots : m = k[1] /\ c = k[2]
      BY WritesAssumption
    <3>2. comp' = [comp EXCEPT ![<<m, c>>] = s] /\ GateAdmits(m, c, s)
      BY <2>3, <3>1 DEF UpdateStep
    <3>3. CASE m = n /\ c = Whole
      <4>1. comp'[<<n, Whole>>] = s
        BY <1>1, <3>2, <3>3 DEF TypeOK
      <4> QED
        BY <1>1, <2>1, <2>2, <3>2, <3>3, <4>1 DEF GateAdmits
    <3>4. CASE ~(m = n /\ c = Whole)
      <4>1. comp'[<<n, Whole>>] = comp[<<n, Whole>>]
        BY <1>1, <3>2, <3>4 DEF TypeOK
      <4> QED
        BY <2>1, <2>2, <4>1
    <3> QED
      BY <3>3, <3>4
  <2>4. CASE comp' = comp
    BY <2>1, <2>2, <2>4
  <2>5. \A d \in BOOLEAN : ~Create(d) /\ ~ResetSlipInPlace(d)
    BY <1>1 DEF Create, ResetSlipInPlace, Seed
  <2>6. ~Repaved
    BY <1>1 DEF Repaved
  <2> QED
    BY <1>1, <2>3, <2>4, <2>5, <2>6
    DEF Next, SetComponentImageTag, UpdateSlipStatus, ClaimSlip, ReleaseClaim, Age
<1>2. TypeOK /\ ColumnsMatchRows /\ ColumnsMatchRows' /\ FreshIsTerminal /\ [Next]_vars =>
        [\A n \in (synced \cap synced') \ ({PushParsed} \cup AggregateSteps) :
            GateEnabled /\ <<n, Whole>> \in fresh
              => \/ col'[n] \in StepTerminal
                 \/ col[n] = "aborted" /\ col'[n] = "pending"]_vars
  BY <1>1
<1> QED
  BY <1>2, TypeCorrect, Materialization, FreshIsTerminalInductive, PTL DEF Spec, FreshVerdictSticks

-----------------------------------------------------------------------------
(***************************************************************************)
(* The refinement.  SlipContract sees the steps through RunInFlight alone; *)
(* every write maps to its action there, or to Work, or to a stutter.      *)
(***************************************************************************)

\* A row as a push writes it has nothing in flight.
LEMMA SeedIsQuiet ==
    ASSUME NEW d \in BOOLEAN, Seed(d)
    PROVE  status' = "in_progress" /\ marker' = NoRow /\ RunInFlight' = FALSE
<1>1. \A n \in Steps \ {PushParsed} : col'[n] = "pending"
  BY DEF Seed
<1>2. \A a \in AggregateSteps, c \in Components : items'[a][c] \in {"pending", NoRow}
  BY DEF Seed
<1>3. RunInFlight' = FALSE
  BY <1>1, <1>2 DEF RunInFlight, StepRunning, NoRow
<1> QED
  BY <1>3 DEF Seed

\* There is something in flight or there is not.
LEMMA InFlightIsBoolean == RunInFlight \in BOOLEAN /\ RunInFlight' \in BOOLEAN
BY DEF RunInFlight

\* Nothing is in flight where there is no row.
LEMMA NoRowIsQuiet ==
    /\ \A n \in Steps : NoColumns[n] \notin StepRunning
    /\ \A a \in AggregateSteps, c \in Components : NoItems[a][c] \notin StepRunning
BY DEF NoColumns, NoItems, StepRunning, NoRow

\* Whatever is called, the status, the claim and the marker of the slip in
\* Postgres move as every SlipStore promises.
THEOREM StoreImplementsContract == Spec => ImplementsContract
<1>1. Init => Contract!Init
  BY NoRowIsQuiet DEF Init, Contract!Init, RunInFlight, Contract!Unclaimed, Contract!NoRow, Unclaimed, NoRow
<1>2. [Next]_vars => [Contract!Next]_(Contract!vars)
  <2> SUFFICES ASSUME [Next]_vars PROVE [Contract!Next]_(Contract!vars)
    OBVIOUS
  <2>1. ASSUME NEW d \in BOOLEAN, Create(d) PROVE Contract!Create
    BY <2>1, SeedIsQuiet DEF Create, Contract!Create, Contract!Fresh, Contract!NoRow, NoRow
  <2>2. ASSUME NEW d \in BOOLEAN, ResetSlipInPlace(d) PROVE Contract!Reset
    BY <2>2, SeedIsQuiet DEF ResetSlipInPlace, Contract!Reset, Contract!Fresh, Contract!NoRow, NoRow,
       ResetAllowed, Contract!ResetAllowed, Contract!Unclaimed, Unclaimed
  <2>3. ASSUME NEW k \in Reports, NEW s \in StepWrites,
               NEW entry \in {k[1]} \cup MarkerSteps, UpdateStep(k[1], k[2], s, entry)
        PROVE  Contract!Work
    BY InFlightIsBoolean, <2>3 DEF UpdateStep, Contract!Work
  <2>4. ASSUME NEW a \in AggregateSteps, NEW c \in Components, SetComponentImageTag(a, c)
        PROVE  Contract!Work
    BY InFlightIsBoolean, <2>4 DEF SetComponentImageTag, Contract!Work
  <2>5. ASSUME NEW s \in SlipWrites, UpdateSlipStatus(s) PROVE Contract!SetStatus(s)
    BY <2>5 DEF UpdateSlipStatus, Contract!SetStatus, RunInFlight, SlipTerminal, Contract!SlipTerminal,
       Unclaimed, Contract!Unclaimed, ReleaseMarker, Contract!ReleaseMarker
  <2>6. ASSUME NEW e \in Expectations, ClaimSlip(e) PROVE Contract!Claim(e)
    BY <2>6 DEF ClaimSlip, Contract!Claim, RunInFlight, ClaimWrites, Contract!ClaimWrites,
       Unclaimed, Contract!Unclaimed, ClaimMarker, Contract!ClaimMarker
  <2>7. ASSUME ReleaseClaim PROVE Contract!Release
    BY <2>7 DEF ReleaseClaim, Contract!Release, RunInFlight, ReleaseWrites, Contract!ReleaseWrites,
       Unclaimed, Contract!Unclaimed, ReleaseMarker, Contract!ReleaseMarker
  <2>8. ASSUME Repaved PROVE Contract!Repave
    <3>1. RunInFlight' = FALSE
      BY <2>8, NoRowIsQuiet DEF Repaved, RunInFlight
    <3>2. ~Contract!SlipLive(status)
      BY <2>8 DEF Repaved, Repaveable, Contract!SlipLive, Contract!SlipTerminal
    <3> QED
      BY <2>8, <3>1, <3>2 DEF Repaved, Contract!Repave, Unclaimed, Contract!Unclaimed,
         NoRow, Contract!NoRow
  <2>9. ASSUME Age \/ UNCHANGED vars PROVE UNCHANGED Contract!vars
    BY <2>9 DEF Age, vars, Contract!vars, RunInFlight
  <2> QED
    BY <2>1, <2>2, <2>3, <2>4, <2>5, <2>6, <2>7, <2>8, <2>9 DEF Next, Contract!Next
<1> QED
  BY <1>1, <1>2, PTL DEF Spec, ImplementsContract, Contract!Spec
=============================================================================
