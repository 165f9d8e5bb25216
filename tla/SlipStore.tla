------------------------------ MODULE SlipStore ------------------------------
(***************************************************************************)
(* PostgresStore's write transactions on ONE routing slip.                 *)
(*                                                                         *)
(* Every writer first takes the slip's routing_slips row lock and then     *)
(* works to the commit, so a transaction is one action, and any number of  *)
(* clients is any interleaving of actions.  A transaction that returns an  *)
(* error rolls back and is no step at all.                                 *)
(*                                                                         *)
(* The row's column <step>_status is a cache of the slip_component_states  *)
(* rows; the claim (claimed_from) is a flag next to the status; markers in *)
(* state_history are what other services read the claim from.              *)
(***************************************************************************)
EXTENDS SlipStatus

CONSTANTS
    PipelineSteps,   \* configured steps without components
    AggregateSteps,  \* configured steps that roll components up
    ComponentStep,   \* aggregate step -> the step name its components report under
    Components,      \* component names
    Whole,           \* the empty component name: the step as a whole
    PushParsed,      \* the first step, which every push writes
    GateEnabled,     \* SLIPPY_I5_GATE_ENABLED
    Reports,         \* the (step, component) pairs clients report on
    StepWrites,      \* step statuses the clients write
    SlipWrites,      \* slip statuses the clients write
    Expectations     \* the "expected" sets claimants pass

Steps   == PipelineSteps \cup AggregateSteps
Aliases(a) == {a, ComponentStep[a]}
Names   == Steps \cup {ComponentStep[a] : a \in AggregateSteps}
Slots   == Components \cup {Whole}

\* An aggregate reports under a name of its own, and that name is no
\* aggregate: resolveAggregateStep would otherwise roll a write up to the
\* wrong step.
ASSUME ConfigAssumption ==
    /\ PipelineSteps \cap AggregateSteps = {}
    /\ PushParsed \in PipelineSteps
    /\ \A a, b \in AggregateSteps :
          /\ ComponentStep[a] \notin AggregateSteps
          /\ ComponentStep[a] = ComponentStep[b] => a = b
    /\ Whole \notin Components
    /\ NoRow \notin StepStatuses

ASSUME WritesAssumption ==
    /\ GateEnabled \in BOOLEAN
    /\ Reports \subseteq Names \X Slots
    /\ StepWrites \subseteq StepStatuses
    /\ SlipWrites \subseteq SlipStatuses
    /\ \A e \in Expectations : e \subseteq SlipStatuses

VARIABLES
    present,      \* is there a routing_slips row?
    status,       \* the slip status column
    claimedFrom,  \* the claimed_from column
    marker,       \* the newest claim or release marker in state_history
    col,          \* the <step>_status columns
    items,        \* the aggregate jsonb columns: component -> status
    comp,         \* slip_component_states: (step, component) -> status
    fresh,        \* terminal component rows younger than the freshness window
    synced        \* auxiliary: steps written since the row was last written whole

vars == <<present, status, claimedFrom, marker, col, items, comp, fresh, synced>>

-----------------------------------------------------------------------------
(***************************************************************************)
(* Reading the row.                                                        *)
(***************************************************************************)

\* RunInFlight: any step but push_parsed, or any component item, executing.
RunInFlight ==
    \/ \E n \in Steps \ {PushParsed} : col[n] \in StepRunning
    \/ \E a \in AggregateSteps, c \in Components : items[a][c] \in StepRunning

\* resolveAggregateStep: the aggregate a write under name n rolls up to.
RollsUpTo(n, a) == a \in AggregateSteps /\ n \in Aliases(a)

\* The component statuses recorded for an aggregate, under either name.
Recorded(rows, a) ==
    {rows[<<n, c>>] : n \in Aliases(a), c \in Components} \ {NoRow}

-----------------------------------------------------------------------------
\* Mutant: the age test is the wrong way round.
GateAdmitsFresh(n, c, s) ==
    \/ comp[<<n, c>>] \notin StepTerminal
    \/ s \in StepTerminal
    \/ <<n, c>> \in fresh

(***************************************************************************)
(* The terminal-freshness gate of upsertComponentState's ON CONFLICT arm:  *)
(* a non-terminal write may not replace a terminal status that is still    *)
(* fresh, push_parsed and aborted -> pending excepted.                     *)
(***************************************************************************)
GateAdmits(n, c, s) ==
    \/ ~GateEnabled
    \/ n = PushParsed /\ c = Whole
    \/ comp[<<n, c>>] \notin StepTerminal
    \/ s \in StepTerminal
    \/ <<n, c>> \notin fresh
    \/ comp[<<n, c>>] = "aborted" /\ s = "pending"

\* updated_at = now(); it matters only while the row is terminal.
Touched(n, c, s) ==
    IF s \in StepTerminal THEN fresh \cup {<<n, c>>} ELSE fresh \ {<<n, c>>}

\* Mutant: an item that is there is never replaced.
MergedOnce(rows, a, last) ==
    [c \in Components |-> IF items[a][c] # NoRow THEN items[a][c] ELSE rows[<<last[c], c>>]]

(***************************************************************************)
(* recomputeAggregate's item list: the rows of both names, merged by       *)
(* component.  The rows come back unordered, so where a component has one  *)
(* under each name, "last" picks the one that is merged last.              *)
(***************************************************************************)
Merged(rows, a, last) ==
    [c \in Components |->
        IF rows[<<last[c], c>>] # NoRow THEN rows[<<last[c], c>>]
        ELSE LET seen == {rows[<<n, c>>] : n \in Aliases(a)} \ {NoRow}
             IN  IF seen = {} THEN items[a][c] ELSE CHOOSE s \in seen : TRUE]

Recompute(rows, a) ==
    IF Recorded(rows, a) = {}
    THEN UNCHANGED <<col, items>>
    ELSE /\ col' = [col EXCEPT ![a] = AggregateStatus(Recorded(rows, a))]
         /\ \E last \in [Components -> Aliases(a)] :
               items' = [items EXCEPT ![a] = Merged(rows, a, last)]

-----------------------------------------------------------------------------
(***************************************************************************)
(* updateStepTx: UpdateStep, UpdateComponentStatus, UpdateStepWithHistory. *)
(* "entry" is the step name of the history entry the caller appends.       *)
(***************************************************************************)

\* Mutant: a componentless write always lands on the aggregate's column.
OwnColumnAlways(n, c, a) ==
    c = Whole /\ n = a

\* A componentless write to the aggregate itself, before any component has
\* reported, lands on the aggregate's own column.
OwnColumn(n, c, a) ==
    c = Whole /\ n = a /\ Recorded(comp', a) = {}

\* The columns a write of name n reaches.
WriteColumns(n, c, s) ==
    IF c # Whole \/ n \in AggregateSteps
    THEN \/ \E a \in AggregateSteps :
               /\ RollsUpTo(n, a)
               /\ IF OwnColumn(n, c, a)
                  THEN col' = [col EXCEPT ![a] = s] /\ UNCHANGED items
                  ELSE Recompute(comp', a)
         \/ /\ \A a \in AggregateSteps : ~RollsUpTo(n, a)
            /\ UNCHANGED <<col, items>>
    ELSE /\ col' = IF n \in Steps THEN [col EXCEPT ![n] = s] ELSE col
         /\ UNCHANGED items

\* The configured step whose column the write brings up to date, if any.
Synced(n, c) ==
    IF c # Whole \/ n \in AggregateSteps
    THEN {a \in AggregateSteps : RollsUpTo(n, a)
             /\ (n = a \/ c # Whole)}
    ELSE {n} \cap Steps

UpdateStep(n, c, s, entry) ==
    /\ present
    /\ n \notin MarkerSteps /\ entry \notin MarkerSteps   \* GuardReservedStepWrite
    /\ GateAdmits(n, c, s)
    /\ comp' = [comp EXCEPT ![<<n, c>>] = s]
    /\ fresh' = Touched(n, c, s)
    /\ WriteColumns(n, c, s)
    /\ synced' = synced \cup Synced(n, c)
    /\ marker' = IF entry \in MarkerSteps THEN entry ELSE marker
    /\ UNCHANGED <<present, status, claimedFrom>>

\* SetComponentImageTag re-stamps the component's row and re-rolls the
\* aggregate; the row of the component step is preferred to the aggregate's.
SetComponentImageTag(a, c) ==
    /\ present
    /\ \E n \in Aliases(a) :
          /\ comp[<<n, c>>] # NoRow
          /\ n = a => comp[<<ComponentStep[a], c>>] = NoRow
          /\ fresh' = Touched(n, c, comp[<<n, c>>])
    /\ Recompute(comp, a)
    /\ synced' = synced \cup {a}
    /\ UNCHANGED <<present, status, claimedFrom, marker, comp>>

-----------------------------------------------------------------------------
(***************************************************************************)
(* The slip status and the claim.                                          *)
(***************************************************************************)

\* Mutant: the claim ends without a word in the history.
UpdateSlipStatusSilently(s) ==
    /\ present
    /\ status' = s
    /\ claimedFrom' = IF s \in SlipTerminal THEN Unclaimed ELSE claimedFrom
    /\ UNCHANGED <<present, marker, col, items, comp, fresh, synced>>

\* A terminal status ends the claim, and says so when there was one.
UpdateSlipStatus(s) ==
    /\ present
    /\ status' = s
    /\ IF s \in SlipTerminal
       THEN /\ claimedFrom' = Unclaimed
            /\ marker' = IF claimedFrom = Unclaimed THEN marker ELSE ReleaseMarker
       ELSE UNCHANGED <<claimedFrom, marker>>
    /\ UNCHANGED <<present, col, items, comp, fresh, synced>>

ClaimSlip(expected) ==
    /\ present
    /\ ClaimWrites(status, claimedFrom, RunInFlight, expected)
    /\ claimedFrom' = status
    /\ marker' = ClaimMarker
    /\ UNCHANGED <<present, status, col, items, comp, fresh, synced>>

ReleaseClaim ==
    /\ present
    /\ ReleaseWrites(claimedFrom, RunInFlight)
    /\ claimedFrom' = Unclaimed
    /\ marker' = ReleaseMarker
    /\ UNCHANGED <<present, status, col, items, comp, fresh, synced>>

-----------------------------------------------------------------------------
(***************************************************************************)
(* Whole-row writes.  initializeSlipForPush builds the row a push writes:  *)
(* in_progress, the first step running, everything else pending, and one   *)
(* pending item per component unless the push dispatches nothing.          *)
(***************************************************************************)
Seed(dispatches) ==
    /\ status' = "in_progress"
    /\ col' = [n \in Steps |-> IF n = PushParsed THEN "running" ELSE "pending"]
    /\ items' = [a \in AggregateSteps |->
                    [c \in Components |-> IF dispatches THEN "pending" ELSE NoRow]]
    /\ marker' = NoRow      \* state_history is replaced
    /\ synced' = {}

\* Create, and ResetSlipInPlace over a row that is gone.
Create(dispatches) ==
    /\ ~present
    /\ present' = TRUE
    /\ Seed(dispatches)
    /\ UNCHANGED <<claimedFrom, comp, fresh>>

\* ResetSlipInPlace over the row it locked: claimed_from is not among the
\* upserted columns, and the slip_component_states rows stay.
ResetSlipInPlace(dispatches) ==
    /\ present
    /\ ResetAllowed(claimedFrom)
    /\ Seed(dispatches)
    /\ UNCHANGED <<present, claimedFrom, comp, fresh>>

\* The columns of no row.
NoColumns == [n \in Steps |-> "pending"]
NoItems   == [a \in AggregateSteps |-> [c \in Components |-> NoRow]]
NoRows    == [k \in Names \X Slots |-> NoRow]

\* Repave, as the superseded slip sees it: the guarded DELETE, then the
\* deletion of its component rows.
Repaved ==
    /\ present
    /\ status \in Repaveable
    /\ claimedFrom = Unclaimed
    /\ present' = FALSE
    /\ status' = "pending" /\ marker' = NoRow
    /\ col' = NoColumns /\ items' = NoItems
    /\ comp' = NoRows /\ fresh' = {} /\ synced' = {}
    /\ UNCHANGED claimedFrom

\* A terminal component row grows older than the freshness window.
Age ==
    /\ \E k \in fresh : fresh' = fresh \ {k}
    /\ UNCHANGED <<present, status, claimedFrom, marker, col, items, comp, synced>>

-----------------------------------------------------------------------------
Init ==
    /\ present = FALSE
    /\ status = "pending" /\ claimedFrom = Unclaimed /\ marker = NoRow
    /\ col = NoColumns /\ items = NoItems
    /\ comp = NoRows /\ fresh = {} /\ synced = {}

Next ==
    \/ \E dispatches \in BOOLEAN : Create(dispatches)
    \/ \E dispatches \in BOOLEAN : ResetSlipInPlace(dispatches)
    \/ \E k \in Reports, s \in StepWrites :
          \E entry \in {k[1]} \cup MarkerSteps : UpdateStep(k[1], k[2], s, entry)
    \/ \E a \in AggregateSteps, c \in Components : SetComponentImageTag(a, c)
    \/ \E s \in SlipWrites : UpdateSlipStatus(s)
    \/ \E e \in Expectations : ClaimSlip(e)
    \/ ReleaseClaim
    \/ Repaved
    \/ Age

Spec == Init /\ [][Next]_vars

\* The slip as every store must show it, and the promise kept: whatever is
\* called, its status, claim and marker move as SlipContract allows.
Contract == INSTANCE SlipContract WITH inFlight <- RunInFlight

ImplementsContract == Contract!Spec

-----------------------------------------------------------------------------
(***************************************************************************)
(* Invariants.                                                             *)
(***************************************************************************)
TypeOK ==
    /\ present \in BOOLEAN
    /\ status \in SlipStatuses
    /\ claimedFrom \in SlipStatuses \cup {Unclaimed}
    /\ marker \in MarkerSteps \cup {NoRow}
    /\ col \in [Steps -> StepStatuses]
    /\ items \in [AggregateSteps -> [Components -> StepStatuses \cup {NoRow}]]
    /\ comp \in [Names \X Slots -> StepStatuses \cup {NoRow}]
    /\ fresh \subseteq Names \X Slots
    /\ synced \subseteq Steps

\* The two readers of a claim agree: claimed_from is set exactly when the
\* newest marker in state_history is slip_claimed.  A claim that outlives its
\* marker is invisible to pushhookparser, a marker that outlives its claim
\* names a claimant that holds nothing.
ClaimMarkerAgrees ==
    claimedFrom # Unclaimed <=> marker = ClaimMarker

\* The status the store derives for a step from its component rows; a step
\* with no row has none.
Derived(n) ==
    IF n \in AggregateSteps /\ Recorded(comp, n) # {}
    THEN AggregateStatus(Recorded(comp, n))
    ELSE comp[<<n, Whole>>]

\* I5, as far as step writes keep it: the cached column of a step that was
\* written since the row was last written whole matches the component rows.
ColumnsMatchRows ==
    \A n \in synced : col[n] = Derived(n)

\* The claim decisions read columns and items, never the component rows.  No
\* running row of a step they may read is hidden from them, provided nobody
\* reports one component under both of an aggregate's names.
SingleName(a, c) ==
    \E n \in Aliases(a) : comp[<<n, c>>] = NoRow

NoHiddenWork ==
    \A a \in synced \cap AggregateSteps :
        (\A c \in Components : SingleName(a, c)) =>
            \A n \in Aliases(a), c \in Components :
                comp[<<n, c>>] \in StepRunning => items[a][c] \in StepRunning

-----------------------------------------------------------------------------
(***************************************************************************)
(* Action properties.                                                      *)
(***************************************************************************)

\* A claim ends in one of two ways: nothing was in flight, or the slip status
\* became terminal.  A failure or a recovery of the run never ends it.
ClaimEndsQuietly ==
    [][ claimedFrom # Unclaimed /\ claimedFrom' = Unclaimed
          => ~RunInFlight \/ status' \in SlipTerminal ]_vars

\* While a claim is held, no push takes the row away or writes it whole: the
\* slip stays, and no step that reported loses its report.
ClaimedRunSurvives ==
    [][ claimedFrom # Unclaimed => present' /\ synced \subseteq synced' ]_vars

\* A verdict sticks while it is fresh: no late "running" or "held" replaces a
\* terminal step column within the window, and only an aborted step goes back
\* to pending.  push_parsed is exempt, and so is a whole-row write.
FreshVerdictSticks ==
    [][ \A n \in (synced \cap synced') \ ({PushParsed} \cup AggregateSteps) :
          GateEnabled /\ <<n, Whole>> \in fresh
            => \/ col'[n] \in StepTerminal
               \/ col[n] = "aborted" /\ col'[n] = "pending" ]_vars
=============================================================================
