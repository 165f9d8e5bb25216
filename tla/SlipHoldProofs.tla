---------------------------- MODULE SlipHoldProofs ----------------------------
(***************************************************************************)
(* Proofs about SlipHold, for any pipelines, any jobs and any number of    *)
(* them: what a job writes is a transaction of the store, so SlipStore's   *)
(* theorems hold of the slip the jobs share; and a held step is somebody's.*)
(***************************************************************************)
EXTENDS SlipHold, SlipCompletionProofs, Sequences, WellFoundedInduction

\* The jobs' own variables.
PlaceOK ==
    /\ setup \in Setups
    /\ at \in [Clients -> {"idle", "work"} \cup Waiting]
    /\ expired \subseteq Clients
    /\ left \subseteq Names \X Slots

LEMMA SlotIsReported ==
    ASSUME setup \in Setups, NEW p \in Clients
    PROVE  Slot(p) \in Reports /\ Slot(p) \in Names \X Slots
BY SetupsAssumption, WritesAssumption DEF Slot, Job

-----------------------------------------------------------------------------
(***************************************************************************)
(* What each kind of step does to the slip and to the call in progress.    *)
(***************************************************************************)

\* The steps of a job that write nothing to the slip.
Silent(p) ==
    \/ Skip(p) \/ Poll(p) \/ PollFails(p) \/ Cancel(p) \/ Deadline(p)
    \/ GiveUpFails(p) \/ StartFails(p) \/ JobDies(p)

\* The steps that write the status s of the job's step.
Writes(p, s) ==
    \/ s = "held" /\ Hold(p)
    \/ s = "aborted" /\ AbortStep(p)
    \/ s = "timeout" /\ TimeoutStep(p)
    \/ s = "running" /\ StartStep(p)
    \/ /\ s \in {"completed", "failed"}
       /\ Report(p)
       /\ WriteStep(Job(p).step, Job(p).component, s, FALSE)
       /\ Resume(p, ChecksAfter(Job(p).component, s) + 1)

\* Every step is the database's, a call's, or one of these.
LEMMA HoldSteps ==
    ASSUME [HoldNext]_holdAll
    PROVE  \/ (Open \/ Wait) /\ UNCHANGED holdVars
           \/ UNCHANGED holdAll
           \/ \E p \in Clients :
                 \/ Proceed(p) /\ UNCHANGED holdVars
                 \/ Silent(p)
                 \/ \E s \in JobStatuses : Writes(p, s)
<1>1. ASSUME NEW p \in Clients, Report(p)
      PROVE  \E s \in JobStatuses : Writes(p, s)
  <2>1. PICK s \in {"completed", "failed"} :
               /\ WriteStep(Job(p).step, Job(p).component, s, FALSE)
               /\ Resume(p, ChecksAfter(Job(p).component, s) + 1)
    BY <1>1 DEF Report
  <2>2. Writes(p, s)
    BY <1>1, <2>1 DEF Writes
  <2> QED
    BY <2>2 DEF JobStatuses
<1>2. ASSUME NEW p \in Clients,
             Hold(p) \/ AbortStep(p) \/ TimeoutStep(p) \/ StartStep(p)
      PROVE  \E s \in JobStatuses : Writes(p, s)
  BY <1>2 DEF Writes, JobStatuses
<1> QED
  BY <1>1, <1>2 DEF HoldNext, Advance, Silent

LEMMA JobWritesStep ==
    ASSUME NEW p \in Clients, NEW s \in JobStatuses, Writes(p, s)
    PROVE  /\ WriteStep(Job(p).step, Job(p).component, s, FALSE)
           /\ UNCHANGED setup
BY DEF Writes, Hold, AbortStep, TimeoutStep, StartStep, JobWrites, Report, Over, JobStatuses

LEMMA SilentLeavesSlip ==
    ASSUME NEW p \in Clients, Silent(p)
    PROVE  /\ UNCHANGED <<vars, canarySkips, pc, checks, todo, verdict, allOrNone, skipping, setup>>
           /\ calls' = calls \/ Counted
BY DEF Silent, Skip, Poll, PollFails, Cancel, Deadline, GiveUpFails, StartFails, JobDies,
       Over, jobVars, allVars, callVars

-----------------------------------------------------------------------------
(***************************************************************************)
(* The jobs implement the store.                                           *)
(***************************************************************************)
LEMMA HoldCallsInductive == HoldSpec => [](CallInv /\ setup \in Setups)
<1>1. HoldInit => CallInv /\ setup \in Setups
  BY CallsAssumption DEF HoldInit, RunInit, CallInv, CallTypeOK, PcOK
<1>2. CallInv /\ setup \in Setups /\ [HoldNext]_holdAll => (CallInv /\ setup \in Setups)'
  <2> SUFFICES ASSUME CallInv, setup \in Setups, [HoldNext]_holdAll
               PROVE  CallInv' /\ setup' = setup
    OBVIOUS
  <2>1. CASE (Open \/ Wait) /\ UNCHANGED holdVars
    BY <2>1 DEF Open, Wait, holdVars, callVars, CallInv, CallTypeOK, PcOK
  <2>2. CASE UNCHANGED holdAll
    BY <2>2 DEF holdAll, allVars, holdVars, callVars, CallInv, CallTypeOK, PcOK
  <2>3. ASSUME NEW p \in Clients, Proceed(p), UNCHANGED holdVars
        PROVE  CallInv' /\ setup' = setup
    BY <2>3, ProceedKeepsCalls DEF holdVars
  <2>4. Counted => calls' \in 0..MaxCalls
    BY CallsAssumption DEF Counted, CallInv, CallTypeOK
  <2>5. ASSUME NEW p \in Clients, Silent(p)
        PROVE  CallInv' /\ setup' = setup
    <3>1. /\ UNCHANGED <<canarySkips, pc, checks, todo, verdict, allOrNone, skipping, setup>>
          /\ calls' \in 0..MaxCalls
      BY <2>4, <2>5, SilentLeavesSlip DEF CallInv, CallTypeOK
    <3> QED
      BY <3>1 DEF CallInv, CallTypeOK, PcOK
  <2>6. ASSUME NEW p \in Clients, NEW s \in JobStatuses, Writes(p, s)
        PROVE  CallInv' /\ setup' = setup
    <3> DEFINE n == Job(p).step
               c == Job(p).component
    <3>1. WriteStep(n, c, s, FALSE) /\ setup' = setup
      BY <2>6, JobWritesStep
    <3>2. /\ UNCHANGED <<todo, verdict, allOrNone, skipping>>
          /\ calls' \in 0..MaxCalls
      BY <2>4, <2>6 DEF Writes, Hold, AbortStep, TimeoutStep, StartStep, JobWrites, Report,
                       jobVars, CallInv, CallTypeOK
    <3>3. \/ Resume(p, ChecksAfter(c, s))
          \/ Resume(p, ChecksAfter(c, s) + 1)
          \/ UNCHANGED <<pc, checks>>
      BY <2>6 DEF Writes, Hold, AbortStep, TimeoutStep, StartStep, JobWrites
    <3> HIDE DEF n, c
    <3> QED
      BY <3>1, <3>2, <3>3, ReportKeepsCalls
  <2> QED
    BY <2>1, <2>2, <2>3, <2>5, <2>6, HoldSteps
<1> QED
  BY <1>1, <1>2, PTL DEF HoldSpec

\* Every step of every job is one transaction of the store or none, so each
\* theorem about SlipStore holds of the slip that waiting jobs share.
THEOREM JobsUseTheStore == HoldSpec => Spec
<1>1. HoldInit => Init
  BY DEF HoldInit, RunInit
<1>2. CallInv /\ setup \in Setups /\ [HoldNext]_holdAll => [Next]_vars
  <2> SUFFICES ASSUME CallInv, setup \in Setups, [HoldNext]_holdAll PROVE [Next]_vars
    OBVIOUS
  <2>1. Open \/ Wait => Next
    BY DEF Open, Wait, Next
  <2>2. UNCHANGED holdAll => UNCHANGED vars
    BY DEF holdAll, allVars
  <2>3. ASSUME NEW p \in Clients, NEW s \in JobStatuses, Writes(p, s)
        PROVE  Next
    <3>1. WriteStep(Job(p).step, Job(p).component, s, FALSE)
      BY <2>3, JobWritesStep
    <3>2. <<Job(p).step, Job(p).component>> \in Reports /\ s \in StepWrites
      BY SlotIsReported, SetupsAssumption DEF Slot
    <3> QED
      BY <3>1, <3>2, WriteStepIsStored
  <2> QED
    BY <2>1, <2>2, <2>3, HoldSteps, ProceedIsStored, SilentLeavesSlip
<1> QED
  BY <1>1, <1>2, HoldCallsInductive, PTL DEF HoldSpec, Spec

-----------------------------------------------------------------------------
(***************************************************************************)
(* A held step is somebody's.                                              *)
(***************************************************************************)
LEMMA PlaceInductive == HoldSpec => []PlaceOK
<1>1. HoldInit => PlaceOK
  BY DEF HoldInit, PlaceOK
<1>2. PlaceOK /\ [HoldNext]_holdAll => PlaceOK'
  <2> SUFFICES ASSUME PlaceOK, [HoldNext]_holdAll PROVE PlaceOK'
    OBVIOUS
  <2>1. \A p \in Clients : Slot(p) \in Names \X Slots
    BY SlotIsReported DEF PlaceOK
  <2>2. UNCHANGED holdVars => PlaceOK'
    BY DEF holdVars, PlaceOK
  <2>3. ASSUME NEW p \in Clients, Silent(p) \/ \E s \in JobStatuses : Writes(p, s)
        PROVE  PlaceOK'
    <3>1. setup' = setup
      BY <2>3, SilentLeavesSlip, JobWritesStep
    <3>2. /\ \/ at' = at
             \/ \E l \in {"idle", "work"} \cup Waiting : Move(p, l)
          /\ expired' \in {expired, expired \cup {p}, expired \ {p}}
          /\ left' \in {left, left \cup {Slot(p)}, left \ {Slot(p)}}
      BY <2>3 DEF Silent, Skip, Poll, PollFails, Cancel, Deadline, GiveUpFails, StartFails,
                  JobDies, Writes, Hold, AbortStep, TimeoutStep, StartStep, Report, Over, Waiting
    <3> QED
      BY <2>1, <3>1, <3>2 DEF PlaceOK, Move
  <2> QED
    BY <2>2, <2>3, HoldSteps DEF holdAll
<1> QED
  BY <1>1, <1>2, PTL DEF HoldSpec

\* A step that is held and was not before is the step a job has just held.
LEMMA OnlyHoldHolds ==
    ASSUME TypeOK, CallInv, NEW p \in Clients, Proceed(p),
           NEW k \in Names \X Slots, comp'[k] = "held"
    PROVE  comp[k] = "held"
<1>1. ASSUME NEW n, NEW c, NEW s, NEW b, s # "held", WriteStep(n, c, s, b)
      PROVE  comp[k] = "held"
  <2>1. comp' = [comp EXCEPT ![<<n, c>>] = s]
    BY <1>1 DEF WriteStep, UpdateStep
  <2> QED
    BY <1>1, <2>1 DEF TypeOK
<1>2. ASSUME NEW v, UpdateSlipStatus(v) PROVE comp' = comp
  BY <1>2 DEF UpdateSlipStatus
<1>3. ASSUME SkipStepWrite(p) PROVE comp[k] = "held"
  <2>1. WriteStep(skipping[p][1], Whole, "skipped", skipping[p][2])
    BY <1>3 DEF SkipStepWrite
  <2> QED
    BY <1>1, <2>1
<1>4. ASSUME NEW n \in Steps, ResetStep(p, n) PROVE comp[k] = "held"
  <2>1. WriteStep(n, Whole, "pending", FALSE)
    BY <1>4 DEF ResetStep
  <2> QED
    BY <1>1, <2>1
<1>5. ASSUME \/ CloseWrite(p) \/ CompletionLoad(p)
             \/ \E n \in Steps : ResetFails(p, n)
             \/ Conclude(p) \/ ConcludeFails(p)
      PROVE  comp' = comp
  BY <1>2, <1>5 DEF CloseWrite, CompletionLoad, ResetFails, Conclude, ConcludeFails, vars
<1> QED
  BY <1>3, <1>4, <1>5 DEF Proceed

LEMMA HeldInductive == HoldSpec => []HeldHasWaiter
<1>1. HoldInit => HeldHasWaiter
  BY DEF HoldInit, RunInit, Init, NoRows, NoRow, HeldHasWaiter
<1>2. /\ TypeOK /\ CallInv /\ PlaceOK /\ HeldHasWaiter /\ [HoldNext]_holdAll
      => HeldHasWaiter'
  <2> SUFFICES ASSUME TypeOK, CallInv, PlaceOK, HeldHasWaiter, [HoldNext]_holdAll,
                      NEW k \in Names \X Slots, comp'[k] = "held",
                      k \notin left'
               PROVE  \E q \in Clients : <<setup'.jobs[q].step, setup'.jobs[q].component>> = k
                                         /\ at'[q] \in Waiting
    BY DEF HeldHasWaiter, Slot, Job
  <2> DEFINE Waits(q) == Slot(q) = k /\ at[q] \in Waiting
  <2>1. comp[k] = "held" /\ k \notin left => \E q \in Clients : Waits(q)
    BY DEF HeldHasWaiter
  <2>2. UNCHANGED setup => \A q \in Clients :
           <<setup'.jobs[q].step, setup'.jobs[q].component>> = Slot(q)
    BY DEF Slot, Job
  <2>3. CASE UNCHANGED holdVars /\ comp[k] = "held"
    BY <2>1, <2>2, <2>3 DEF holdVars
  <2>4. ASSUME NEW p \in Clients, Silent(p)
        PROVE  \E q \in Clients : Slot(q) = k /\ at'[q] \in Waiting
    <3>1. comp' = comp
      BY <2>4, SilentLeavesSlip DEF vars
    <3>2. /\ left' \in {left, left \cup {Slot(p)}}
          /\ \A q \in Clients \ {p} : at'[q] = at[q]
          /\ at[p] \in Waiting => at'[p] \in Waiting \/ left' = left \cup {Slot(p)}
      BY <2>4 DEF Silent, Skip, Poll, PollFails, Cancel, Deadline, GiveUpFails, StartFails,
                  JobDies, Over, Move, Ready, Waiting, PlaceOK
    <3>3. PICK q \in Clients : Waits(q)
      BY <2>1, <3>1, <3>2
    <3> QED
      BY <3>2, <3>3
  <2>5. ASSUME NEW p \in Clients, NEW s \in JobStatuses, Writes(p, s)
        PROVE  \E q \in Clients : Slot(q) = k /\ at'[q] \in Waiting
    <3>1. comp' = [comp EXCEPT ![Slot(p)] = s]
      BY <2>5, JobWritesStep DEF WriteStep, UpdateStep, Slot
    <3>2. \A q \in Clients \ {p} : at'[q] = at[q]
      BY <2>5 DEF Writes, Hold, AbortStep, TimeoutStep, StartStep, Report, Over, Move, PlaceOK
    <3>3. CASE Slot(p) = k
      <4>1. s = "held"
        BY <3>1, <3>3 DEF TypeOK
      <4>2. at'[p] \in Waiting
        BY <2>5, <4>1 DEF Writes, Hold, Move, Waiting, PlaceOK
      <4> QED
        BY <3>3, <4>2
    <3>4. CASE Slot(p) # k
      <4>1. comp[k] = "held"
        BY <3>1, <3>4 DEF TypeOK
      <4>2. k \notin left
        BY <2>5, <3>4 DEF Writes, Hold, AbortStep, TimeoutStep, StartStep, Report
      <4>3. PICK q \in Clients : Waits(q)
        BY <2>1, <4>1, <4>2
      <4> QED
        BY <3>2, <3>4, <4>3
    <3> QED
      BY <3>3, <3>4
  <2>6. ASSUME NEW p \in Clients, Silent(p) \/ \E s \in JobStatuses : Writes(p, s)
        PROVE  UNCHANGED setup
    BY <2>6, SilentLeavesSlip, JobWritesStep
  <2>7. Open \/ Wait => comp' = comp
    BY DEF Open, Wait, Create, Age
  <2>8. UNCHANGED holdAll => UNCHANGED <<comp, holdVars>>
    BY DEF holdAll, allVars, vars
  <2>9. ASSUME NEW p \in Clients, Proceed(p) PROVE comp[k] = "held"
    BY <2>9, OnlyHoldHolds
  <2> QED
    BY <2>2, <2>3, <2>4, <2>5, <2>6, <2>7, <2>8, <2>9, HoldSteps
<1> QED
  BY <1>1, <1>2, JobsUseTheStore, TypeCorrect, HoldCallsInductive, PlaceInductive, PTL DEF HoldSpec

\* A held step never waits for nobody: however the jobs poll, time out, are
\* cancelled and die between each other's writes, a job waits to decide it, or
\* one left it behind when it could not write.
THEOREM HeldIsSomebodys == HoldSpec => []HoldInv
<1>1. TypeOK /\ CallInv /\ PlaceOK /\ HeldHasWaiter => HoldInv
  BY WritesAssumption DEF CallInv, CallTypeOK, RunTypeOK, PlaceOK, HoldTypeOK, HoldInv
<1> QED
  BY <1>1, JobsUseTheStore, TypeCorrect, HoldCallsInductive, PlaceInductive, HeldInductive, PTL

-----------------------------------------------------------------------------
(***************************************************************************)
(* Nobody waits in a circle.                                               *)
(***************************************************************************)

LEMMA SmallestIndex ==
    ASSUME NEW S \in SUBSET Nat, S # {}
    PROVE  \E m \in S : \A k \in S : ~(k < m)
<1> DEFINE R == OpToRel(<, Nat)
<1>1. IsWellFoundedOn(R, Nat)
  BY NatLessThanWellFounded
<1>2. PICK m \in S : \A k \in S : <<k, m>> \notin R
  BY <1>1, WFMin, Zenon
<1>3. ASSUME NEW k \in S PROVE ~(k < m)
  BY <1>2, k \in Nat, m \in Nat DEF OpToRel
<1> QED
  BY <1>3

LEMMA IndicesAreNatural ==
    ASSUME NEW cfg \in Configs
    PROVE  DOMAIN cfg \in SUBSET Nat
BY DEF Configs

LEMMA Before ==
    ASSUME NEW a \in Nat, NEW b \in Nat, NEW c \in Nat, a < b, b = c \/ b < c
    PROVE  a < c
OBVIOUS

\* A step states the other as a prerequisite, or the other is a gate that
\* comes before it.
LEMMA EffectivePrerequisite ==
    ASSUME NEW cfg, cfg \in Configs, Validate(cfg),
           NEW i \in DOMAIN cfg, NEW j \in DOMAIN cfg,
           cfg[j].name \in GetEffectivePrerequisites(cfg, cfg[i].name)
    PROVE  cfg[j].name \in cfg[i].prerequisites \/ (cfg[j].isGate /\ j < i)
<1>. DOMAIN cfg = 1..Len(cfg) /\ Len(cfg) \in Nat
  BY DEF Configs
<1>1. \A k, l \in DOMAIN cfg : cfg[k].name = cfg[l].name => k = l
  BY Zenon DEF Validate, ValidIdentifiers, GeneratedColumns
<1>2. PICK k \in DOMAIN cfg :
        /\ cfg[k].name = cfg[i].name
        /\ cfg[j].name \in cfg[k].prerequisites
                             \cup {cfg[l].name : l \in {g \in 1..(k - 1) : cfg[g].isGate}}
  BY DEF GetEffectivePrerequisites
<1>3. k = i
  BY <1>1, <1>2
<1>4. CASE \E l \in 1..(i - 1) : cfg[l].isGate /\ cfg[j].name = cfg[l].name
  <2>1. PICK l \in 1..(i - 1) : cfg[l].isGate /\ cfg[j].name = cfg[l].name
    BY <1>4
  <2>2. l \in DOMAIN cfg /\ l < i
    OBVIOUS
  <2>3. l = j
    BY <1>1, <2>1, <2>2
  <2> QED
    BY <2>1, <2>2, <2>3
<1> QED
  BY <1>2, <1>3, <1>4

\* In a validated pipeline whose gates are in order no set of steps waits for
\* itself, the gates' part in it included.
LEMMA NoCircleWithGates ==
    ASSUME NEW cfg, cfg \in Configs, Validate(cfg), GatesInOrder(cfg),
           NEW T \in SUBSET DOMAIN cfg, T # {},
           \A i \in T : \E j \in T :
               cfg[j].name \in GetEffectivePrerequisites(cfg, cfg[i].name)
    PROVE  FALSE
<1>. DOMAIN cfg = 1..Len(cfg) /\ Len(cfg) \in Nat
  BY DEF Configs
<1> DEFINE States(i, j) == cfg[j].name \in cfg[i].prerequisites
           Gates == {i \in T : cfg[i].isGate}
<1>1. \A i \in T : \E j \in T : States(i, j) \/ (cfg[j].isGate /\ j < i)
  BY EffectivePrerequisite
<1>2. ASSUME NEW S \in SUBSET DOMAIN cfg, S # {},
             \A i \in S : \E j \in S : States(i, j)
      PROVE  FALSE
  BY <1>2 DEF Validate, Circular
<1>3. CASE Gates = {}
  BY <1>1, <1>2, <1>3
<1>4. CASE Gates # {}
  <2>1. PICK g \in Gates : \A k \in Gates : ~(k < g)
    <3>1. Gates \in SUBSET Nat
      OBVIOUS
    <3> HIDE DEF Gates
    <3> QED
      BY <1>4, <3>1, SmallestIndex
  <2>2. PICK S \in SUBSET {i \in DOMAIN cfg : i < g} :
            \A i \in S \cup {g}, j \in DOMAIN cfg : States(i, j) => j \in S
    BY <2>1 DEF GatesInOrder
  <2> DEFINE C == T \cap (S \cup {g})
  <2>3. ASSUME NEW i \in C PROVE \E j \in C : States(i, j)
    <3>1. PICK j \in T : States(i, j) \/ (cfg[j].isGate /\ j < i)
      BY <1>1
    <3>2. ~(cfg[j].isGate /\ j < i)
      <4>1. i \in Nat /\ j \in Nat /\ g \in Nat
        <5>1. i \in DOMAIN cfg /\ j \in DOMAIN cfg /\ g \in DOMAIN cfg
          OBVIOUS
        <5>2. DOMAIN cfg \in SUBSET Nat
          BY IndicesAreNatural
        <5> QED
          BY <5>1, <5>2, Zenon
      <4>2. i = g \/ i < g
        OBVIOUS
      <4>3. j < i => j < g
        BY <4>1, <4>2, Before
      <4>4. cfg[j].isGate => ~(j < g)
        BY <2>1
      <4> QED
        BY <4>3, <4>4
    <3> QED
      BY <2>2, <3>1, <3>2
  <2> QED
    BY <1>2, <2>1, <2>3
<1> QED
  BY <1>3, <1>4

\* Where pipelines are validated, their gates in order, and jobs pass the
\* prerequisites their pipeline gives them: no set of jobs holds its steps for
\* one another, so that only their deadlines could free them.
THEOREM WaitsAreAcyclic ==
    ASSUME WaitsAreConfigured
    PROVE  HoldSpec => []NoCircularWait
<1>1. HoldTypeOK => NoCircularWait
  <2> SUFFICES ASSUME setup \in Setups,
                      NEW S \in SUBSET Clients, S # {},
                      \A p \in S : \E q \in S : Job(q).step \in Prerequisites(p)
               PROVE  FALSE
    BY DEF HoldTypeOK, NoCircularWait
  <2> DEFINE cfg == setup.config
             T == UNION {StepsOf(cfg, Job(p).step) : p \in S}
  <2>1. cfg \in Configs /\ Validate(cfg) /\ GatesInOrder(cfg)
    BY DEF WaitsAreConfigured
  <2>2. \A p \in S : StepsOf(cfg, Job(p).step) # {}
    BY DEF WaitsAreConfigured, Job
  <2>3. T \in SUBSET DOMAIN cfg /\ T # {}
    BY <2>2 DEF StepsOf
  <2>4. ASSUME NEW i \in T
        PROVE  \E j \in T : cfg[j].name \in GetEffectivePrerequisites(cfg, cfg[i].name)
    <3>1. PICK p \in S : i \in StepsOf(cfg, Job(p).step)
      OBVIOUS
    <3>2. PICK q \in S : Job(q).step \in Prerequisites(p)
      OBVIOUS
    <3>3. PICK j : j \in StepsOf(cfg, Job(q).step)
      BY <2>2
    <3>4. cfg[j].name \in GetEffectivePrerequisites(cfg, cfg[i].name)
      BY <3>1, <3>2, <3>3 DEF WaitsAreConfigured, Job, Prerequisites
    <3> QED
      BY <3>3, <3>4
  <2> HIDE DEF T, cfg
  <2> QED
    BY <2>1, <2>3, <2>4, NoCircleWithGates
<1>2. HoldInv => HoldTypeOK
  BY DEF HoldInv
<1> QED
  BY <1>1, <1>2, HeldIsSomebodys, PTL
=============================================================================
