---------------------------- MODULE PipelineConfig ----------------------------
(***************************************************************************)
(* The pipeline configuration: a sequence of steps, the checks Validate    *)
(* makes of it and the lookups the rest of the package asks of it.         *)
(* Operators only.  The shape of an identifier is left out; a step's name  *)
(* stands for its lower-case form.                                         *)
(***************************************************************************)
LOCAL INSTANCE Integers
LOCAL INSTANCE Sequences

\* aggregates is "" for a step that rolls nothing up.
StepConfig(name, prerequisites, aggregates, isGate) ==
    [name |-> name, prerequisites |-> prerequisites, aggregates |-> aggregates, isGate |-> isGate]

\* PipelineConfig's list of steps.
Configs == Seq([name : STRING, prerequisites : SUBSET STRING, aggregates : STRING, isGate : BOOLEAN])

\* fixedSlipColumns, the claim and the columns of the removed schema.
ReservedStepNames ==
    {"correlation_id", "repository", "branch", "commit_sha", "created_at", "updated_at",
     "status", "step_details", "state_history", "claimed_from", "sign", "version", "ancestry"}

ReservedMarkerSteps == {"slip_claimed", "slip_released"}

\* The routing_slips columns a step makes.
GeneratedColumns(step) ==
    {<<step.name, "status">>} \cup (IF step.aggregates = "" THEN {} ELSE {<<step.name>>})

StepNames(cfg) == {cfg[i].name : i \in DOMAIN cfg}

\* Mutant: nothing is looked for.
NeverCircular(cfg) == FALSE

\* detectCircularDependencies follows the prerequisites a step states: some
\* steps wait for each other in a circle.
Circular(cfg) ==
    \E S \in SUBSET (DOMAIN cfg) :
        S # {} /\ \A i \in S : \E j \in S : cfg[j].name \in cfg[i].prerequisites

ValidIdentifiers(cfg) ==
    /\ StepNames(cfg) \cap (ReservedStepNames \cup ReservedMarkerSteps) = {}
    /\ \A i, j \in DOMAIN cfg :
          i # j => GeneratedColumns(cfg[i]) \cap GeneratedColumns(cfg[j]) = {}

Validate(cfg) ==
    /\ cfg # <<>>
    /\ cfg[1].prerequisites = {}
    /\ ValidIdentifiers(cfg)
    /\ \A i \in DOMAIN cfg : cfg[i].prerequisites \subseteq StepNames(cfg)
    /\ ~Circular(cfg)
    /\ \A i, j \in DOMAIN cfg :
          i # j /\ cfg[i].aggregates # "" => cfg[i].aggregates # cfg[j].aggregates

(***************************************************************************)
(* Lookups.                                                                *)
(***************************************************************************)
AggregateStepsOf(cfg) == {cfg[i].name : i \in {j \in DOMAIN cfg : cfg[j].aggregates # ""}}

\* The aggregate steps that roll a component step up: one, or none.
GetAggregateStep(cfg, name) ==
    {cfg[i].name : i \in {j \in DOMAIN cfg : cfg[j].aggregates = name /\ name # ""}}

\* The stated prerequisites, and every gate earlier in the order.
GetEffectivePrerequisites(cfg, name) ==
    UNION {cfg[i].prerequisites \cup {cfg[j].name : j \in {k \in 1..(i - 1) : cfg[k].isGate}}
           : i \in {k \in DOMAIN cfg : cfg[k].name = name}}

\* What Validate does not look for: everything a gate waits for, directly or
\* through what its prerequisites state, comes before it in the order.  A step
\* behind the gate would wait for the gate and the gate for it.
GatesInOrder(cfg) ==
    \A g \in DOMAIN cfg : cfg[g].isGate =>
        \E S \in SUBSET {i \in DOMAIN cfg : i < g} :
            \A i \in S \cup {g}, j \in DOMAIN cfg :
                cfg[j].name \in cfg[i].prerequisites => j \in S
=============================================================================
