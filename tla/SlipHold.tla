------------------------------- MODULE SlipHold -------------------------------
(***************************************************************************)
(* Jobs of one slip: RunPreExecution, which holds its step until the       *)
(* prerequisites are met and then starts it, the workflow, and             *)
(* RunPostExecution.  A job waits by polling; between a poll and the write *)
(* it leads to, the other jobs and their completion checks run.            *)
(***************************************************************************)
EXTENDS SlipCompletion, PipelineConfig

CONSTANTS
    Setups   \* [config, jobs]: a pipeline, and each client's job in it

\* The statuses a job writes.
JobStatuses == {"held", "running", "aborted", "timeout", "completed", "failed"}

\* Every job reports on a step of the pipeline.
ASSUME SetupsAssumption ==
    /\ \A s \in Setups, p \in Clients : <<s.jobs[p].step, s.jobs[p].component>> \in Reports
    /\ JobStatuses \subseteq StepWrites

VARIABLES
    setup,   \* the pipeline and the jobs
    at,      \* where each job is
    expired, \* jobs whose hold deadline has passed
    left     \* (step, component) pairs a job left held when it gave up

holdVars == <<setup, at, expired, left>>
jobVars  == <<todo, verdict, allOrNone, skipping>>

\* [step, component, prerequisites]
Job(p) == setup.jobs[p]
Slot(p) == <<Job(p).step, Job(p).component>>
Prerequisites(p) == Job(p).prerequisites

Move(p, l) == at' = [at EXCEPT ![p] = l]

-----------------------------------------------------------------------------
(***************************************************************************)
(* CheckPrerequisites.                                                     *)
(***************************************************************************)

\* getPrereqStatus: for a component's job a component step is the component's
\* own item, any other name a step of the slip; an unknown one stays pending.
PrereqStatus(q, c) ==
    IF c # Whole /\ GetAggregateStep(setup.config, q) # {}
    THEN LET a == CHOOSE a \in GetAggregateStep(setup.config, q) : TRUE
         IN  IF items[a][c] = NoRow THEN "pending" ELSE items[a][c]
    ELSE IF q \in Steps THEN col[q] ELSE "pending"

PrereqStatuses(p) == {PrereqStatus(q, Job(p).component) : q \in Prerequisites(p)}

PrereqResult(p) ==
    IF PrereqStatuses(p) \cap StepFailure # {} THEN "failed"
    ELSE IF PrereqStatuses(p) \subseteq StepSuccess THEN "completed"
    ELSE "running"

-----------------------------------------------------------------------------
(***************************************************************************)
(* WaitForPrerequisites.                                                   *)
(***************************************************************************)
Ready(p, l) == at[p] = l /\ pc[p] = "idle"

\* A step write of the job, and what is left of the call that makes it.
JobWrites(p, s) ==
    /\ WriteStep(Job(p).step, Job(p).component, s, FALSE)
    /\ Resume(p, ChecksAfter(Job(p).component, s))
    /\ UNCHANGED <<jobVars, calls>>

\* ResolveSlip has found the slip; the step is held.  When the freshness gate
\* refuses, the job returns the error and nothing has happened.
Hold(p) ==
    /\ Ready(p, "idle") /\ Prerequisites(p) # {} /\ Counted
    /\ WriteStep(Job(p).step, Job(p).component, "held", FALSE)
    /\ Move(p, "poll")
    /\ left' = left \ {Slot(p)}
    /\ UNCHANGED <<pc, checks, jobVars, setup, expired>>

\* No prerequisites: the step is started at once.
Skip(p) ==
    /\ Ready(p, "idle") /\ Prerequisites(p) = {} /\ Counted /\ present
    /\ Move(p, "start")
    /\ UNCHANGED <<vars, canarySkips, pc, checks, jobVars, setup, expired, left>>

\* Mutant: a prerequisite that runs is waited for whatever the clock says.
PollForever(p) ==
    /\ Ready(p, "poll") /\ present
    /\ \/ PrereqResult(p) = "completed" /\ Move(p, "start")
       \/ PrereqResult(p) = "failed" /\ Move(p, "abort")
    /\ UNCHANGED <<allVars, setup, expired, left>>

\* One turn of the loop.  Running prerequisites are polled again until the
\* deadline, which is looked at after them.
Poll(p) ==
    /\ Ready(p, "poll") /\ present
    /\ \/ PrereqResult(p) = "completed" /\ Move(p, "start")
       \/ PrereqResult(p) = "failed" /\ Move(p, "abort")
       \/ PrereqResult(p) = "running" /\ p \in expired /\ Move(p, "timeout")
    /\ UNCHANGED <<allVars, setup, expired, left>>

\* The slip is gone, or the database does not answer.
PollFails(p) ==
    /\ Ready(p, "poll") /\ (~present \/ Faults)
    /\ Move(p, "idle")
    /\ expired' = expired \ {p}
    /\ left' = left \cup {Slot(p)}
    /\ UNCHANGED <<allVars, setup>>

\* The context ends in the middle of a wait: nothing is written.
Cancel(p) ==
    /\ Ready(p, "poll")
    /\ Move(p, "idle")
    /\ expired' = expired \ {p}
    /\ left' = left \cup {Slot(p)}
    /\ UNCHANGED <<allVars, setup>>

Deadline(p) ==
    /\ at[p] = "poll" /\ p \notin expired
    /\ expired' = expired \cup {p}
    /\ UNCHANGED <<allVars, setup, at, left>>

Over(p) == Move(p, "idle") /\ expired' = expired \ {p} /\ UNCHANGED setup

\* Mutant: the job leaves without a word about its step.
AbortUnwritten(p) ==
    /\ Ready(p, "abort")
    /\ Over(p) /\ UNCHANGED <<allVars, left>>

\* AbortStep and TimeoutStep, with the completion check of any step report.
AbortStep(p) ==
    /\ Ready(p, "abort")
    /\ JobWrites(p, "aborted")
    /\ Over(p) /\ UNCHANGED left

TimeoutStep(p) ==
    /\ Ready(p, "timeout")
    /\ JobWrites(p, "timeout")
    /\ Over(p) /\ UNCHANGED left

\* Either is best-effort: the job ends the same when the write fails.
GiveUpFails(p) ==
    /\ Faults /\ at[p] \in {"abort", "timeout"} /\ pc[p] = "idle"
    /\ left' = left \cup {Slot(p)}
    /\ Over(p) /\ UNCHANGED allVars

-----------------------------------------------------------------------------
(***************************************************************************)
(* The rest of RunPreExecution, the workflow, and RunPostExecution.        *)
(***************************************************************************)

\* StartStep does not look at the prerequisites again.
StartStep(p) ==
    /\ Ready(p, "start")
    /\ JobWrites(p, "running")
    /\ Move(p, "work")
    /\ expired' = expired \ {p}
    /\ UNCHANGED <<setup, left>>

\* The gate, or the database, refuses the start.
StartFails(p) ==
    /\ Ready(p, "start")
    /\ Faults \/ ~present \/ ~GateAdmits(Job(p).step, Job(p).component, "running")
    /\ left' = left \cup {Slot(p)}
    /\ Over(p) /\ UNCHANGED allVars

Report(p) ==
    /\ Ready(p, "work")
    /\ \E s \in {"completed", "failed"} :
          /\ WriteStep(Job(p).step, Job(p).component, s, FALSE)
          /\ Resume(p, ChecksAfter(Job(p).component, s) + 1)
    /\ Over(p)
    /\ UNCHANGED <<jobVars, calls, left>>

\* The job dies; what it wrote stays.
JobDies(p) ==
    /\ Faults /\ at[p] # "idle" /\ pc[p] = "idle"
    /\ left' = left \cup {Slot(p)}
    /\ Over(p) /\ UNCHANGED allVars

-----------------------------------------------------------------------------
HoldInit ==
    /\ RunInit
    /\ setup \in Setups
    /\ at = [p \in Clients |-> "idle"]
    /\ expired = {} /\ left = {}

\* A job that has begun goes on.
Advance(p) ==
    \/ Poll(p) \/ AbortStep(p) \/ TimeoutStep(p)
    \/ StartStep(p) \/ StartFails(p) \/ Report(p)

HoldNext ==
    \/ (Open \/ Wait) /\ UNCHANGED holdVars
    \/ \E p \in Clients :
          \/ Proceed(p) /\ UNCHANGED holdVars
          \/ Hold(p) \/ Skip(p) \/ Advance(p)
          \/ PollFails(p) \/ Cancel(p) \/ Deadline(p) \/ GiveUpFails(p) \/ JobDies(p)

holdAll == <<allVars, holdVars>>

HoldSpec == HoldInit /\ [][HoldNext]_holdAll

\* A job that does not die goes on, and time passes.
FairHoldSpec ==
    HoldSpec /\ \A p \in Clients : WF_holdAll(Advance(p)) /\ WF_holdAll(Deadline(p))
                                   /\ WF_holdAll(Proceed(p) /\ UNCHANGED holdVars)

-----------------------------------------------------------------------------
(***************************************************************************)
(* Properties.                                                             *)
(***************************************************************************)
Waiting == {"poll", "abort", "timeout", "start"}

\* Every variable has the type the code gives it.
HoldTypeOK ==
    /\ RunTypeOK
    /\ setup \in Setups
    /\ at \in [Clients -> {"idle", "work"} \cup Waiting]
    /\ expired \subseteq Clients
    /\ left \subseteq Names \X Slots

\* A held step, which keeps a claim from being released and an aggregate from
\* completing, is somebody's: a job waits to decide it, or one gave up without
\* being able to write.
HeldHasWaiter ==
    \A k \in Names \X Slots :
        comp[k] = "held" =>
            k \in left \/ \E p \in Clients : Slot(p) = k /\ at[p] \in Waiting

\* The calls, the jobs and the steps they hold.
HoldInv == HoldTypeOK /\ HeldHasWaiter

\* The steps of the pipeline a name a job reports on belongs to: the step of
\* that name, or the aggregate that rolls it up.
StepsOf(cfg, name) == {i \in DOMAIN cfg : name \in {cfg[i].name, cfg[i].aggregates}}

\* The pipeline was validated, and a job passes no other prerequisites than
\* GetEffectivePrerequisites gives its step; a component's job those of the
\* aggregate, by the name of the step or of its components' step.
WaitsAreConfigured ==
    \A s \in Setups :
        /\ s.config \in Configs /\ Validate(s.config) /\ GatesInOrder(s.config)
        /\ \A p \in Clients :
              /\ StepsOf(s.config, s.jobs[p].step) # {}
              /\ \A q \in s.jobs[p].prerequisites :
                    \A i \in StepsOf(s.config, s.jobs[p].step), j \in StepsOf(s.config, q) :
                        s.config[j].name \in GetEffectivePrerequisites(s.config, s.config[i].name)

\* No set of held steps waits for itself: each of them has a prerequisite in
\* it, so that none could ever start.
NoCircularWait ==
    ~ \E S \in (SUBSET {p \in Clients : at[p] = "poll"}) \ {{}} :
        \A p \in S : \E q \in S : Job(q).step \in Prerequisites(p)

\* Every wait ends, at the latest with its deadline.
EveryWaitEnds == \A p \in Clients : at[p] \in Waiting ~> at[p] \notin Waiting

-----------------------------------------------------------------------------
\* STATE_MACHINE_V3.md: aborted steps are reset to pending when the last primary
\* failure resolves.  Asked when everyone has finished: no step of a live slip
\* without a primary failure is aborted.
NoStrandedAbort ==
    AllIdle /\ (\A p \in Clients : at[p] = "idle") /\ status = "in_progress" /\ PrimaryFailures = {}
        => CascadeFailures = {}
=============================================================================
