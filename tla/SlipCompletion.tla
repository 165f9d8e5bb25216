---------------------------- MODULE SlipCompletion ----------------------------
(***************************************************************************)
(* Clients calling one slip concurrently: step updates, RunPostExecution,  *)
(* SkipStep, AbandonSlip and PromoteSlip, over the store's transactions.   *)
(*                                                                         *)
(* A store transaction is atomic; a client call is not.  A call reads the  *)
(* slip in one transaction and writes what it concluded in later ones, and *)
(* other clients' calls run between them.                                  *)
(***************************************************************************)
EXTENDS SlipStore, Naturals

CONSTANTS
    Clients,      \* concurrent callers: CLI jobs, services, operators
    StepCalls,    \* <<step, component, status>> of UpdateStepWithStatus calls
    PostCalls,    \* the same, of RunPostExecution calls
    SkipCalls,    \* <<step, is the reason a canary's?>> of SkipStep calls
    CloseCalls,   \* the statuses AbandonSlip and PromoteSlip are called for
    Faults,       \* may a database call fail and a client die?
    MaxCalls      \* bound: client calls started

ProdCanary      == "prod_canary"
ProdSteadyState == "prod_steady_state"
CanarySkippable == {"prod_deploy", "prod_tests", "prod_alert_gate"}
SkipGuarded     == {"prod_canary", "preprod_rollback_test", "prod_deploy", "prod_tests"}

\* The statuses checkPipelineCompletion returns on at once.
Closed == {"completed", "abandoned", "promoted"}
NoWrite == "none"

ASSUME CallsAssumption ==
    /\ StepCalls \cup PostCalls \subseteq Steps \X Slots \X StepStatuses
    /\ \A k \in StepCalls \cup PostCalls : <<k[1], k[2]>> \in Reports /\ k[3] \in StepWrites
    /\ SkipCalls \subseteq Steps \X BOOLEAN
    /\ \A k \in SkipCalls : <<k[1], Whole>> \in Reports /\ "skipped" \in StepWrites
    /\ \A n \in Steps : <<n, Whole>> \in Reports
    /\ "pending" \in StepWrites
    /\ CloseCalls \subseteq {"abandoned", "promoted"} \cap SlipWrites
    /\ {"failed", "in_progress", "completed"} \subseteq SlipWrites
    /\ Faults \in BOOLEAN
    /\ MaxCalls \in Nat

VARIABLES
    pc,        \* where each client's call is
    checks,    \* completion checks its call has still to make
    todo,      \* steps its current check is about to reset to pending
    verdict,   \* the slip status its current check is about to write
    allOrNone, \* does a failed reset keep it from writing the status?
    skipping,  \* the SkipStep call whose guard it has passed
    canarySkips, \* steps whose latest history entry is a canary skip
    calls      \* calls started so far

callVars == <<pc, checks, todo, verdict, allOrNone, skipping, calls>>
allVars  == <<vars, callVars, canarySkips>>

AllIdle == \A p \in Clients : pc[p] = "idle"

NoSkip == <<>>

-----------------------------------------------------------------------------
(***************************************************************************)
(* Reading the slip.                                                       *)
(***************************************************************************)
PrimaryFailures == {n \in Steps : col[n] \in PrimaryFailure}
CascadeFailures == {n \in Steps : col[n] \in CascadeFailure}

CanarySkipsToReset ==
    IF ProdCanary \in Steps /\ col[ProdCanary] \in StepSuccess
    THEN {n \in CanarySkippable \cap Steps : col[n] = "skipped" /\ n \in canarySkips}
    ELSE {}

SteadyStateCompleted ==
    ProdSteadyState \in Steps /\ col[ProdSteadyState] = "completed"

-----------------------------------------------------------------------------
(***************************************************************************)
(* Moving a call on.                                                       *)
(***************************************************************************)

\* The next check of the call, or its return.
Resume(p, left) ==
    /\ pc' = [pc EXCEPT ![p] = IF left = 0 THEN "idle" ELSE "check"]
    /\ checks' = [checks EXCEPT ![p] = left]

Counted == calls < MaxCalls /\ calls' = calls + 1

\* The row and history write of updateStep; a history entry that is no
\* canary skip displaces one that was.
WriteStep(n, c, s, isCanarySkip) ==
    /\ UpdateStep(n, c, s, n)
    /\ canarySkips' = IF c # Whole THEN canarySkips
                      ELSE IF isCanarySkip THEN canarySkips \cup {n}
                      ELSE canarySkips \ {n}

\* Mutant: only a failure is looked at.
ChecksAfterFailure(c, s) == IF s \in StepFailure /\ c = Whole THEN 1 ELSE 0

\* updateStep checks for completion after a terminal pipeline-level status.
ChecksAfter(c, s) == IF s \in StepTerminal /\ c = Whole THEN 1 ELSE 0

(***************************************************************************)
(* UpdateStepWithStatus and the wrappers around it.  The write comes first *)
(* and reads nothing; when the store refuses it the call returns.          *)
(***************************************************************************)
UpdateStepWithStatus(p, n, c, s) ==
    /\ pc[p] = "idle" /\ Counted
    /\ WriteStep(n, c, s, FALSE)
    /\ Resume(p, ChecksAfter(c, s))
    /\ UNCHANGED <<todo, verdict, allOrNone, skipping>>

\* RunPostExecution: the step update, with its own check, and a second one.
RunPostExecution(p, n, c, s) ==
    /\ pc[p] = "idle" /\ Counted
    /\ WriteStep(n, c, s, FALSE)
    /\ Resume(p, ChecksAfter(c, s) + 1)
    /\ UNCHANGED <<todo, verdict, allOrNone, skipping>>

(***************************************************************************)
(* SkipStep.  The guard reads the slip before the write and is not atomic  *)
(* with it.                                                                *)
(***************************************************************************)

\* Mutant: the guard knows the canary only.
SkipGuardCanaryOnly(n) == n = ProdCanary => col[n] # "failed"

SkipGuardPassed(n) == n \in SkipGuarded => col[n] # "failed"

SkipStepGuard(p, n, isCanary) ==
    /\ pc[p] = "idle" /\ Counted
    /\ present /\ SkipGuardPassed(n)
    /\ pc' = [pc EXCEPT ![p] = "skip"]
    /\ skipping' = [skipping EXCEPT ![p] = <<n, isCanary>>]
    /\ UNCHANGED <<vars, canarySkips, checks, todo, verdict, allOrNone>>

SkipStepWrite(p) ==
    /\ pc[p] = "skip"
    /\ WriteStep(skipping[p][1], Whole, "skipped", skipping[p][2])
    /\ Resume(p, ChecksAfter(Whole, "skipped"))
    /\ skipping' = [skipping EXCEPT ![p] = NoSkip]
    /\ UNCHANGED <<todo, verdict, allOrNone, calls>>

(***************************************************************************)
(* AbandonSlip and PromoteSlip: refuse a slip read as terminal, then write *)
(* the status whatever it has become.                                      *)
(***************************************************************************)
CloseLoad(p, s) ==
    /\ pc[p] = "idle" /\ Counted
    /\ present /\ status \notin SlipTerminal
    /\ pc' = [pc EXCEPT ![p] = "close"]
    /\ verdict' = [verdict EXCEPT ![p] = s]
    /\ UNCHANGED <<vars, canarySkips, checks, todo, allOrNone, skipping>>

CloseWrite(p) ==
    /\ pc[p] = "close"
    /\ UpdateSlipStatus(verdict[p])
    /\ Resume(p, 0)
    /\ verdict' = [verdict EXCEPT ![p] = NoWrite]
    /\ UNCHANGED <<canarySkips, todo, allOrNone, skipping, calls>>

-----------------------------------------------------------------------------
(***************************************************************************)
(* checkPipelineCompletion.  The load decides everything: which steps go   *)
(* back to pending, which status is written, and whether a reset that      *)
(* fails keeps the status from being written.                              *)
(***************************************************************************)

\* Mutant: a primary failure puts the resets off.
DecideResetsLater(p, resets, write, strict) ==
    /\ todo' = [todo EXCEPT ![p] = IF write = "failed" THEN {} ELSE resets]
    /\ verdict' = [verdict EXCEPT ![p] = write]
    /\ allOrNone' = [allOrNone EXCEPT ![p] = strict]
    /\ pc' = [pc EXCEPT ![p] = "apply"]
    /\ UNCHANGED checks

Decide(p, resets, write, strict) ==
    /\ todo' = [todo EXCEPT ![p] = resets]
    /\ verdict' = [verdict EXCEPT ![p] = write]
    /\ allOrNone' = [allOrNone EXCEPT ![p] = strict]
    /\ pc' = [pc EXCEPT ![p] = "apply"]
    /\ UNCHANGED checks

CheckReturns(p) ==
    /\ Resume(p, checks[p] - 1)
    /\ UNCHANGED <<todo, verdict, allOrNone>>

\* Mutant: only completed is final.
BypassedWhenCompleted == status = "completed"

\* Late step events must not reopen a closed slip.
Bypassed == status \in Closed

CompletionLoad(p) ==
    /\ pc[p] = "check"
    /\ IF Bypassed
       THEN CheckReturns(p)
       ELSE IF PrimaryFailures # {}
       THEN Decide(p, CanarySkipsToReset, "failed", FALSE)
       ELSE IF SteadyStateCompleted
       THEN Decide(p, {}, "completed", FALSE)
       ELSE IF status = "failed"
       THEN Decide(p, CanarySkipsToReset \cup CascadeFailures, "in_progress", TRUE)
       ELSE Decide(p, CanarySkipsToReset, NoWrite, FALSE)
    /\ UNCHANGED <<vars, canarySkips, skipping, calls>>

\* resetStepsToPending, one step at a time in map order.
ResetStep(p, n) ==
    /\ pc[p] = "apply" /\ n \in todo[p]
    /\ WriteStep(n, Whole, "pending", FALSE)
    /\ todo' = [todo EXCEPT ![p] = @ \ {n}]
    /\ UNCHANGED <<pc, checks, verdict, allOrNone, skipping, calls>>

\* A reset the freshness gate refuses, or a database error.  It is logged;
\* under "all or none" it also drops the status write.
ResetFails(p, n) ==
    /\ pc[p] = "apply" /\ n \in todo[p]
    /\ Faults \/ ~GateAdmits(n, Whole, "pending")
    /\ todo' = [todo EXCEPT ![p] = @ \ {n}]
    /\ verdict' = [verdict EXCEPT ![p] = IF allOrNone[p] THEN NoWrite ELSE @]
    /\ UNCHANGED <<vars, canarySkips, pc, checks, allOrNone, skipping, calls>>

\* Mutant: a check that wrote something is made again.
CheckDoneAgain(p) ==
    /\ Resume(p, IF verdict[p] = NoWrite THEN checks[p] - 1 ELSE checks[p])
    /\ verdict' = [verdict EXCEPT ![p] = NoWrite]
    /\ UNCHANGED <<canarySkips, todo, allOrNone, skipping, calls>>

CheckDone(p) ==
    /\ Resume(p, checks[p] - 1)
    /\ verdict' = [verdict EXCEPT ![p] = NoWrite]
    /\ UNCHANGED <<canarySkips, todo, allOrNone, skipping, calls>>

Conclude(p) ==
    /\ pc[p] = "apply" /\ todo[p] = {}
    /\ IF verdict[p] = NoWrite THEN UNCHANGED vars ELSE UpdateSlipStatus(verdict[p])
    /\ CheckDone(p)

\* The status write fails: updateStep logs it, RunPostExecution returns it.
ConcludeFails(p) ==
    /\ Faults /\ pc[p] = "apply" /\ todo[p] = {}
    /\ UNCHANGED vars
    /\ CheckDone(p)

\* A client dies in the middle of a call; what it wrote stays.
Die(p) ==
    /\ Faults /\ pc[p] # "idle"
    /\ Resume(p, 0)
    /\ todo' = [todo EXCEPT ![p] = {}]
    /\ verdict' = [verdict EXCEPT ![p] = NoWrite]
    /\ skipping' = [skipping EXCEPT ![p] = NoSkip]
    /\ UNCHANGED <<vars, canarySkips, allOrNone, calls>>

\* The push that opened the slip.
Open ==
    /\ Create(TRUE)
    /\ UNCHANGED <<callVars, canarySkips>>

\* Time passes.
Wait ==
    /\ Age
    /\ UNCHANGED <<callVars, canarySkips>>

-----------------------------------------------------------------------------
RunInit ==
    /\ Init
    /\ pc = [p \in Clients |-> "idle"]
    /\ checks = [p \in Clients |-> 0]
    /\ todo = [p \in Clients |-> {}]
    /\ verdict = [p \in Clients |-> NoWrite]
    /\ allOrNone = [p \in Clients |-> FALSE]
    /\ skipping = [p \in Clients |-> NoSkip]
    /\ canarySkips = {}
    /\ calls = 0

\* A call that has begun goes on.
Proceed(p) ==
    \/ SkipStepWrite(p)
    \/ CloseWrite(p)
    \/ CompletionLoad(p)
    \/ \E n \in Steps : ResetStep(p, n) \/ ResetFails(p, n)
    \/ Conclude(p)
    \/ ConcludeFails(p)

RunNext ==
    \/ Open
    \/ \E p \in Clients :
          \/ \E k \in StepCalls : UpdateStepWithStatus(p, k[1], k[2], k[3])
          \/ \E k \in PostCalls : RunPostExecution(p, k[1], k[2], k[3])
          \/ \E k \in SkipCalls : SkipStepGuard(p, k[1], k[2])
          \/ \E s \in CloseCalls : CloseLoad(p, s)
          \/ Proceed(p)
          \/ Die(p)
    \/ Wait

RunSpec == RunInit /\ [][RunNext]_allVars

\* A caller that has begun a call finishes it, unless it dies.
FairSpec == RunSpec /\ \A p \in Clients : WF_allVars(Proceed(p))

-----------------------------------------------------------------------------
(***************************************************************************)
(* Properties.                                                             *)
(***************************************************************************)
RunTypeOK ==
    /\ TypeOK
    /\ pc \in [Clients -> {"idle", "check", "apply", "skip", "close"}]
    /\ checks \in [Clients -> 0..2]
    /\ todo \in [Clients -> SUBSET Steps]
    /\ verdict \in [Clients -> SlipStatuses \cup {NoWrite}]
    /\ allOrNone \in [Clients -> BOOLEAN]
    /\ skipping \in [Clients -> SkipCalls \cup {NoSkip}]
    /\ canarySkips \subseteq Steps
    /\ calls \in 0..MaxCalls

\* The slip is closed and no call still holds a verdict it reached before.
Settled == status \in Closed /\ \A p \in Clients : verdict[p] = NoWrite

\* I4, as far as the code keeps it: once a slip is closed and the calls that
\* had read it open are over, no call, early or late, changes its status.
ClosedIsFinal ==
    [][ Settled => status' = status /\ Settled' ]_allVars

\* I1 and I2 between calls: what the completion check leaves behind when calls
\* do not overlap.  A live slip has no primary failure; a failed one has a
\* primary failure, or a retry under way that has not reported, or a canary
\* skip whose reset the freshness gate refused.
VerdictMatchesSteps ==
    present /\ AllIdle =>
        /\ status = "in_progress" => PrimaryFailures = {}
        /\ status = "failed" => \/ PrimaryFailures # {}
                                \/ \E n \in Steps \ {PushParsed} : col[n] \in StepRunning
                                \/ CanarySkipsToReset # {}
        /\ status = "in_progress" => ~SteadyStateCompleted

\* Scenario H: no canary skip outlives the success of the canary.  Between
\* calls, an open slip whose prod_canary succeeded holds none, however the
\* canary's report and the skips interleave.
NoStaleCanarySkip ==
    AllIdle /\ status \notin Closed => CanarySkipsToReset = {}

\* A guarded failure is not skipped away, as long as no other call reports it
\* between SkipStep's read and its write.
GuardedFailureSticks ==
    [][ \A n \in SkipGuarded \cap Steps :
          col[n] = "failed" => col'[n] # "skipped" ]_allVars

\* Every call returns, whatever the gate refuses.
EveryCallReturns ==
    \A p \in Clients : pc[p] # "idle" ~> pc[p] = "idle"

-----------------------------------------------------------------------------
(***************************************************************************)
(* What the documentation says of concurrent calls, and the code does not  *)
(* keep.                                                                   *)
(***************************************************************************)

\* STATE_MACHINE_V3.md, I4: slip.status does not change after completed.
CompletedIsImmutable ==
    [][ status = "completed" => status' = "completed" ]_allVars
=============================================================================
