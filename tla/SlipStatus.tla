------------------------------ MODULE SlipStatus ------------------------------
(***************************************************************************)
(* The pure vocabulary of the slippy package: slip and step statuses, the  *)
(* predicates the code asks of them, the aggregate roll-up rule, and the   *)
(* three decisions (claim, release, reset) that the store takes under the  *)
(* slip's row lock.  No state, no constants.                               *)
(***************************************************************************)

(***************************************************************************)
(* Slip statuses (status.go).  An ended slip is one IsLive() refuses.      *)
(***************************************************************************)
SlipStatuses == {"pending", "in_progress", "completed", "failed",
                 "compensating", "compensated", "abandoned", "promoted"}

SlipTerminal == {"completed", "compensated", "abandoned", "promoted"}

SlipLive(s) == s \notin SlipTerminal /\ s # "failed"

\* The status list Repave's guarded DELETE spells out in SQL, independently
\* of IsLive().
Repaveable == {"failed", "completed", "abandoned", "promoted", "compensated"}

\* claimed_from IS NULL OR claimed_from = ''
Unclaimed == ""

(***************************************************************************)
(* Step statuses (status.go).                                              *)
(***************************************************************************)
StepStatuses == {"pending", "held", "running", "completed", "failed",
                 "error", "aborted", "timeout", "skipped"}

StepTerminal == {"completed", "failed", "error", "aborted", "timeout", "skipped"}
StepSuccess  == {"completed", "skipped"}
StepFailure  == {"failed", "error", "aborted", "timeout"}
StepRunning  == {"running", "held"}

\* checkPipelineCompletion's classification: a step that failed by itself, as
\* opposed to one that was aborted because another one had failed.
PrimaryFailure == {"failed", "error", "timeout"}
CascadeFailure == {"aborted"}

(***************************************************************************)
(* computeAggregateStatus.  The rule looks at each status on its own, so   *)
(* the set of component statuses determines the result.                    *)
(***************************************************************************)
AggregateStatus(S) ==
    IF S \cap StepFailure # {}                     THEN "failed"
    ELSE IF S \subseteq StepSuccess                THEN "completed"
    ELSE IF S \cap (StepRunning \cup StepSuccess) # {} THEN "running"
    ELSE "pending"

(***************************************************************************)
(* The claim decisions (claim.go).  "inFlight" is RunInFlight of the row   *)
(* read under the lock; "expected" is the caller's status precondition.    *)
(***************************************************************************)

\* DecideClaim takes the claim; a claim that is there is kept, and both other
\* outcomes write nothing.
ClaimWrites(status, claimedFrom, inFlight, expected) ==
    /\ expected = {} \/ status \in expected
    /\ claimedFrom = Unclaimed
    /\ ~inFlight \/ status \in expected

\* Mutant: a release asks only whether there is a claim.
ReleaseWhateverRuns(claimedFrom, inFlight) ==
    claimedFrom # Unclaimed

\* DecideRelease: a held claim is let go only over a quiet run.
ReleaseWrites(claimedFrom, inFlight) ==
    claimedFrom # Unclaimed /\ ~inFlight

\* Mutant: the reset asks only that no run failed under the claim.
ResetOverLiveClaim(claimedFrom) ==
    claimedFrom # "failed"

\* DecideReset: any claim refuses the in-place reset, quiet or not.
ResetAllowed(claimedFrom) ==
    claimedFrom = Unclaimed

(***************************************************************************)
(* The state_history entries a claim and a release leave behind.           *)
(***************************************************************************)
NoRow         == "none"
ClaimMarker   == "slip_claimed"
ReleaseMarker == "slip_released"
MarkerSteps   == {ClaimMarker, ReleaseMarker}
=============================================================================
