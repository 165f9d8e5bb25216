------------------------------ MODULE MockStore ------------------------------
(***************************************************************************)
(* slippytest.MockStore on ONE slip: the in-memory double the services     *)
(* test against.  Every method holds the mutex throughout, so a call is    *)
(* one action; a call it refuses, or that finds no slip, changes nothing.  *)
(*                                                                         *)
(* Calls on steps as a whole only.  What the double does with component    *)
(* reports is known to differ from the store (no roll-up), and so is the   *)
(* terminal-freshness gate, which it does not have.                        *)
(***************************************************************************)
EXTENDS SlipStatus

CONSTANTS Steps, PushParsed

\* The empty claimant of a step nobody said to have started.
Nobody == ""

VARIABLE mock   \* the stored Slip

\* No slip under the correlation id.
Absent ==
    [present |-> FALSE, status |-> "pending", claimedFrom |-> Unclaimed, marker |-> NoRow,
     steps |-> [n \in Steps |-> "pending"], claimedBy |-> [n \in Steps |-> Nobody]]

InFlight == \E n \in Steps \ {PushParsed} : mock.steps[n] \in StepRunning

\* A method that writes these fields when it finds the slip and allows the call.
Writes(allowed, slip) ==
    mock' = IF mock.present /\ allowed THEN slip ELSE mock

\* DeepCopySlip of the slip a push built; the STORE owns the claim.
Pushed(claimedFrom) ==
    [Absent EXCEPT !.present = TRUE, !.status = "in_progress",
                   !.claimedFrom = claimedFrom, !.steps[PushParsed] = "running"]

\* Create keeps the claim of a row that is there; a fresh row has none.
Create == mock' = Pushed(IF mock.present THEN mock.claimedFrom ELSE Unclaimed)

\* Mutant: a reset asks nobody.
ResetRegardless == mock' = Pushed(mock.claimedFrom)

\* An absent slip is written; a claimed one refuses.
ResetSlipInPlace ==
    mock' = IF mock.present /\ ~ResetAllowed(mock.claimedFrom) THEN mock
            ELSE Pushed(Unclaimed)

\* As the superseded slip sees it.
Repave ==
    Writes(~SlipLive(mock.status) /\ mock.claimedFrom = Unclaimed, Absent)

\* The run that started a step is shown while the step is running.
ClaimantFor(s, claimedBy) ==
    IF s = "running" THEN claimedBy ELSE Nobody

\* UpdateStep, and UpdateStepWithHistory with the claimant of its entry.
UpdateStep(n, s, claimedBy) ==
    Writes(TRUE, [mock EXCEPT !.steps[n] = s, !.claimedBy[n] = ClaimantFor(s, claimedBy)])

\* A history entry, or a step, under a marker's name is refused.
UpdateStepWithHistory(n, s, entry, claimedBy) ==
    IF {n, entry} \cap MarkerSteps # {} THEN UNCHANGED mock
    ELSE UpdateStep(n, s, claimedBy)

UpdateSlipStatus(s) ==
    LET ends == s \in SlipTerminal
    IN  Writes(TRUE, [mock EXCEPT !.status = s,
                         !.claimedFrom = IF ends THEN Unclaimed ELSE @,
                         !.marker = IF ends /\ mock.claimedFrom # Unclaimed
                                    THEN ReleaseMarker ELSE @])

ClaimSlip(expected) ==
    Writes(ClaimWrites(mock.status, mock.claimedFrom, InFlight, expected),
           [mock EXCEPT !.claimedFrom = mock.status, !.marker = ClaimMarker])

ReleaseClaim ==
    Writes(ReleaseWrites(mock.claimedFrom, InFlight),
           [mock EXCEPT !.claimedFrom = Unclaimed, !.marker = ReleaseMarker])
=============================================================================
