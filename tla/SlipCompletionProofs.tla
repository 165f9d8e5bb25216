-------------------------- MODULE SlipCompletionProofs --------------------------
(***************************************************************************)
(* Proofs about SlipCompletion, for any clients, any calls and any bound:  *)
(* every step of a call is a step of the store, so what SlipStoreProofs    *)
(* proves holds here too; and a closed slip stays closed.                  *)
(***************************************************************************)
EXTENDS SlipCompletion, SlipStoreProofs

\* What the calls keep about themselves.
PcOK == \A p \in Clients :
    /\ pc[p] \in {"check", "apply"} => checks[p] \in 1..2
    /\ pc[p] = "skip"  => skipping[p] \in SkipCalls
    /\ pc[p] = "close" => verdict[p] # NoWrite

CallTypeOK ==
    /\ pc \in [Clients -> {"idle", "check", "apply", "skip", "close"}]
    /\ checks \in [Clients -> 0..2]
    /\ todo \in [Clients -> SUBSET Steps]
    /\ verdict \in [Clients -> SlipWrites \cup {NoWrite}]
    /\ allOrNone \in [Clients -> BOOLEAN]
    /\ skipping \in [Clients -> SkipCalls \cup {NoSkip}]
    /\ canarySkips \subseteq Steps
    /\ calls \in 0..MaxCalls

CallInv == CallTypeOK /\ PcOK

\* What a write to the history of a configured step leaves marked.
LEMMA WriteStepMarks ==
    ASSUME canarySkips \subseteq Steps, NEW n \in Steps, NEW c, NEW s, NEW b,
           WriteStep(n, c, s, b)
    PROVE  canarySkips' \subseteq Steps
BY DEF WriteStep

LEMMA ResumeInv ==
    ASSUME CallInv, NEW p \in Clients, NEW left \in 0..2, Resume(p, left)
    PROVE  /\ pc' \in [Clients -> {"idle", "check", "apply", "skip", "close"}]
           /\ checks' \in [Clients -> 0..2]
           /\ \A q \in Clients \ {p} : pc'[q] = pc[q] /\ checks'[q] = checks[q]
           /\ pc'[p] \in {"idle", "check"}
           /\ pc'[p] = "check" => checks'[p] \in 1..2
BY DEF Resume, CallInv, CallTypeOK

\* A step report, by whichever call makes it and whatever it checks after.
LEMMA ReportKeepsCalls ==
    ASSUME CallInv, NEW p \in Clients, NEW n, NEW c, NEW s,
           WriteStep(n, c, s, FALSE), calls' \in 0..MaxCalls,
           UNCHANGED <<todo, verdict, allOrNone, skipping>>,
           \/ Resume(p, ChecksAfter(c, s))
           \/ Resume(p, ChecksAfter(c, s) + 1)
           \/ UNCHANGED <<pc, checks>>
    PROVE  CallInv'
<1>1. canarySkips' \subseteq Steps
  BY DEF WriteStep, CallInv, CallTypeOK
<1>2. CASE UNCHANGED <<pc, checks>>
  BY <1>1, <1>2 DEF CallInv, CallTypeOK, PcOK
<1>3. ASSUME NEW left \in 0..2, Resume(p, left) PROVE CallInv'
  BY <1>1, <1>3, ResumeInv DEF CallInv, CallTypeOK, PcOK
<1>4. ChecksAfter(c, s) \in 0..2 /\ ChecksAfter(c, s) + 1 \in 0..2
  BY DEF ChecksAfter
<1> QED
  BY <1>2, <1>3, <1>4

\* A call that goes on keeps the invariant.
LEMMA ProceedKeepsCalls ==
    ASSUME CallInv, NEW p \in Clients, Proceed(p)
    PROVE  CallInv'
<1>1. ASSUME SkipStepWrite(p)
      PROVE  CallInv'
  <2>1. skipping[p] \in SkipCalls /\ skipping[p][1] \in Steps
    BY <1>1, CallsAssumption DEF SkipStepWrite, CallInv, PcOK
  <2>2. canarySkips' \subseteq Steps
    BY <1>1, <2>1, WriteStepMarks DEF SkipStepWrite, CallInv, CallTypeOK
  <2>3. PICK left \in 0..2 : Resume(p, left)
    BY <1>1 DEF SkipStepWrite, ChecksAfter
  <2>4. /\ UNCHANGED <<todo, verdict, allOrNone, calls>>
        /\ skipping' = [skipping EXCEPT ![p] = NoSkip]
    BY <1>1 DEF SkipStepWrite
  <2> QED
    BY <2>2, <2>3, <2>4, ResumeInv DEF CallInv, CallTypeOK, PcOK
<1>2. ASSUME CloseWrite(p)
      PROVE  CallInv'
  <2>1. Resume(p, 0)
    BY <1>2 DEF CloseWrite
  <2>2. /\ UNCHANGED <<canarySkips, todo, allOrNone, skipping, calls>>
        /\ verdict' = [verdict EXCEPT ![p] = NoWrite]
    BY <1>2 DEF CloseWrite
  <2> QED
    BY <2>1, <2>2, ResumeInv DEF CallInv, CallTypeOK, PcOK
<1>3. ASSUME CompletionLoad(p)
      PROVE  CallInv'
  <2>1. pc[p] = "check" /\ UNCHANGED <<canarySkips, skipping, calls>>
    BY <1>3 DEF CompletionLoad
  <2>2. CASE CheckReturns(p)
    <3>1. checks[p] - 1 \in 0..2
      BY <2>1 DEF CallInv, PcOK
    <3>2. Resume(p, checks[p] - 1) /\ UNCHANGED <<todo, verdict, allOrNone>>
      BY <2>2 DEF CheckReturns
    <3> QED
      BY <2>1, <3>1, <3>2, ResumeInv DEF CallInv, CallTypeOK, PcOK
  <2>3. ASSUME NEW R \in SUBSET Steps, NEW w \in SlipWrites \cup {NoWrite},
               NEW strict \in BOOLEAN, Decide(p, R, w, strict)
        PROVE  CallInv'
    BY <2>1, <2>3 DEF Decide, CallInv, CallTypeOK, PcOK
  <2>4. /\ CanarySkipsToReset \in SUBSET Steps
        /\ CanarySkipsToReset \cup CascadeFailures \in SUBSET Steps
        /\ {"failed", "completed", "in_progress"} \subseteq SlipWrites
    BY CallsAssumption DEF CanarySkipsToReset, CascadeFailures
  <2>5. \/ CheckReturns(p)
        \/ Decide(p, CanarySkipsToReset, "failed", FALSE)
        \/ Decide(p, {}, "completed", FALSE)
        \/ Decide(p, CanarySkipsToReset \cup CascadeFailures, "in_progress", TRUE)
        \/ Decide(p, CanarySkipsToReset, NoWrite, FALSE)
    BY <1>3 DEF CompletionLoad
  <2> QED
    BY <2>2, <2>3, <2>4, <2>5
<1>4. ASSUME NEW n \in Steps, ResetStep(p, n) \/ ResetFails(p, n)
      PROVE  CallInv'
  <2>1. canarySkips' \subseteq Steps
    BY <1>4, WriteStepMarks DEF ResetStep, ResetFails, CallInv, CallTypeOK
  <2>2. pc[p] = "apply"
    BY <1>4 DEF ResetStep, ResetFails
  <2> QED
    BY <1>4, <2>1, <2>2 DEF ResetStep, ResetFails, CallInv, CallTypeOK, PcOK
<1>5. ASSUME Conclude(p) \/ ConcludeFails(p)
      PROVE  CallInv'
  <2>1. pc[p] = "apply" /\ CheckDone(p)
    BY <1>5 DEF Conclude, ConcludeFails
  <2>2. checks[p] - 1 \in 0..2
    BY <2>1 DEF CallInv, PcOK
  <2>3. /\ Resume(p, checks[p] - 1)
        /\ verdict' = [verdict EXCEPT ![p] = NoWrite]
        /\ UNCHANGED <<canarySkips, todo, allOrNone, skipping, calls>>
    BY <2>1 DEF CheckDone
  <2> QED
    BY <2>2, <2>3, ResumeInv DEF CallInv, CallTypeOK, PcOK
<1> QED
  BY <1>1, <1>2, <1>3, <1>4, <1>5 DEF Proceed

\* The call-level invariant.
LEMMA CallInvInductive == RunSpec => []CallInv
<1>1. RunInit => CallInv
  BY CallsAssumption DEF RunInit, CallInv, CallTypeOK, PcOK
<1>2. CallInv /\ [RunNext]_allVars => CallInv'
  <2> SUFFICES ASSUME CallInv, [RunNext]_allVars PROVE CallInv'
    OBVIOUS
  <2>1. ASSUME NEW p \in Clients, NEW n \in Steps, NEW c, NEW s,
               UpdateStepWithStatus(p, n, c, s) \/ RunPostExecution(p, n, c, s)
        PROVE  CallInv'
    <3>1. /\ WriteStep(n, c, s, FALSE)
          /\ Counted
          /\ UNCHANGED <<todo, verdict, allOrNone, skipping>>
          /\ Resume(p, ChecksAfter(c, s)) \/ Resume(p, ChecksAfter(c, s) + 1)
      BY <2>1 DEF UpdateStepWithStatus, RunPostExecution
    <3>2. calls' \in 0..MaxCalls
      BY <3>1, CallsAssumption DEF Counted, CallInv, CallTypeOK
    <3> QED
      BY <3>1, <3>2, ReportKeepsCalls
  <2>2. ASSUME NEW p \in Clients, NEW k \in SkipCalls, SkipStepGuard(p, k[1], k[2])
        PROVE  CallInv'
    <3>1. k = <<k[1], k[2]>>
      BY CallsAssumption
    <3>2. calls' \in 0..MaxCalls
      BY <2>2, CallsAssumption DEF SkipStepGuard, Counted, CallInv, CallTypeOK
    <3> QED
      BY <2>2, <3>1, <3>2 DEF SkipStepGuard, CallInv, CallTypeOK, PcOK
  <2>3. ASSUME NEW p \in Clients, NEW s \in CloseCalls, CloseLoad(p, s)
        PROVE  CallInv'
    <3>1. calls' \in 0..MaxCalls
      BY <2>3, CallsAssumption DEF CloseLoad, Counted, CallInv, CallTypeOK
    <3>2. s \in SlipWrites /\ s # NoWrite
      BY CallsAssumption DEF NoWrite
    <3> QED
      BY <2>3, <3>1, <3>2 DEF CloseLoad, CallInv, CallTypeOK, PcOK
  <2>4. ASSUME NEW p \in Clients, Die(p)
        PROVE  CallInv'
    <3>1. Resume(p, 0)
      BY <2>4 DEF Die
    <3>2. /\ todo' = [todo EXCEPT ![p] = {}]
          /\ verdict' = [verdict EXCEPT ![p] = NoWrite]
          /\ skipping' = [skipping EXCEPT ![p] = NoSkip]
          /\ UNCHANGED <<canarySkips, allOrNone, calls>>
      BY <2>4 DEF Die
    <3> QED
      BY <3>1, <3>2, ResumeInv DEF CallInv, CallTypeOK, PcOK
  <2>5. CASE UNCHANGED <<callVars, canarySkips>>
    BY <2>5 DEF callVars, CallInv, CallTypeOK, PcOK
  <2>6. \A k \in StepCalls \cup PostCalls : k[1] \in Steps
    BY CallsAssumption
  <2> QED
    BY <2>1, <2>2, <2>3, <2>4, <2>5, <2>6, ProceedKeepsCalls
    DEF RunNext, Open, Wait, allVars
<1> QED
  BY <1>1, <1>2, PTL DEF RunSpec

-----------------------------------------------------------------------------
(***************************************************************************)
(* The calls implement the store.                                          *)
(***************************************************************************)

\* A step write of a call is one of the store's.
LEMMA WriteStepIsStored ==
    ASSUME NEW n, NEW c, NEW s \in StepWrites, NEW b, <<n, c>> \in Reports,
           WriteStep(n, c, s, b)
    PROVE  Next
<1>1. UpdateStep(<<n, c>>[1], <<n, c>>[2], s, <<n, c>>[1])
  BY DEF WriteStep
<1>2. \E entry \in {<<n, c>>[1]} \cup MarkerSteps :
         UpdateStep(<<n, c>>[1], <<n, c>>[2], s, entry)
  BY <1>1
<1> QED
  BY <1>2 DEF Next

\* A call that goes on writes by a transaction of the store, or nothing.
LEMMA ProceedIsStored ==
    ASSUME CallInv, NEW p \in Clients, Proceed(p)
    PROVE  [Next]_vars
<1>1. ASSUME SkipStepWrite(p) PROVE Next
  <2>1. /\ <<skipping[p][1], Whole>> \in Reports
        /\ "skipped" \in StepWrites
    BY <1>1, CallsAssumption DEF SkipStepWrite, CallInv, PcOK
  <2>2. WriteStep(skipping[p][1], Whole, "skipped", skipping[p][2])
    BY <1>1 DEF SkipStepWrite
  <2> QED
    BY <2>1, <2>2, WriteStepIsStored
<1>2. ASSUME NEW n \in Steps, ResetStep(p, n) PROVE Next
  <2>1. WriteStep(n, Whole, "pending", FALSE)
    BY <1>2 DEF ResetStep
  <2> QED
    BY <2>1, CallsAssumption, WriteStepIsStored
<1>3. ASSUME verdict[p] # NoWrite, UpdateSlipStatus(verdict[p]) PROVE Next
  BY <1>3 DEF CallInv, CallTypeOK, Next
<1>4. ASSUME CloseWrite(p) PROVE Next
  BY <1>3, <1>4 DEF CloseWrite, CallInv, PcOK
<1>5. ASSUME Conclude(p) PROVE Next \/ UNCHANGED vars
  BY <1>3, <1>5 DEF Conclude
<1> QED
  BY <1>1, <1>2, <1>4, <1>5 DEF Proceed, CompletionLoad, ResetFails, ConcludeFails

\* Every step of every call is one transaction of the store or none, so each
\* theorem about SlipStore holds of the slip that concurrent clients share.
THEOREM CallsUseTheStore == RunSpec => Spec
<1>1. RunInit => Init
  BY DEF RunInit
<1>2. CallInv /\ [RunNext]_allVars => [Next]_vars
  <2> SUFFICES ASSUME CallInv, [RunNext]_allVars PROVE [Next]_vars
    OBVIOUS
  <2>1. ASSUME NEW p \in Clients, NEW k \in StepCalls \cup PostCalls,
               \/ UpdateStepWithStatus(p, k[1], k[2], k[3])
               \/ RunPostExecution(p, k[1], k[2], k[3])
        PROVE  Next
    <3>1. <<k[1], k[2]>> \in Reports /\ k[3] \in StepWrites
      BY CallsAssumption
    <3>2. WriteStep(k[1], k[2], k[3], FALSE)
      BY <2>1 DEF UpdateStepWithStatus, RunPostExecution
    <3> QED
      BY <3>1, <3>2, WriteStepIsStored
  <2>2. CASE Open
    BY <2>2 DEF Open, Next
  <2>3. CASE Wait
    BY <2>3 DEF Wait, Next
  <2> QED
    BY <2>1, <2>2, <2>3, ProceedIsStored
    DEF RunNext, SkipStepGuard, CloseLoad, Die, allVars
<1> QED
  BY <1>1, <1>2, CallInvInductive, PTL DEF RunSpec, Spec

\* Type correctness of the slip and of every call.
THEOREM RunTypeCorrect == RunSpec => []RunTypeOK
<1>1. TypeOK /\ CallInv => RunTypeOK
  BY WritesAssumption DEF CallInv, CallTypeOK, RunTypeOK
<1> QED
  BY <1>1, CallsUseTheStore, TypeCorrect, CallInvInductive, PTL

-----------------------------------------------------------------------------
(***************************************************************************)
(* I4, as far as the code keeps it.                                        *)
(***************************************************************************)

\* A slip that is gone is not closed: Create cannot turn a closed slip live.
GoneIsOpen == ~present => status \notin Closed

LEMMA GoneIsOpenInductive == Spec => []GoneIsOpen
<1>1. Init => GoneIsOpen
  BY DEF Init, GoneIsOpen, Closed
<1>2. GoneIsOpen /\ [Next]_vars => GoneIsOpen'
  <2> SUFFICES ASSUME GoneIsOpen, [Next]_vars PROVE GoneIsOpen'
    OBVIOUS
  <2>1. CASE present'
    BY <2>1 DEF GoneIsOpen
  <2>2. CASE Repaved
    BY <2>2 DEF Repaved, GoneIsOpen, Closed
  <2>3. CASE ~present' /\ ~Repaved
    <3>1. /\ \A d \in BOOLEAN : ~Create(d) /\ ~ResetSlipInPlace(d)
          /\ \A k, s, entry : ~UpdateStep(k[1], k[2], s, entry)
          /\ \A a, c : ~SetComponentImageTag(a, c)
          /\ \A s : ~UpdateSlipStatus(s)
          /\ \A e : ~ClaimSlip(e)
          /\ ~ReleaseClaim
      <4>1. \A d \in BOOLEAN : ~Create(d)
        BY <2>3 DEF Create
      <4>2. \A d \in BOOLEAN : ~ResetSlipInPlace(d)
        BY <2>3 DEF ResetSlipInPlace
      <4>3. \A k, s, entry : ~UpdateStep(k[1], k[2], s, entry)
        BY <2>3 DEF UpdateStep
      <4>4. \A a, c : ~SetComponentImageTag(a, c)
        BY <2>3 DEF SetComponentImageTag
      <4>5. (\A s : ~UpdateSlipStatus(s)) /\ (\A e : ~ClaimSlip(e)) /\ ~ReleaseClaim
        BY <2>3 DEF UpdateSlipStatus, ClaimSlip, ReleaseClaim
      <4> QED
        BY <4>1, <4>2, <4>3, <4>4, <4>5
    <3>2. Age \/ UNCHANGED vars
      BY <2>3, <3>1 DEF Next
    <3> QED
      BY <3>2 DEF GoneIsOpen, Age, vars
  <2> QED
    BY <2>1, <2>2, <2>3
<1> QED
  BY <1>1, <1>2, PTL DEF Spec

\* Once a slip is closed and the calls that had read it open are over, its
\* status never changes again.  A call that begins later reads it closed: the
\* check is bypassed, AbandonSlip and PromoteSlip return.
THEOREM ClosedStaysClosed == RunSpec => ClosedIsFinal
<1>1. CallInv /\ GoneIsOpen /\ [RunNext]_allVars
        => [Settled => status' = status /\ Settled']_allVars
  <2> SUFFICES ASSUME CallInv, GoneIsOpen, RunNext, Settled
               PROVE  status' = status /\ Settled'
    OBVIOUS
  <2>1. status \in Closed /\ \A p \in Clients : verdict[p] = NoWrite
    BY DEF Settled
  <2> SUFFICES status' = status /\ \A p \in Clients : verdict'[p] = NoWrite
    BY <2>1 DEF Settled
  <2>3. ASSUME NEW p \in Clients, NEW n, NEW c, NEW s,
               UpdateStepWithStatus(p, n, c, s) \/ RunPostExecution(p, n, c, s)
        PROVE  status' = status /\ verdict' = verdict
    BY <2>3 DEF UpdateStepWithStatus, RunPostExecution, WriteStep, UpdateStep
  <2>4. ASSUME NEW p \in Clients, NEW k, SkipStepGuard(p, k[1], k[2])
        PROVE  status' = status /\ verdict' = verdict
    BY <2>4 DEF SkipStepGuard, vars
  <2>5. ASSUME NEW p \in Clients, NEW s, CloseLoad(p, s)
        PROVE  FALSE
    BY <2>1, <2>5 DEF CloseLoad, Closed, SlipTerminal
  <2>6. ASSUME NEW p \in Clients, CloseWrite(p)
        PROVE  FALSE
    BY <2>1, <2>6 DEF CloseWrite, CallInv, PcOK
  <2>7. ASSUME NEW p \in Clients, SkipStepWrite(p)
        PROVE  status' = status /\ verdict' = verdict
    BY <2>7 DEF SkipStepWrite, WriteStep, UpdateStep
  <2>8. ASSUME NEW p \in Clients, CompletionLoad(p)
        PROVE  status' = status /\ verdict' = verdict
    BY <2>1, <2>8 DEF CompletionLoad, Bypassed, CheckReturns, vars
  <2>9. ASSUME NEW p \in Clients, NEW n \in Steps, ResetStep(p, n)
        PROVE  status' = status /\ verdict' = verdict
    BY <2>9 DEF ResetStep, WriteStep, UpdateStep
  <2>10. ASSUME NEW p \in Clients, NEW q \in Clients, UNCHANGED status,
                \/ verdict' = [verdict EXCEPT ![p] = NoWrite]
                \/ verdict' = [verdict EXCEPT ![p] = IF allOrNone[p] THEN NoWrite ELSE @]
         PROVE  status' = status /\ verdict'[q] = NoWrite
    BY <2>1, <2>10 DEF CallInv, CallTypeOK
  <2>11. ASSUME NEW p \in Clients,
                \/ \E n \in Steps : ResetFails(p, n)
                \/ Conclude(p) \/ ConcludeFails(p) \/ Die(p)
         PROVE  /\ UNCHANGED status
                /\ \/ verdict' = [verdict EXCEPT ![p] = NoWrite]
                   \/ verdict' = [verdict EXCEPT ![p] = IF allOrNone[p] THEN NoWrite ELSE @]
    BY <2>1, <2>11 DEF ResetFails, Conclude, ConcludeFails, CheckDone, Die, vars
  <2>12. ~Open
    BY <2>1 DEF Open, Create, GoneIsOpen
  <2>13. CASE Wait
    BY <2>1, <2>13 DEF Wait, Age, callVars
  <2>14. ASSUME NEW p \in Clients,
                \/ \E n \in Steps : ResetFails(p, n)
                \/ Conclude(p) \/ ConcludeFails(p) \/ Die(p)
         PROVE  status' = status /\ \A q \in Clients : verdict'[q] = NoWrite
    BY <2>10, <2>11, <2>14
  <2>15. ASSUME NEW p \in Clients, Proceed(p)
         PROVE  status' = status /\ \A q \in Clients : verdict'[q] = NoWrite
    BY <2>1, <2>6, <2>7, <2>8, <2>9, <2>14, <2>15 DEF Proceed
  <2> QED
    BY <2>1, <2>3, <2>4, <2>5, <2>12, <2>13, <2>14, <2>15 DEF RunNext
<1> QED
  BY <1>1, CallInvInductive, CallsUseTheStore, GoneIsOpenInductive, PTL
  DEF RunSpec, ClosedIsFinal

-----------------------------------------------------------------------------
(***************************************************************************)
(* Scenario H: no canary skip outlives the success of the canary.          *)
(***************************************************************************)

\* A step without components has the status of its last write as a whole.
LEMMA WriteStepColumn ==
    ASSUME TypeOK, NEW n, NEW c, NEW s, NEW b, WriteStep(n, c, s, b),
           NEW m \in Steps, m \notin AggregateSteps
    PROVE  col'[m] = IF n = m /\ c = Whole THEN s ELSE col[m]
<1>1. WriteColumns(n, c, s)
  BY DEF WriteStep, UpdateStep
<1>2. CASE c # Whole \/ n \in AggregateSteps
  <2>1. \/ \E a \in AggregateSteps : \E t : col' = [col EXCEPT ![a] = t]
        \/ col' = col
    BY <1>1, <1>2 DEF WriteColumns, Recompute
  <2> QED
    BY <1>2, <2>1 DEF TypeOK
<1>3. CASE c = Whole /\ n \notin AggregateSteps
  BY <1>1, <1>3 DEF WriteColumns, TypeOK
<1> QED
  BY <1>2, <1>3

\* The pipelines and calls the run and the theorem are about: the canary and
\* the steps it skips have no components, and nothing closes the slip.  A call
\* that read the slip open would reopen it behind a check that was bypassed.
OpenCanaryRun ==
    /\ ~Faults /\ ~GateEnabled
    /\ CloseCalls = {} /\ ProdSteadyState \notin Steps
    /\ ({ProdCanary} \cup CanarySkippable) \cap AggregateSteps = {}

\* Every canary skip that must go is some check's to reset.
SkipsFollowed ==
    /\ status \notin Closed
    /\ \A p \in Clients : pc[p] # "close" /\ verdict[p] \notin Closed
    /\ \A n \in CanarySkipsToReset :
          \E p \in Clients : pc[p] = "check" \/ (pc[p] = "apply" /\ n \in todo[p])

\* Only a terminal write brings a skip that must go; a reset takes one away.
LEMMA SkipsBrought ==
    ASSUME OpenCanaryRun, TypeOK, NEW n, NEW c, NEW s, NEW b, WriteStep(n, c, s, b),
           NEW m \in CanarySkipsToReset'
    PROVE  /\ m \in CanarySkipsToReset \/ (c = Whole /\ s \in StepTerminal)
           /\ s = "pending" /\ c = Whole => m # n
<1>1. /\ ProdCanary \in Steps /\ m \in CanarySkippable \cap Steps
      /\ col'[ProdCanary] \in StepSuccess /\ col'[m] = "skipped" /\ m \in canarySkips'
  BY DEF CanarySkipsToReset
<1>2. /\ col'[ProdCanary] = IF n = ProdCanary /\ c = Whole THEN s ELSE col[ProdCanary]
      /\ col'[m] = IF n = m /\ c = Whole THEN s ELSE col[m]
  BY <1>1, WriteStepColumn DEF OpenCanaryRun
<1>3. s \in StepSuccess \cup {"skipped"} => s \in StepTerminal
  BY DEF StepSuccess, StepTerminal
<1>4. ~(c = Whole /\ s \in StepTerminal) =>
         col[ProdCanary] \in StepSuccess /\ col[m] = "skipped" /\ m \in canarySkips
  BY <1>1, <1>2, <1>3 DEF WriteStep
<1> QED
  BY <1>1, <1>2, <1>4 DEF CanarySkipsToReset

LEMMA SkipsFollowedInductive ==
    ASSUME OpenCanaryRun
    PROVE  RunSpec => []SkipsFollowed
<1>1. RunInit => SkipsFollowed
  BY DEF RunInit, Init, NoColumns, SkipsFollowed, CanarySkipsToReset, Closed, NoWrite
<1>2. TypeOK /\ CallInv /\ SkipsFollowed /\ [RunNext]_allVars => SkipsFollowed'
  <2> SUFFICES ASSUME TypeOK, CallInv, SkipsFollowed, [RunNext]_allVars PROVE SkipsFollowed'
    OBVIOUS
  <2>0. /\ pc \in [Clients -> {"idle", "check", "apply", "skip", "close"}]
        /\ todo \in [Clients -> SUBSET Steps]
        /\ verdict \in [Clients -> SlipWrites \cup {NoWrite}]
    BY DEF CallInv, CallTypeOK
  \* A step report of a call that follows no skip.
  <2>1. ASSUME NEW p \in Clients, NEW n, NEW c, NEW s, NEW b, WriteStep(n, c, s, b),
               pc[p] \in {"idle", "skip"}, UNCHANGED <<todo, verdict>>,
               NEW left, Resume(p, left), c = Whole /\ s \in StepTerminal => left # 0
        PROVE  SkipsFollowed'
    <3>1. /\ status' = status /\ pc'[p] \in {"idle", "check"}
          /\ \A q \in Clients \ {p} : pc'[q] = pc[q]
          /\ c = Whole /\ s \in StepTerminal => pc'[p] = "check"
      BY <2>0, <2>1 DEF WriteStep, UpdateStep, Resume
    <3>2. ASSUME NEW m \in CanarySkipsToReset'
          PROVE  \E q \in Clients : pc'[q] = "check" \/ (pc'[q] = "apply" /\ m \in todo'[q])
      BY <2>1, <3>1, SkipsBrought DEF SkipsFollowed
    <3> QED
      BY <2>1, <3>1, <3>2 DEF SkipsFollowed
  <2>2. ASSUME NEW p \in Clients, NEW k \in StepCalls, UpdateStepWithStatus(p, k[1], k[2], k[3])
        PROVE  SkipsFollowed'
    <3> DEFINE left == ChecksAfter(k[2], k[3])
    <3>1. /\ \E b : WriteStep(k[1], k[2], k[3], b)
          /\ pc[p] \in {"idle", "skip"}
          /\ UNCHANGED <<todo, verdict>> /\ Resume(p, left)
      BY <2>2 DEF UpdateStepWithStatus
    <3>2. k[2] = Whole /\ k[3] \in StepTerminal => left # 0
      BY DEF ChecksAfter
    <3> HIDE DEF left
    <3> QED
      BY <2>1, <3>1, <3>2
  <2>3. ASSUME NEW p \in Clients, NEW k \in PostCalls, RunPostExecution(p, k[1], k[2], k[3])
        PROVE  SkipsFollowed'
    <3> DEFINE left == ChecksAfter(k[2], k[3]) + 1
    <3>1. /\ \E b : WriteStep(k[1], k[2], k[3], b)
          /\ pc[p] \in {"idle", "skip"}
          /\ UNCHANGED <<todo, verdict>> /\ Resume(p, left)
      BY <2>3 DEF RunPostExecution
    <3>2. k[2] = Whole /\ k[3] \in StepTerminal => left # 0
      BY DEF ChecksAfter
    <3> HIDE DEF left
    <3> QED
      BY <2>1, <3>1, <3>2
  <2>4. ASSUME NEW p \in Clients, SkipStepWrite(p)
        PROVE  SkipsFollowed'
    BY <2>1, <2>4 DEF SkipStepWrite, ChecksAfter
  <2>5. ASSUME NEW p \in Clients, NEW k \in SkipCalls, SkipStepGuard(p, k[1], k[2])
        PROVE  SkipsFollowed'
    BY <2>0, <2>5 DEF SkipStepGuard, vars, SkipsFollowed, CanarySkipsToReset
  <2>6. ASSUME NEW p \in Clients, CompletionLoad(p)
        PROVE  SkipsFollowed'
    <3>1. /\ pc' = [pc EXCEPT ![p] = "apply"]
          /\ CanarySkipsToReset \subseteq todo'[p]
          /\ \A q \in Clients \ {p} : todo'[q] = todo[q]
          /\ \A q \in Clients : verdict'[q] \notin Closed
          /\ UNCHANGED <<status, col, canarySkips>>
      <4>1. ~Bypassed /\ ~SteadyStateCompleted
        BY DEF OpenCanaryRun, SkipsFollowed, Bypassed, SteadyStateCompleted
      <4>2. \E R \in SUBSET Steps, w \in {"failed", "in_progress", NoWrite}, strict \in BOOLEAN :
               CanarySkipsToReset \subseteq R /\ Decide(p, R, w, strict)
        <5>1. /\ CanarySkipsToReset \in SUBSET Steps
              /\ CanarySkipsToReset \cup CascadeFailures \in SUBSET Steps
          BY DEF CanarySkipsToReset, CascadeFailures
        <5> QED
          BY <2>6, <4>1, <5>1 DEF CompletionLoad
      <4>3. UNCHANGED <<status, col, canarySkips>>
        BY <2>6 DEF CompletionLoad, vars
      <4> QED
        BY <2>0, <4>2, <4>3 DEF Decide, SkipsFollowed, Closed, NoWrite
    <3> QED
      BY <2>0, <3>1 DEF SkipsFollowed, CanarySkipsToReset
  <2>7. ASSUME NEW p \in Clients, NEW n \in Steps, ResetStep(p, n)
        PROVE  SkipsFollowed'
    <3>1. /\ WriteStep(n, Whole, "pending", FALSE) /\ "pending" \notin StepTerminal
          /\ UNCHANGED <<status, pc, verdict>>
          /\ \A q \in Clients : todo[q] \ {n} \subseteq todo'[q]
      BY <2>0, <2>7 DEF ResetStep, WriteStep, UpdateStep, StepTerminal
    <3>2. ASSUME NEW m \in CanarySkipsToReset'
          PROVE  \E q \in Clients : pc'[q] = "check" \/ (pc'[q] = "apply" /\ m \in todo'[q])
      <4>1. m \in CanarySkipsToReset /\ m # n
        BY <3>1, SkipsBrought
      <4> QED
        BY <3>1, <4>1 DEF SkipsFollowed
    <3> QED
      BY <3>1, <3>2 DEF SkipsFollowed
  <2>8. ASSUME NEW p \in Clients, Conclude(p)
        PROVE  SkipsFollowed'
    <3>1. /\ pc[p] = "apply" /\ todo[p] = {} /\ UNCHANGED <<col, canarySkips, todo>>
          /\ status' = status \/ status' = verdict[p]
          /\ verdict' = [verdict EXCEPT ![p] = NoWrite]
          /\ \A q \in Clients \ {p} : pc'[q] = pc[q]
          /\ pc'[p] \in {"idle", "check"}
      BY <2>0, <2>8 DEF Conclude, CheckDone, Resume, UpdateSlipStatus, vars
    <3>2. \A q \in Clients : verdict'[q] \notin Closed
      BY <2>0, <3>1 DEF SkipsFollowed, Closed, NoWrite
    <3> QED
      BY <3>1, <3>2 DEF SkipsFollowed, CanarySkipsToReset
  <2>9. \A p \in Clients : /\ ~CloseWrite(p) /\ ~ConcludeFails(p) /\ ~Die(p)
                           /\ \A n \in Steps : ~ResetFails(p, n)
                           /\ \A s \in CloseCalls : ~CloseLoad(p, s)
    BY DEF OpenCanaryRun, SkipsFollowed, CloseWrite, ConcludeFails, Die, ResetFails, GateAdmits
  <2>10. CASE Open
    <3>1. /\ UNCHANGED <<pc, todo, verdict>> /\ status' = "in_progress"
          /\ col' = [n \in Steps |-> IF n = PushParsed THEN "running" ELSE "pending"]
      BY <2>10 DEF Open, Create, Seed, callVars
    <3>2. CanarySkipsToReset' = {}
      BY <3>1 DEF CanarySkipsToReset, StepSuccess
    <3> QED
      BY <3>1, <3>2 DEF SkipsFollowed, Closed
  <2>11. CASE Wait \/ UNCHANGED allVars
    BY <2>11 DEF Wait, Age, allVars, vars, callVars, SkipsFollowed, CanarySkipsToReset
  <2> QED
    BY <2>2, <2>3, <2>4, <2>5, <2>6, <2>7, <2>8, <2>9, <2>10, <2>11 DEF RunNext, Proceed
<1> QED
  BY <1>1, <1>2, CallInvInductive, CallsUseTheStore, TypeCorrect, PTL DEF RunSpec

\* However the canary's reports and the skips of any number of clients interleave:
\* when no call is under way, a canary that succeeded has left no step skipped
\* for its failure.  (Gate off, no fault, in a run that nothing closes.)
THEOREM NoSkipOutlivesCanary ==
    ASSUME OpenCanaryRun
    PROVE  RunSpec => []NoStaleCanarySkip
<1>1. SkipsFollowed => NoStaleCanarySkip
  BY DEF SkipsFollowed, NoStaleCanarySkip, AllIdle
<1> QED
  BY <1>1, SkipsFollowedInductive, PTL

-----------------------------------------------------------------------------
(***************************************************************************)
(* I1 and I2 between calls, when calls do not overlap.                     *)
(*                                                                         *)
(* A call between its load and its last write holds a verdict that the     *)
(* slip's steps still bear out: nobody else writes them, and its resets    *)
(* touch no primary failure.  The gate never refuses to reset an aborted   *)
(* step, so a reset that keeps the status from being written has left a    *)
(* canary skip behind.                                                     *)
(***************************************************************************)

\* One client, no faults, steps without components; a call that reports no
\* ending reports a step as executing, and one that counts as such.
SerialRun ==
    /\ Clients # {} /\ \A p, q \in Clients : p = q
    /\ ~Faults /\ AggregateSteps = {}
    /\ \A k \in StepCalls : k[3] # "pending" /\ (k[3] \in StepRunning => k[1] # PushParsed)
    /\ \A k \in StepCalls \cup PostCalls : k[3] # "skipped"

VerdictHolds ==
    present =>
        /\ status = "in_progress" => PrimaryFailures = {} /\ ~SteadyStateCompleted
        /\ status = "failed" => \/ PrimaryFailures # {}
                                \/ \E n \in Steps \ {PushParsed} : col[n] \in StepRunning
                                \/ CanarySkipsToReset # {}

\* What a check that has decided knows until it concludes.
Decided(p) ==
    /\ todo[p] \subseteq CascadeFailures \cup CanarySkipsToReset
    /\ allOrNone[p] => verdict[p] \in {"in_progress", NoWrite}
    /\ \/ verdict[p] = "failed" /\ PrimaryFailures # {}
       \/ verdict[p] = "completed"
       \/ /\ verdict[p] \in {"in_progress", NoWrite}
          /\ PrimaryFailures = {} /\ ~SteadyStateCompleted
          /\ verdict[p] = NoWrite /\ status = "failed" => CanarySkipsToReset \ todo[p] # {}

AbortsRecorded ==
    \A n \in Steps : col[n] = "aborted" => comp[<<n, Whole>>] = "aborted"

CallSerial(p) ==
    /\ ~present => pc[p] = "idle"
    /\ pc[p] \in {"idle", "skip"} => VerdictHolds
    /\ pc[p] = "skip" => SkipGuardPassed(skipping[p][1])
    /\ pc[p] = "close" => verdict[p] \in Closed
    /\ pc[p] = "apply" => Decided(p)

SerialInv == AbortsRecorded /\ \A p \in Clients : CallSerial(p)

\* A step write, in a pipeline whose steps have no components.
LEMMA SerialWrite ==
    ASSUME SerialRun, TypeOK, AbortsRecorded, NEW n, NEW c, NEW s, NEW b, WriteStep(n, c, s, b)
    PROVE  /\ present /\ UNCHANGED <<present, status>>
           /\ \A m \in Steps : col'[m] = IF n = m /\ c = Whole THEN s ELSE col[m]
           /\ AbortsRecorded'
<1>1. /\ present /\ UNCHANGED <<present, status>>
      /\ comp' = [comp EXCEPT ![<<n, c>>] = s]
  BY DEF WriteStep, UpdateStep
<1>2. \A m \in Steps : col'[m] = IF n = m /\ c = Whole THEN s ELSE col[m]
  BY WriteStepColumn DEF SerialRun
<1>3. ASSUME NEW m \in Steps, col'[m] = "aborted"
      PROVE  comp'[<<m, Whole>>] = "aborted"
  <2>1. <<m, Whole>> \in Names \X Slots
    BY DEF Names, Slots
  <2> QED
    BY <1>1, <1>2, <1>3, <2>1 DEF AbortsRecorded, TypeOK
<1> QED
  BY <1>1, <1>2, <1>3 DEF AbortsRecorded

\* The step is reset; its failures and skips are as they were, but for itself.
LEMMA SerialReset ==
    ASSUME SerialRun, TypeOK, AbortsRecorded, NEW n \in CascadeFailures \cup CanarySkipsToReset,
           WriteStep(n, Whole, "pending", FALSE)
    PROVE  /\ PrimaryFailures' = PrimaryFailures
           /\ SteadyStateCompleted' => SteadyStateCompleted
           /\ CascadeFailures' = CascadeFailures \ {n}
           /\ CanarySkipsToReset' = CanarySkipsToReset \ {n}
<1>1. \A m \in Steps : col'[m] = IF n = m THEN "pending" ELSE col[m]
  BY SerialWrite
<1>2. n \in Steps /\ col[n] \in {"aborted", "skipped"}
  BY DEF CascadeFailures, CascadeFailure, CanarySkipsToReset
<1>3. PrimaryFailures' = PrimaryFailures
  BY <1>1, <1>2 DEF PrimaryFailures, PrimaryFailure
<1>4. SteadyStateCompleted' => SteadyStateCompleted
  BY <1>1 DEF SteadyStateCompleted
<1>5. CascadeFailures' = CascadeFailures \ {n}
  BY <1>1 DEF CascadeFailures, CascadeFailure
<1>6. CanarySkipsToReset' = CanarySkipsToReset \ {n}
  <2>1. canarySkips' = canarySkips \ {n}
    BY DEF WriteStep
  <2>2. CASE n = ProdCanary
    <3>1. n \notin CanarySkipsToReset
      BY <2>2 DEF CanarySkipsToReset, CanarySkippable, ProdCanary
    <3>2. col[ProdCanary] \notin StepSuccess /\ col'[ProdCanary] \notin StepSuccess
      BY <1>1, <1>2, <2>2, <3>1 DEF CascadeFailures, CascadeFailure, StepSuccess
    <3> QED
      BY <3>2 DEF CanarySkipsToReset
  <2>3. CASE n # ProdCanary
    BY <1>1, <2>1, <2>3 DEF CanarySkipsToReset
  <2> QED
    BY <2>2, <2>3
<1> QED
  BY <1>3, <1>4, <1>5, <1>6

\* A call that has begun goes on.
LEMMA SerialProceed ==
    ASSUME SerialRun, TypeOK, CallInv, AbortsRecorded, NEW p \in Clients, CallSerial(p), Proceed(p)
    PROVE  AbortsRecorded' /\ CallSerial(p)'
<1>0. /\ pc \in [Clients -> {"idle", "check", "apply", "skip", "close"}]
      /\ todo \in [Clients -> SUBSET Steps]
      /\ verdict \in [Clients -> SlipWrites \cup {NoWrite}]
      /\ allOrNone \in [Clients -> BOOLEAN]
      /\ present
  BY DEF CallInv, CallTypeOK, CallSerial, Proceed, SkipStepWrite, CloseWrite, CompletionLoad,
     ResetStep, ResetFails, Conclude, ConcludeFails
<1>1. CASE SkipStepWrite(p)
  <2>1. WriteStep(skipping[p][1], Whole, "skipped", skipping[p][2])
    BY <1>1 DEF SkipStepWrite
  <2>2. pc'[p] = "check"
    BY <1>0, <1>1 DEF SkipStepWrite, Resume, ChecksAfter, StepTerminal
  <2> QED
    BY <1>0, <2>1, <2>2, SerialWrite DEF CallSerial
<1>2. CASE CloseWrite(p)
  <2>1. status' \in Closed /\ pc'[p] = "idle" /\ UNCHANGED <<present, col, comp>>
    BY <1>0, <1>2 DEF CloseWrite, UpdateSlipStatus, Resume, CallSerial
  <2> QED
    BY <1>0, <2>1 DEF CallSerial, VerdictHolds, Closed, AbortsRecorded
<1>3. CASE CompletionLoad(p)
  <2>1. pc[p] = "check" /\ UNCHANGED <<present, status, col, comp, canarySkips>>
    BY <1>3 DEF CompletionLoad, vars
  <2>2. AbortsRecorded' /\ present'
    BY <1>0, <2>1 DEF AbortsRecorded
  <2>3. CASE Bypassed
    <3>1. status' \in Closed /\ pc'[p] \in {"idle", "check"}
      BY <1>0, <1>3, <2>1, <2>3 DEF CompletionLoad, CheckReturns, Resume, Bypassed
    <3> QED
      BY <2>2, <3>1 DEF CallSerial, VerdictHolds, Closed
  <2>4. CASE ~Bypassed
    <3>1. PICK R \in SUBSET Steps, w \in {"failed", "in_progress", "completed", NoWrite},
               strict \in BOOLEAN :
             /\ Decide(p, R, w, strict)
             /\ R \subseteq CascadeFailures \cup CanarySkipsToReset
             /\ strict => w = "in_progress"
             /\ \/ w = "failed" /\ PrimaryFailures # {}
                \/ w = "completed"
                \/ w = "in_progress" /\ PrimaryFailures = {} /\ ~SteadyStateCompleted
                \/ w = NoWrite /\ PrimaryFailures = {} /\ ~SteadyStateCompleted /\ status # "failed"
      <4>1. {} \in SUBSET Steps /\ CanarySkipsToReset \in SUBSET Steps
            /\ CanarySkipsToReset \cup CascadeFailures \in SUBSET Steps
        BY DEF CanarySkipsToReset, CascadeFailures
      <4> QED
        BY <1>3, <2>4, <4>1 DEF CompletionLoad
    <3>2. pc'[p] = "apply" /\ todo'[p] = R /\ verdict'[p] = w /\ allOrNone'[p] = strict
      BY <1>0, <3>1 DEF Decide
    <3>3. /\ PrimaryFailures' = PrimaryFailures /\ SteadyStateCompleted' = SteadyStateCompleted
          /\ CascadeFailures' = CascadeFailures /\ CanarySkipsToReset' = CanarySkipsToReset
      BY <2>1 DEF PrimaryFailures, SteadyStateCompleted, CascadeFailures, CanarySkipsToReset
    <3>4. Decided(p)'
      BY <2>1, <3>1, <3>2, <3>3 DEF Decided, NoWrite
    <3> QED
      BY <2>2, <3>2, <3>4 DEF CallSerial
  <2> QED
    BY <2>3, <2>4
<1>4. ASSUME NEW n \in Steps, ResetStep(p, n) PROVE AbortsRecorded' /\ CallSerial(p)'
  <2>1. /\ pc[p] = "apply" /\ pc' = pc /\ verdict' = verdict /\ allOrNone' = allOrNone
        /\ n \in todo[p] /\ todo'[p] = todo[p] \ {n}
        /\ WriteStep(n, Whole, "pending", FALSE)
    BY <1>0, <1>4 DEF ResetStep
  <2>2. Decided(p) /\ n \in CascadeFailures \cup CanarySkipsToReset
    BY <2>1 DEF CallSerial, Decided
  <2>3. UNCHANGED <<present, status>> /\ AbortsRecorded'
    BY <2>1, SerialWrite
  <2>4. Decided(p)'
    BY <2>1, <2>2, <2>3, SerialReset DEF Decided
  <2> QED
    BY <1>0, <2>1, <2>3, <2>4 DEF CallSerial
<1>5. ASSUME NEW n \in Steps, ResetFails(p, n) PROVE AbortsRecorded' /\ CallSerial(p)'
  <2>1. /\ pc[p] = "apply" /\ pc' = pc /\ allOrNone' = allOrNone
        /\ UNCHANGED <<present, status, col, comp, canarySkips>>
        /\ n \in todo[p] /\ todo'[p] = todo[p] \ {n}
        /\ \/ verdict'[p] = verdict[p]
           \/ verdict'[p] = NoWrite /\ allOrNone[p]
        /\ ~GateAdmits(n, Whole, "pending")
    BY <1>0, <1>5 DEF ResetFails, SerialRun, vars
  <2>2. n \in CanarySkipsToReset
    BY <2>1 DEF CallSerial, Decided, GateAdmits, AbortsRecorded, CascadeFailures, CascadeFailure
  <2>3. /\ PrimaryFailures' = PrimaryFailures /\ SteadyStateCompleted' = SteadyStateCompleted
        /\ CascadeFailures' = CascadeFailures /\ CanarySkipsToReset' = CanarySkipsToReset
    BY <2>1 DEF PrimaryFailures, SteadyStateCompleted, CascadeFailures, CanarySkipsToReset
  <2>4. CASE verdict'[p] = verdict[p] \/ verdict[p] \in {"in_progress", NoWrite}
    <3>1. Decided(p)'
      BY <2>1, <2>2, <2>3, <2>4 DEF CallSerial, Decided
    <3> QED
      BY <1>0, <2>1, <3>1 DEF CallSerial, AbortsRecorded
  <2>5. CASE allOrNone[p] /\ verdict[p] \notin {"in_progress", NoWrite}
    BY <2>1, <2>5 DEF CallSerial, Decided
  <2> QED
    BY <2>1, <2>4, <2>5
<1>6. CASE Conclude(p)
  <2>1. /\ pc[p] = "apply" /\ todo[p] = {} /\ UNCHANGED <<present, col, comp, canarySkips>>
        /\ status' = IF verdict[p] = NoWrite THEN status ELSE verdict[p]
        /\ pc'[p] \in {"idle", "check"}
    BY <1>0, <1>6 DEF Conclude, CheckDone, Resume, UpdateSlipStatus, vars
  <2>2. /\ PrimaryFailures' = PrimaryFailures /\ SteadyStateCompleted' = SteadyStateCompleted
        /\ CanarySkipsToReset' = CanarySkipsToReset
    BY <2>1 DEF PrimaryFailures, SteadyStateCompleted, CanarySkipsToReset
  <2>3. VerdictHolds'
    BY <2>1, <2>2 DEF CallSerial, Decided, VerdictHolds, NoWrite
  <2> QED
    BY <1>0, <2>1, <2>3 DEF CallSerial, AbortsRecorded
<1>7. ~ConcludeFails(p)
  BY DEF ConcludeFails, SerialRun
<1> QED
  BY <1>1, <1>2, <1>3, <1>4, <1>5, <1>6, <1>7 DEF Proceed

\* A report of a step: one that ends it brings a check, one that starts it
\* keeps a failed slip's retry going.
LEMMA SerialReport ==
    ASSUME SerialRun, RunTypeOK, AbortsRecorded, NEW p \in Clients, VerdictHolds,
           NEW k \in StepCalls \cup PostCalls, \E b : WriteStep(k[1], k[2], k[3], b),
           pc'[p] \in {"idle", "check"},
           pc'[p] = "idle" => k \in StepCalls /\ (k[2] # Whole \/ k[3] \notin StepTerminal)
    PROVE  AbortsRecorded' /\ CallSerial(p)'
<1>1. /\ present /\ UNCHANGED <<present, status>> /\ AbortsRecorded'
      /\ \A m \in Steps : col'[m] = IF k[1] = m /\ k[2] = Whole THEN k[3] ELSE col[m]
  BY SerialWrite DEF RunTypeOK
<1>2. CASE pc'[p] = "check"
  BY <1>1, <1>2 DEF CallSerial
<1>3. CASE pc'[p] = "idle"
  <2>1. CASE k[2] # Whole
    <3>1. canarySkips' = canarySkips
      BY <2>1 DEF WriteStep
    <3>2. \A m \in Steps : col'[m] = col[m]
      BY <1>1, <2>1
    <3>3. /\ PrimaryFailures' = PrimaryFailures /\ SteadyStateCompleted' = SteadyStateCompleted
          /\ CanarySkipsToReset' = CanarySkipsToReset
      BY <3>1, <3>2 DEF PrimaryFailures, SteadyStateCompleted, CanarySkipsToReset
    <3>4. VerdictHolds'
      BY <1>1, <3>2, <3>3 DEF VerdictHolds
    <3> QED
      BY <1>1, <1>3, <3>4 DEF CallSerial
  <2>2. CASE k[2] = Whole
    <3>1. k[1] \in Steps \ {PushParsed} /\ k[3] \in StepRunning
      BY <1>3, <2>2, CallsAssumption
         DEF SerialRun, StepStatuses, StepTerminal, StepRunning
    <3>2. col'[k[1]] = k[3]
      BY <1>1, <2>2, <3>1
    <3>3. PrimaryFailures' \subseteq PrimaryFailures /\ (SteadyStateCompleted' => SteadyStateCompleted)
      BY <1>1, <2>2, <3>1 DEF PrimaryFailures, PrimaryFailure, SteadyStateCompleted, StepRunning
    <3>4. VerdictHolds'
      BY <1>1, <3>1, <3>2, <3>3 DEF VerdictHolds
    <3> QED
      BY <1>1, <1>3, <3>4 DEF CallSerial
  <2> QED
    BY <2>1, <2>2
<1> QED
  BY <1>2, <1>3

LEMMA SerialInvInductive ==
    ASSUME SerialRun
    PROVE  RunSpec => []SerialInv
<1>1. RunInit => SerialInv
  BY DEF RunInit, Init, NoColumns, SerialInv, AbortsRecorded, CallSerial, VerdictHolds
<1>2. ASSUME SerialInv, CallInv, RunTypeOK, [RunNext]_allVars
      PROVE  SerialInv'
  <2>0. /\ pc \in [Clients -> {"idle", "check", "apply", "skip", "close"}]
        /\ verdict \in [Clients -> SlipWrites \cup {NoWrite}]
        /\ TypeOK /\ AbortsRecorded
    BY <1>2 DEF CallInv, CallTypeOK, RunTypeOK, SerialInv
  <2>1. ASSUME NEW p \in Clients, AbortsRecorded' /\ CallSerial(p)'
        PROVE  SerialInv'
    BY <2>1 DEF SerialRun, SerialInv
  <2>2. \A p \in Clients : CallSerial(p)
    BY <1>2 DEF SerialInv
  <2>3. ASSUME NEW p \in Clients, NEW k \in StepCalls, UpdateStepWithStatus(p, k[1], k[2], k[3])
        PROVE  SerialInv'
    <3>1. /\ \E b : WriteStep(k[1], k[2], k[3], b)
          /\ pc[p] = "idle" /\ Resume(p, ChecksAfter(k[2], k[3]))
      BY <2>3 DEF UpdateStepWithStatus
    <3>2. /\ pc'[p] \in {"idle", "check"}
          /\ pc'[p] = "idle" => k[2] # Whole \/ k[3] \notin StepTerminal
      BY <2>0, <3>1 DEF Resume, ChecksAfter
    <3>3. VerdictHolds
      BY <2>2, <3>1 DEF CallSerial
    <3>4. AbortsRecorded' /\ CallSerial(p)'
      BY <1>2, <2>0, <3>1, <3>2, <3>3, SerialReport
    <3> QED
      BY <2>1, <3>4
  <2>4. ASSUME NEW p \in Clients, NEW k \in PostCalls, RunPostExecution(p, k[1], k[2], k[3])
        PROVE  SerialInv'
    <3>1. /\ \E b : WriteStep(k[1], k[2], k[3], b)
          /\ pc[p] = "idle" /\ Resume(p, ChecksAfter(k[2], k[3]) + 1)
      BY <2>4 DEF RunPostExecution
    <3>2. pc'[p] = "check"
      BY <2>0, <3>1 DEF Resume, ChecksAfter
    <3>3. VerdictHolds
      BY <2>2, <3>1 DEF CallSerial
    <3>4. AbortsRecorded' /\ CallSerial(p)'
      BY <1>2, <2>0, <3>1, <3>2, <3>3, SerialReport
    <3> QED
      BY <2>1, <3>4
  <2>5. ASSUME NEW p \in Clients, NEW k \in SkipCalls, SkipStepGuard(p, k[1], k[2])
        PROVE  SerialInv'
    <3>1. /\ UNCHANGED <<present, status, col, comp, canarySkips>> /\ present
          /\ pc[p] = "idle" /\ pc'[p] = "skip" /\ skipping'[p][1] = k[1]
          /\ SkipGuardPassed(k[1])
      BY <1>2, <2>0, <2>5 DEF SkipStepGuard, vars, CallInv, CallTypeOK
    <3>2. VerdictHolds'
      <4>1. VerdictHolds
        BY <2>2, <3>1 DEF CallSerial
      <4> QED
        BY <3>1, <4>1 DEF VerdictHolds, PrimaryFailures, SteadyStateCompleted, CanarySkipsToReset
    <3>3. AbortsRecorded' /\ CallSerial(p)'
      BY <2>0, <3>1, <3>2 DEF AbortsRecorded, CallSerial, SkipGuardPassed
    <3> QED
      BY <2>1, <3>3
  <2>6. ASSUME NEW p \in Clients, NEW s \in CloseCalls, CloseLoad(p, s)
        PROVE  SerialInv'
    <3>1. /\ UNCHANGED <<present, col, comp>> /\ present
          /\ pc'[p] = "close" /\ verdict'[p] \in Closed
      BY <2>0, <2>6, CallsAssumption DEF CloseLoad, vars, Closed
    <3>2. AbortsRecorded' /\ CallSerial(p)'
      BY <2>0, <3>1 DEF AbortsRecorded, CallSerial
    <3> QED
      BY <2>1, <3>2
  <2>7. ASSUME NEW p \in Clients, Proceed(p)
        PROVE  SerialInv'
    BY <1>2, <2>0, <2>1, <2>2, <2>7, SerialProceed
  <2>8. \A p \in Clients : ~Die(p)
    BY DEF Die, SerialRun
  <2>9. CASE Open
    <3>1. /\ ~present /\ present' /\ UNCHANGED <<pc, comp>> /\ status' = "in_progress"
          /\ col' = [n \in Steps |-> IF n = PushParsed THEN "running" ELSE "pending"]
      BY <2>9 DEF Open, Create, Seed, callVars
    <3>2. AbortsRecorded' /\ PrimaryFailures' = {} /\ ~SteadyStateCompleted'
      BY <3>1 DEF AbortsRecorded, PrimaryFailures, PrimaryFailure, SteadyStateCompleted
    <3>3. ASSUME NEW p \in Clients PROVE CallSerial(p)'
      BY <2>2, <3>1, <3>2 DEF CallSerial, VerdictHolds
    <3> QED
      BY <3>2, <3>3 DEF SerialInv
  <2>10. CASE Wait \/ UNCHANGED allVars
    <3>1. /\ UNCHANGED <<present, status, col, comp, canarySkips>>
          /\ UNCHANGED <<pc, todo, verdict, allOrNone, skipping>>
      BY <2>10 DEF Wait, Age, allVars, vars, callVars
    <3>2. /\ PrimaryFailures' = PrimaryFailures /\ SteadyStateCompleted' = SteadyStateCompleted
          /\ CascadeFailures' = CascadeFailures /\ CanarySkipsToReset' = CanarySkipsToReset
      BY <3>1 DEF PrimaryFailures, SteadyStateCompleted, CascadeFailures, CanarySkipsToReset
    <3>3. ASSUME NEW p \in Clients PROVE CallSerial(p)'
      BY <2>2, <3>1, <3>2 DEF CallSerial, Decided, VerdictHolds, SkipGuardPassed
    <3> QED
      BY <2>0, <3>1, <3>3 DEF SerialInv, AbortsRecorded
  <2> QED
    BY <1>2, <2>3, <2>4, <2>5, <2>6, <2>7, <2>8, <2>9, <2>10 DEF RunNext
<1> QED
  BY <1>1, <1>2, CallInvInductive, RunTypeCorrect, PTL DEF RunSpec

\* I1 and I2: between calls the slip status is borne out by the steps, for any
\* pipeline without components, any calls and any number of them, when no two
\* calls overlap and none fails.
THEOREM VerdictIsBorneOut ==
    ASSUME SerialRun
    PROVE  RunSpec => []VerdictMatchesSteps
<1>1. SerialInv => VerdictMatchesSteps
  <2>1. PICK p \in Clients : TRUE
    BY DEF SerialRun
  <2> QED
    BY <2>1 DEF SerialInv, CallSerial, VerdictHolds, VerdictMatchesSteps, AllIdle
<1> QED
  BY <1>1, SerialInvInductive, PTL

\* The skip guard looks before the write and is not atomic with it; with no
\* other call in between, what it passed is still so when the skip is written.
THEOREM GuardedFailuresStick ==
    ASSUME SerialRun
    PROVE  RunSpec => GuardedFailureSticks
<1>1. ASSUME SerialInv, CallInv, RunTypeOK, [RunNext]_allVars,
             NEW n \in SkipGuarded \cap Steps, col[n] = "failed"
      PROVE  col'[n] # "skipped"
  <2>0. TypeOK /\ AbortsRecorded /\ \A p \in Clients : CallSerial(p)
    BY <1>1 DEF RunTypeOK, SerialInv
  <2>1. ASSUME NEW m, NEW c, NEW s, NEW b, WriteStep(m, c, s, b), s = "skipped" => m # n
        PROVE  col'[n] # "skipped"
    <3>1. col'[n] = IF m = n /\ c = Whole THEN s ELSE col[n]
      BY <2>0, <2>1, SerialWrite
    <3> QED
      BY <1>1, <2>1, <3>1
  <2>2. ASSUME NEW p \in Clients, NEW k \in StepCalls, UpdateStepWithStatus(p, k[1], k[2], k[3])
        PROVE  col'[n] # "skipped"
    <3>1. \E b : WriteStep(k[1], k[2], k[3], b)
      BY <2>2 DEF UpdateStepWithStatus
    <3>2. k[3] # "skipped"
      BY DEF SerialRun
    <3> QED
      BY <2>1, <3>1, <3>2
  <2>3. ASSUME NEW p \in Clients, NEW k \in PostCalls, RunPostExecution(p, k[1], k[2], k[3])
        PROVE  col'[n] # "skipped"
    <3>1. \E b : WriteStep(k[1], k[2], k[3], b)
      BY <2>3 DEF RunPostExecution
    <3>2. k[3] # "skipped"
      BY DEF SerialRun
    <3> QED
      BY <2>1, <3>1, <3>2
  <2>4. ASSUME NEW p \in Clients, SkipStepWrite(p)
        PROVE  col'[n] # "skipped"
    <3>1. /\ WriteStep(skipping[p][1], Whole, "skipped", skipping[p][2])
          /\ SkipGuardPassed(skipping[p][1])
      BY <2>0, <2>4 DEF SkipStepWrite, CallSerial
    <3>2. skipping[p][1] # n
      BY <1>1, <3>1 DEF SkipGuardPassed
    <3> QED
      BY <2>1, <3>1, <3>2
  <2>5. ASSUME NEW p \in Clients, NEW m \in Steps, ResetStep(p, m)
        PROVE  col'[n] # "skipped"
    <3>1. \E b : WriteStep(m, Whole, "pending", b)
      BY <2>5 DEF ResetStep
    <3> QED
      BY <2>1, <3>1
  <2>6. ASSUME NEW p \in Clients, UNCHANGED col
        PROVE  col'[n] # "skipped"
    BY <1>1, <2>6
  <2>7. CASE Open
    BY <2>7 DEF Open, Create, Seed
  <2>8. CASE Wait \/ UNCHANGED allVars
    BY <1>1, <2>8 DEF Wait, Age, allVars, vars
  <2>9. ASSUME NEW p \in Clients,
               \/ \E k \in SkipCalls : SkipStepGuard(p, k[1], k[2])
               \/ \E s \in CloseCalls : CloseLoad(p, s)
               \/ CloseWrite(p) \/ CompletionLoad(p)
               \/ \E m \in Steps : ResetFails(p, m)
               \/ Conclude(p) \/ ConcludeFails(p) \/ Die(p)
        PROVE  UNCHANGED col
    BY <2>9 DEF SkipStepGuard, CloseLoad, CloseWrite, CompletionLoad, ResetFails, Conclude,
                ConcludeFails, Die, UpdateSlipStatus, vars
  <2> QED
    BY <1>1, <2>2, <2>3, <2>4, <2>5, <2>6, <2>7, <2>8, <2>9 DEF RunNext, Proceed
<1>2. SerialInv /\ CallInv /\ RunTypeOK /\ [RunNext]_allVars
        => \A n \in SkipGuarded \cap Steps : col[n] = "failed" => col'[n] # "skipped"
  BY <1>1
<1> QED
  BY <1>2, SerialInvInductive, CallInvInductive, RunTypeCorrect, PTL
     DEF RunSpec, GuardedFailureSticks
=============================================================================
