---------------------------- MODULE SlipPushProofs ----------------------------
(***************************************************************************)
(* Theorems about SlipPush, for any number of deliveries, retries and      *)
(* concurrent pushes.                                                      *)
(*                                                                         *)
(* The argument: at most one slip exists (OneSlip), so a push that found   *)
(* another delivery's slip, or none, knows that its own does not exist     *)
(* (NotYetWritten), and nobody but itself can write it; a push that met a  *)
(* duplicate met a slip, and slips only ever make room for another one     *)
(* (DuplicateHasSlip).                                                     *)
(***************************************************************************)
EXTENDS SlipPush, TLAPS

OneSlip == \A i, j \in Ids : Exists(i) /\ Exists(j) => i = j

DuplicateHasSlip ==
    \A p \in Pushes : pc[p] = "backstop" => \E i \in Ids : Exists(i)

OnePushPerId ==
    ~Overlap => \A p, q \in Pushes : IdOf[p] = IdOf[q] /\ InFlight(p) /\ InFlight(q) => p = q

NotYetWritten ==
    ~Overlap => \A p \in Pushes :
        pc[p] \in {"create", "repave", "backstop repave"} => ~Exists(IdOf[p])

PushInv ==
    TypeOK /\ OneSlip /\ DuplicateHasSlip /\ BackstopFindsSlip /\ OnePushPerId /\ NotYetWritten

-----------------------------------------------------------------------------
\* A slip is never mistaken for the absence of one.
LEMMA SlipsAreSlips == \A s \in Slips : s # NoSlip
  BY DEF Slips, NoSlip, SlipStatuses, None

\* What the write transactions of a push do to the rows: they keep the
\* invariant's part about rows, never leave the commit without a slip it had,
\* bring at most the push's own slip into being, and touch no slip but it and
\* those they are told to remove.
LEMMA CreateTxEffect ==
  ASSUME rows \in [Ids -> Slips \cup {NoSlip}], OneSlip,
         NEW c \in Ids, NEW gone \in SUBSET Ids, NEW outcome, CreateTx(c, gone, outcome)
  PROVE  /\ rows' \in [Ids -> Slips \cup {NoSlip}]
         /\ OneSlip'
         /\ (\E i \in Ids : Exists(i)) => \E i \in Ids : Exists(i)'
         /\ \A i \in Ids : Exists(i)' => Exists(i) \/ i = c
         /\ \A i \in Ids \ {c} : rows'[i] = rows[i] \/ (i \in gone /\ ~Exists(i)')
         /\ outcome = "duplicate" => rows' = rows /\ \E i \in Ids : Exists(i)
         /\ outcome # "duplicate" => outcome = "written" /\ \A i \in Ids \ (gone \cup {c}) : ~Exists(i)
<1>1. Written(c) \in Slips
  <2>1. CASE Exists(c)
    BY <2>1 DEF Written, Exists, Slips, SlipStatuses
  <2>2. CASE ~Exists(c)
    BY <2>2 DEF Written, Slips, SlipStatuses
  <2> QED
    BY <2>1, <2>2
<1>2. Written(c) # NoSlip
  BY <1>1, SlipsAreSlips
<1>3. CASE \E i \in Ids \ (gone \cup {c}) : Exists(i)
  <2>1. outcome = "duplicate" /\ rows' = rows
    BY <1>3 DEF CreateTx
  <2> QED
    BY <1>3, <2>1 DEF OneSlip, Exists
<1>4. CASE ~ \E i \in Ids \ (gone \cup {c}) : Exists(i)
  <2>1. /\ outcome = "written"
        /\ rows' = [i \in Ids |-> IF i = c THEN Written(c) ELSE IF i \in gone THEN NoSlip ELSE rows[i]]
    BY <1>4 DEF CreateTx
  <2>2. rows' \in [Ids -> Slips \cup {NoSlip}]
    BY <1>1, <2>1
  <2>3. Exists(c)'
    BY <1>2, <2>1 DEF Exists
  <2>4. \A i \in Ids \ {c} : ~Exists(i)'
    BY <1>4, <2>1 DEF Exists
  <2> QED
    BY <1>4, <2>1, <2>2, <2>3, <2>4 DEF OneSlip, Exists
<1> QED
  BY <1>3, <1>4

\* The three ways a push writes are CreateTx, or nothing.
LEMMA StoreEffect ==
  ASSUME NEW c \in Ids, NEW i \in Ids \cup {None}, NEW outcome,
         \/ Create(c, outcome)
         \/ ResetSlipInPlace(c, outcome)
         \/ i \in Ids /\ Repave(i, c, outcome)
  PROVE  \/ rows' = rows /\ outcome \notin {"written", "duplicate"}
         \/ \E gone \in SUBSET Ids : CreateTx(c, gone, outcome)
<1>1. CASE Create(c, outcome)
  BY <1>1 DEF Create
<1>2. CASE ResetSlipInPlace(c, outcome)
  BY <1>2 DEF ResetSlipInPlace, Create
<1>3. CASE i \in Ids /\ Repave(i, c, outcome)
  <2>1. {i} \in SUBSET Ids
    BY <1>3
  <2> QED
    BY <1>3, <2>1 DEF Repave
<1> QED
  BY <1>1, <1>2, <1>3

-----------------------------------------------------------------------------
(***************************************************************************)
(* One step of a push: where it arrives, and what is known there.          *)
(***************************************************************************)
PushStep(p) == Proceed(p) \/ CreateSlipForPush(p) \/ Fault(p)

NobodyHasSlip == \A i \in Ids : ~Exists(i)

Arrives(p, w) ==
    /\ w \in Places \ {"idle"}
    /\ pc' = [pc EXCEPT ![p] = w]
    /\ IF w = "load" THEN CreateSlipForPush(p) ELSE InFlight(p)
    /\ w = "create" => rows' = rows /\ NobodyHasSlip
    /\ w \in {"create again", "reset again", "repave again"} =>
          pc[p] = "backstop" /\ NobodyHasSlip
    /\ w = "repave" => /\ rows' = rows
                       /\ existing'[p] \in Ids \ {IdOf[p]} /\ Exists(existing'[p])
    /\ w \in {"reset", "reset again"} => existing'[p] = IdOf[p]
    /\ w = "backstop reset" => conflict'[p] = IdOf[p]
    /\ w \in {"repave again", "revisit"} => existing'[p] \in Ids \ {IdOf[p]}
    /\ w \in {"retry", "reload"} => existing'[p] \in Ids
    /\ w = "backstop" => rows' = rows /\ ~NobodyHasSlip
    /\ w = "backstop repave" => /\ rows' = rows
                                /\ conflict'[p] \in Ids \ {IdOf[p]} /\ Exists(conflict'[p])
    /\ w = "backstop reload" => conflict'[p] \in Ids

\* A push changes what it knows of slips itself, and no other push's knowledge.
Learns(p) ==
    /\ result' \in [Pushes -> Ids \cup {None}]
    /\ existing' \in [Pushes -> Ids \cup {None}]
    /\ conflict' \in [Pushes -> Ids \cup {None}]
    /\ \A q \in Pushes \ {p} : existing'[q] = existing[q] /\ conflict'[q] = conflict[q]

\* The writes of a push, each with the place it is made at.
Writes(p) ==
    \/ rows' = rows
    \/ /\ InFlight(p)
       /\ \E gone \in SUBSET Ids, outcome \in {"written"} : CreateTx(IdOf[p], gone, outcome)

LEMMA PushArrives ==
  ASSUME TypeOK, NEW p \in Pushes, PushStep(p)
  PROVE  (\E w \in Places : Arrives(p, w)) /\ Learns(p)
<1> USE DEF TypeOK, Places, Arrives, Learns, InFlight, NobodyHasSlip
<1>0. IdOf[p] \in Ids
  BY PushAssumption
<1>1. CASE LoadByCommit(p)
  <2>1. PICK i \in Ids \cup {None} :
           /\ Found(i)
           /\ existing' = [existing EXCEPT ![p] = i]
           /\ \/ i = None /\ Goto(p, "create")
              \/ i # None /\ Goto(p, "retry")
              \/ i # None /\ Return(p, i)
              \/ i # None /\ Goto(p, Persist(p, i))
    BY <1>1 DEF LoadByCommit
  <2>2. pc[p] = "load" /\ rows' = rows /\ conflict' = conflict
    BY <1>1 DEF LoadByCommit
  <2>3. Learns(p) /\ existing'[p] = i
    BY <1>0, <2>1, <2>2 DEF Goto, Return
  <2>4. CASE i = None /\ Goto(p, "create")
    <3>1. NobodyHasSlip
      BY <2>1, <2>4, PushAssumption DEF Found
    <3> QED
      BY <2>2, <2>3, <2>4, <3>1 DEF Goto
  <2>5. CASE i # None /\ (Goto(p, "retry") \/ Return(p, i))
    BY <2>1, <2>2, <2>3, <2>5 DEF Goto, Return
  <2>6. CASE i # None /\ Goto(p, Persist(p, i))
    <3>1. i \in Ids /\ Exists(i)
      BY <2>1, <2>6 DEF Found
    <3>2. CASE i = IdOf[p]
      BY <2>2, <2>3, <2>6, <3>1, <3>2 DEF Goto, Persist
    <3>3. CASE i # IdOf[p]
      BY <2>2, <2>3, <2>6, <3>1, <3>3 DEF Goto, Persist
    <3> QED
      BY <3>2, <3>3
  <2> QED
    BY <2>1, <2>4, <2>5, <2>6
<1>2. CASE HandlePushRetry(p)
  BY <1>2 DEF HandlePushRetry, Goto, Fail
<1>3. CASE Reload(p)
  BY <1>3 DEF Reload, Goto, Return, Fail
<1>4. CASE CreateFreshSlip(p)
  BY <1>0, <1>4 DEF CreateFreshSlip, Goto, Return, Fail, Conflicted, Create, CreateTx
<1>5. CASE ResetOwnSlip(p)
  <2>1. PICK outcome \in {"written", "duplicate", "claimed"} :
           /\ ResetSlipInPlace(IdOf[p], outcome)
           /\ CASE outcome = "written"   -> Return(p, IdOf[p])
                [] outcome = "claimed"   -> Goto(p, "reload")
                [] outcome = "duplicate" -> Conflicted(p, pc[p] = "reset again")
    BY <1>5 DEF ResetOwnSlip
  <2>2. InFlight(p) /\ existing' = existing /\ conflict' = conflict
    BY <1>5 DEF ResetOwnSlip
  <2>3. outcome = "duplicate" => rows' = rows /\ ~NobodyHasSlip
    BY <2>1 DEF ResetSlipInPlace, Create, CreateTx
  <2>4. pc[p] \in {"reset", "reset again"} /\ existing[p] \in Ids
    BY <1>0, <1>5 DEF ResetOwnSlip
  <2> QED
    BY <1>0, <2>1, <2>2, <2>3, <2>4 DEF Goto, Return, Fail, Conflicted
<1>6. CASE RepaveExistingSlip(p)
  BY <1>0, <1>6 DEF RepaveExistingSlip, Goto, Return, Fail, Conflicted, Repave, CreateTx
<1>7. CASE Revisit(p)
  BY <1>7 DEF Revisit, Goto, Fail
<1>8. CASE BackstopLoad(p)
  <2>1. PICK i \in Ids \cup {None} :
           /\ Found(i)
           /\ conflict' = [conflict EXCEPT ![p] = i]
           /\ \/ i = None /\ Goto(p, Again(p))
              \/ i # None /\ Return(p, i)
              \/ i = IdOf[p] /\ Goto(p, "backstop reset")
              \/ i # None /\ i # IdOf[p] /\ Goto(p, "backstop repave")
    BY <1>8 DEF BackstopLoad
  <2>2. pc[p] = "backstop" /\ rows' = rows /\ existing' = existing
    BY <1>8 DEF BackstopLoad
  <2>3. Learns(p) /\ conflict'[p] = i
    BY <1>0, <2>1, <2>2 DEF Goto, Return
  <2>4. CASE i = None /\ Goto(p, Again(p))
    <3>1. NobodyHasSlip
      BY <2>1, <2>4, PushAssumption DEF Found
    <3> QED
      BY <2>2, <2>3, <2>4, <3>1 DEF Goto, Again
  <2>5. CASE i # None /\ Return(p, i)
    BY <2>1, <2>2, <2>3, <2>5 DEF Return
  <2>7. CASE i = IdOf[p] /\ Goto(p, "backstop reset")
    BY <2>1, <2>2, <2>3, <2>7 DEF Goto
  <2>6. CASE i # None /\ i # IdOf[p] /\ Goto(p, "backstop repave")
    <3>1. i \in Ids /\ Exists(i)
      BY <2>1, <2>6 DEF Found
    <3> QED
      BY <2>2, <2>3, <2>6, <3>1 DEF Goto
  <2> QED
    BY <2>1, <2>4, <2>5, <2>6, <2>7
<1>9. CASE BackstopReset(p)
  <2>1. \/ Return(p, IdOf[p])
        \/ Goto(p, "backstop reload")
        \/ Fail(p)
    BY <1>9 DEF BackstopReset
  <2>2. /\ pc[p] = "backstop reset" /\ conflict[p] = IdOf[p]
        /\ existing' = existing /\ conflict' = conflict
    BY <1>9 DEF BackstopReset
  <2> QED
    BY <1>0, <2>1, <2>2 DEF Goto, Return, Fail
<1>10. CASE BackstopRepave(p)
  BY <1>0, <1>10 DEF BackstopRepave, Goto, Return, Fail, WentLive
<1>11. CASE BackstopReload(p)
  BY <1>11 DEF BackstopReload, Goto, Return, Fail
<1>12. CASE CreateSlipForPush(p)
  BY <1>12 DEF CreateSlipForPush, Goto
<1>13. CASE Fault(p)
  BY <1>13 DEF Fault, Goto, Fail
<1> QED
  BY <1>1, <1>2, <1>3, <1>4, <1>5, <1>6, <1>7, <1>8, <1>9, <1>10, <1>11, <1>12, <1>13
  DEF PushStep, Proceed

LEMMA PushWrites ==
  ASSUME TypeOK, NEW p \in Pushes, PushStep(p)
  PROVE  Writes(p)
<1> USE DEF Writes, InFlight
<1>0. IdOf[p] \in Ids
  BY PushAssumption
<1>1. ASSUME NEW i \in Ids \cup {None}, NEW outcome, InFlight(p),
             \/ Create(IdOf[p], outcome)
             \/ ResetSlipInPlace(IdOf[p], outcome)
             \/ i \in Ids /\ Repave(i, IdOf[p], outcome)
      PROVE  Writes(p)
  <2>1. \/ rows' = rows
        \/ \E gone \in SUBSET Ids : CreateTx(IdOf[p], gone, outcome)
    BY <1>0, <1>1, StoreEffect
  <2> QED
    BY <1>1, <2>1 DEF CreateTx
<1>2. CASE CreateFreshSlip(p)
  <2>1. InFlight(p) /\ \E outcome : Create(IdOf[p], outcome)
    BY <1>2 DEF CreateFreshSlip
  <2> QED
    BY <1>1, <2>1
<1>3. CASE ResetOwnSlip(p)
  <2>1. InFlight(p) /\ \E outcome : ResetSlipInPlace(IdOf[p], outcome)
    BY <1>3 DEF ResetOwnSlip
  <2> QED
    BY <1>1, <2>1
<1>4. CASE RepaveExistingSlip(p)
  <2>1. /\ InFlight(p) /\ existing[p] \in Ids
        /\ \E outcome : Repave(existing[p], IdOf[p], outcome)
    BY <1>4 DEF RepaveExistingSlip, TypeOK
  <2> QED
    BY <1>1, <2>1
<1>5. CASE BackstopReset(p)
  <2>1. InFlight(p) /\ \E outcome : ResetSlipInPlace(IdOf[p], outcome)
    BY <1>5 DEF BackstopReset
  <2> QED
    BY <1>1, <2>1
<1>6. CASE BackstopRepave(p)
  <2>1. /\ InFlight(p) /\ conflict[p] \in Ids
        /\ \E outcome : Repave(conflict[p], IdOf[p], outcome)
    BY <1>6 DEF BackstopRepave, TypeOK
  <2> QED
    BY <1>1, <2>1
<1>7. CASE \/ LoadByCommit(p) \/ HandlePushRetry(p) \/ Reload(p) \/ Revisit(p)
           \/ BackstopLoad(p) \/ BackstopReload(p) \/ CreateSlipForPush(p) \/ Fault(p)
  BY <1>7 DEF LoadByCommit, HandlePushRetry, Reload, Revisit, BackstopLoad,
              BackstopReload, CreateSlipForPush, Fault
<1> QED
  BY <1>2, <1>3, <1>4, <1>5, <1>6, <1>7 DEF PushStep, Proceed

-----------------------------------------------------------------------------
(***************************************************************************)
(* The others, in the same terms.                                          *)
(***************************************************************************)
OthersStep ==
    \E i \in Ids :
       \/ \E s \in RunStatuses : UpdateSlipStatus(i, s)
       \/ \E busy \in BOOLEAN : UpdateStep(i, busy)
       \/ \E expected \in Expectations : ClaimSlip(i, expected)
       \/ ReleaseClaim(i)

\* Runs, operators and claimants neither bring a slip about nor remove one.
LEMMA OthersKeepSlips ==
  ASSUME TypeOK, OthersStep
  PROVE  /\ UNCHANGED pushVars
         /\ rows' \in [Ids -> Slips \cup {NoSlip}]
         /\ \A i \in Ids : Exists(i)' <=> Exists(i)
<1>1. PICK i \in Ids :
         \/ \E s \in RunStatuses : UpdateSlipStatus(i, s)
         \/ \E busy \in BOOLEAN : UpdateStep(i, busy)
         \/ \E expected \in Expectations : ClaimSlip(i, expected)
         \/ ReleaseClaim(i)
  BY DEF OthersStep
<1>2. Exists(i) /\ UNCHANGED pushVars
  BY <1>1 DEF UpdateSlipStatus, UpdateStep, ClaimSlip, ReleaseClaim
<1>3. rows[i] \in Slips
  BY <1>2 DEF TypeOK, Exists
<1>4. \E r \in Slips : rows' = [rows EXCEPT ![i] = r]
  <2>1. ASSUME NEW s \in RunStatuses, UpdateSlipStatus(i, s)
        PROVE  \E r \in Slips : rows' = [rows EXCEPT ![i] = r]
    <3> DEFINE r == [rows[i] EXCEPT !.status = s,
                        !.claimedFrom = IF s \in SlipTerminal THEN Unclaimed ELSE @]
    <3>1. r \in Slips
      BY <1>3, PushAssumption DEF Slips
    <3>2. rows' = [rows EXCEPT ![i] = r]
      BY <1>3, <2>1 DEF UpdateSlipStatus, TypeOK, Slips
    <3> QED
      BY <3>1, <3>2
  <2>2. ASSUME NEW busy \in BOOLEAN, UpdateStep(i, busy)
        PROVE  \E r \in Slips : rows' = [rows EXCEPT ![i] = r]
    <3>1. [rows[i] EXCEPT !.busy = busy] \in Slips
      BY <1>3 DEF Slips
    <3> QED
      BY <2>2, <3>1 DEF UpdateStep
  <2>3. ASSUME ReleaseClaim(i) \/ \E expected \in Expectations : ClaimSlip(i, expected)
        PROVE  \E r \in Slips : rows' = [rows EXCEPT ![i] = r]
    <3>1. \A s \in SlipStatuses \cup {Unclaimed} : [rows[i] EXCEPT !.claimedFrom = s] \in Slips
      BY <1>3 DEF Slips
    <3>2. rows[i].status \in SlipStatuses
      BY <1>3 DEF Slips
    <3> QED
      BY <2>3, <3>1, <3>2 DEF ReleaseClaim, ClaimSlip
  <2> QED
    BY <1>1, <2>1, <2>2, <2>3
<1>5. PICK r \in Slips : rows' = [rows EXCEPT ![i] = r]
  BY <1>4
<1>6. r # NoSlip
  BY SlipsAreSlips
<1>7. /\ rows' \in [Ids -> Slips \cup {NoSlip}]
      /\ rows'[i] = r /\ \A j \in Ids \ {i} : rows'[j] = rows[j]
  BY <1>5 DEF TypeOK
<1> QED
  BY <1>2, <1>6, <1>7 DEF Exists

-----------------------------------------------------------------------------
\* PushInv is inductive.
LEMMA PushInvInductive == Spec => []PushInv
<1>1. Init => PushInv
  BY PushAssumption DEF Init, PushInv, TypeOK, OneSlip, DuplicateHasSlip, BackstopFindsSlip,
     OnePushPerId, NotYetWritten, InFlight, Places, Exists
<1>2. PushInv /\ [Next]_vars => PushInv'
  <2> SUFFICES ASSUME PushInv, [Next]_vars
               PROVE  PushInv'
    OBVIOUS
  <2> USE DEF PushInv
  <2>1. CASE UNCHANGED vars
    BY <2>1 DEF vars, pushVars, TypeOK, OneSlip, DuplicateHasSlip, BackstopFindsSlip,
       OnePushPerId, NotYetWritten, InFlight, Exists
  <2>2. CASE OthersStep
    <3>1. /\ UNCHANGED <<pc, existing, conflict, result>>
          /\ rows' \in [Ids -> Slips \cup {NoSlip}]
          /\ \A i \in Ids : Exists(i)' <=> Exists(i)
      BY <2>2, OthersKeepSlips DEF pushVars
    <3>2. TypeOK'
      BY <3>1 DEF TypeOK
    <3>3. OneSlip' /\ DuplicateHasSlip' /\ BackstopFindsSlip'
      BY <3>1 DEF OneSlip, DuplicateHasSlip, BackstopFindsSlip
    <3>4. OnePushPerId' /\ NotYetWritten'
      BY <3>1, PushAssumption DEF OnePushPerId, NotYetWritten, InFlight
    <3> QED
      BY <3>2, <3>3, <3>4
  <2>3. ASSUME NEW p \in Pushes, PushStep(p)
        PROVE  PushInv'
    <3>0. IdOf[p] \in Ids
      BY PushAssumption
    <3>1. PICK w \in Places : Arrives(p, w)
      BY <2>3, PushArrives
    <3>2. Learns(p) /\ Writes(p)
      BY <2>3, PushArrives, PushWrites
    <3>3. /\ pc' = [pc EXCEPT ![p] = w]
          /\ pc'[p] = w /\ \A q \in Pushes \ {p} : pc'[q] = pc[q]
      BY <3>1 DEF Arrives, TypeOK
    <3>4. /\ rows' \in [Ids -> Slips \cup {NoSlip}]
          /\ OneSlip'
          /\ (\E i \in Ids : Exists(i)) => \E i \in Ids : Exists(i)'
          /\ \A i \in Ids : Exists(i)' => Exists(i) \/ (i = IdOf[p] /\ InFlight(p))
      <4>1. CASE rows' = rows
        BY <4>1 DEF TypeOK, OneSlip, Exists
      <4>2. CASE InFlight(p) /\ \E gone \in SUBSET Ids, outcome \in {"written"} :
                                    CreateTx(IdOf[p], gone, outcome)
        BY <3>0, <4>2, CreateTxEffect DEF TypeOK
      <4> QED
        BY <3>2, <4>1, <4>2 DEF Writes
    <3>5. TypeOK'
      <4>1. ASSUME NEW q \in Pushes \ {p}
            PROVE  pc'[q] = pc[q] /\ existing'[q] = existing[q] /\ conflict'[q] = conflict[q]
        BY <3>2, <3>3 DEF Learns
      <4>2. /\ rows' \in [Ids -> Slips \cup {NoSlip}]
            /\ pc' \in [Pushes -> Places]
            /\ existing' \in [Pushes -> Ids \cup {None}]
            /\ conflict' \in [Pushes -> Ids \cup {None}]
            /\ result' \in [Pushes -> Ids \cup {None}]
        BY <3>2, <3>3, <3>4 DEF TypeOK, Learns
      <4>3. ASSUME NEW q \in Pushes
            PROVE  /\ pc'[q] \in {"reset", "reset again"} => existing'[q] = IdOf[q]
                   /\ pc'[q] = "backstop reset" => conflict'[q] = IdOf[q]
                   /\ pc'[q] \in {"repave", "repave again", "revisit"} => existing'[q] \in Ids \ {IdOf[q]}
                   /\ pc'[q] \in {"retry", "reload"} => existing'[q] \in Ids
                   /\ pc'[q] = "backstop repave" => conflict'[q] \in Ids \ {IdOf[q]}
                   /\ pc'[q] = "backstop reload" => conflict'[q] \in Ids
        <5>1. CASE q = p
          BY <3>1, <3>3, <5>1 DEF Arrives, DuplicateHasSlip, NobodyHasSlip
        <5>2. CASE q # p
          BY <4>1, <5>2 DEF TypeOK
        <5> QED
          BY <5>1, <5>2
      <4> QED
        BY <4>2, <4>3 DEF TypeOK
    <3>6. DuplicateHasSlip'
      BY <3>1, <3>3, <3>4 DEF DuplicateHasSlip, Arrives, NobodyHasSlip, Exists
    <3>7. BackstopFindsSlip'
      BY <3>1, <3>3 DEF BackstopFindsSlip, DuplicateHasSlip, Arrives, NobodyHasSlip
    <3>8. OnePushPerId'
      <4>1. InFlight(p) \/ (~Overlap => \A q \in Pushes : IdOf[q] = IdOf[p] => ~InFlight(q))
        BY <3>1 DEF Arrives, CreateSlipForPush
      <4>2. \A q \in Pushes \ {p} : InFlight(q)' <=> InFlight(q)
        BY <3>3 DEF InFlight
      <4> QED
        BY <4>1, <4>2 DEF OnePushPerId
    <3>9. NotYetWritten'
      <4> SUFFICES ASSUME ~Overlap, NEW q \in Pushes,
                          pc'[q] \in {"create", "repave", "backstop repave"}
                   PROVE  ~Exists(IdOf[q])'
        BY DEF NotYetWritten
      <4>0. IdOf[q] \in Ids
        BY PushAssumption
      <4>1. CASE q # p
        BY <3>3, <3>4, <4>0, <4>1 DEF NotYetWritten, OnePushPerId, InFlight
      <4>2. CASE q = p
        <5>1. rows' = rows
          BY <3>1, <3>3, <4>2 DEF Arrives
        <5>2. ~Exists(IdOf[p])
          BY <3>0, <3>1, <3>3, <4>2 DEF Arrives, NobodyHasSlip, OneSlip
        <5> QED
          BY <4>2, <5>1, <5>2 DEF Exists
      <4> QED
        BY <4>1, <4>2
    <3> QED
      BY <3>4, <3>5, <3>6, <3>7, <3>8, <3>9
  <2> QED
    BY <2>1, <2>2, <2>3 DEF Next, PushStep, OthersStep
<1> QED
  BY <1>1, <1>2, PTL DEF Spec

-----------------------------------------------------------------------------
\* The type invariant: a push resets only its own slip, repaves only another's.
THEOREM PushTypeCorrect == Spec => []TypeOK
<1>1. PushInv => TypeOK
  BY DEF PushInv
<1> QED
  BY <1>1, PushInvInductive, PTL

\* The backstop of a push that met a duplicate never comes up empty.
THEOREM BackstopMeetsSlip == Spec => []BackstopFindsSlip
<1>1. PushInv => BackstopFindsSlip
  BY DEF PushInv
<1> QED
  BY <1>1, PushInvInductive, PTL

\* A commit that has a slip has exactly one from then on.
THEOREM CommitNeverBare == Spec => CommitKeepsOneSlip
<1>1. PushInv /\ PushInv' /\ [Next]_vars
        => [(\E i \in Ids : Exists(i)) =>
              \E i \in Ids : Exists(i)' /\ \A j \in Ids \ {i} : ~Exists(j)']_vars
  <2> SUFFICES ASSUME PushInv, PushInv', Next, \E i \in Ids : Exists(i)
               PROVE  \E i \in Ids : Exists(i)' /\ \A j \in Ids \ {i} : ~Exists(j)'
    OBVIOUS
  <2>1. ASSUME NEW p \in Pushes, PushStep(p)
        PROVE  \E i \in Ids : Exists(i)'
    <3>1. IdOf[p] \in Ids
      BY PushAssumption
    <3>2. CASE rows' = rows
      BY <3>2 DEF Exists
    <3>3. CASE \E gone \in SUBSET Ids, outcome \in {"written"} : CreateTx(IdOf[p], gone, outcome)
      BY <3>1, <3>3, CreateTxEffect DEF PushInv, TypeOK
    <3> QED
      BY <2>1, <3>2, <3>3, PushWrites DEF Writes, PushInv
  <2>2. ASSUME OthersStep
        PROVE  \E i \in Ids : Exists(i)'
    BY <2>2, OthersKeepSlips DEF PushInv
  <2>3. \E i \in Ids : Exists(i)'
    BY <2>1, <2>2 DEF Next, PushStep, OthersStep
  <2> QED
    BY <2>3 DEF PushInv, OneSlip
<1> QED
  BY <1>1, PushInvInductive, PTL DEF Spec, CommitKeepsOneSlip

-----------------------------------------------------------------------------
(***************************************************************************)
(* A push spares runs.                                                     *)
(***************************************************************************)
Protected(p, i) ==
    \/ i # IdOf[p] /\ (Live(i) \/ Claimed(i))
    \/ i = IdOf[p] /\ Claimed(i) /\ ~Overlap

\* A creating push meets no slip that it must spare: its own does not exist yet.
LEMMA CreateSpares ==
  ASSUME PushInv, NEW p \in Pushes, NEW outcome, Create(IdOf[p], outcome),
         ~Overlap => ~Exists(IdOf[p]) \/ ~Claimed(IdOf[p]),
         NEW i \in Ids, Protected(p, i)
  PROVE  rows'[i] = rows[i]
<1>1. i # IdOf[p] /\ Exists(i)
  BY DEF Protected, Live, Claimed
<1> QED
  BY <1>1 DEF Create, CreateTx

LEMMA RepaveSpares ==
  ASSUME PushInv, NEW p \in Pushes, NEW j \in Ids, NEW outcome, Repave(j, IdOf[p], outcome),
         ~Overlap => ~Exists(IdOf[p]),
         NEW i \in Ids, Protected(p, i)
  PROVE  rows'[i] = rows[i]
<1>1. i # IdOf[p] /\ Exists(i) /\ (Live(i) \/ Claimed(i))
  BY DEF Protected, Live, Claimed
<1>2. CASE i = j
  <2>1. ~Superseded(i)
    BY <1>1 DEF Superseded, Live, Claimed, Repaveable, SlipLive, SlipTerminal
  <2> QED
    BY <1>1, <1>2, <2>1 DEF Repave
<1>3. CASE i # j
  BY <1>1, <1>3 DEF Repave, CreateTx
<1> QED
  BY <1>2, <1>3

LEMMA ResetSpares ==
  ASSUME PushInv, NEW p \in Pushes, NEW outcome, ResetSlipInPlace(IdOf[p], outcome),
         NEW i \in Ids, Protected(p, i)
  PROVE  rows'[i] = rows[i]
<1>1. CASE Exists(IdOf[p]) /\ ~ResetAllowed(rows[IdOf[p]].claimedFrom)
  BY <1>1 DEF ResetSlipInPlace
<1>2. CASE ~(Exists(IdOf[p]) /\ ~ResetAllowed(rows[IdOf[p]].claimedFrom))
  <2>1. ~Claimed(IdOf[p]) /\ Create(IdOf[p], outcome)
    BY <1>2 DEF ResetSlipInPlace, Claimed, ResetAllowed
  <2> QED
    BY <2>1, CreateSpares
<1> QED
  BY <1>1, <1>2

LEMMA PushSpares ==
  ASSUME PushInv, NEW p \in Pushes, PushStep(p), NEW i \in Ids, Protected(p, i)
  PROVE  rows'[i] = rows[i]
<1>1. CASE CreateFreshSlip(p)
  BY <1>1, CreateSpares DEF CreateFreshSlip, PushInv, BackstopFindsSlip, NotYetWritten
<1>2. CASE ResetOwnSlip(p)
  BY <1>2, ResetSpares DEF ResetOwnSlip
<1>3. CASE RepaveExistingSlip(p)
  <2>1. existing[p] \in Ids /\ (~Overlap => ~Exists(IdOf[p]))
    BY <1>3 DEF RepaveExistingSlip, PushInv, TypeOK, BackstopFindsSlip, NotYetWritten
  <2> QED
    BY <1>3, <2>1, RepaveSpares DEF RepaveExistingSlip
<1>4. CASE BackstopReset(p)
  BY <1>4, ResetSpares DEF BackstopReset
<1>5. CASE BackstopRepave(p)
  <2>1. conflict[p] \in Ids /\ (~Overlap => ~Exists(IdOf[p]))
    BY <1>5 DEF BackstopRepave, PushInv, TypeOK, NotYetWritten
  <2> QED
    BY <1>5, <2>1, RepaveSpares DEF BackstopRepave
<1>6. CASE \/ LoadByCommit(p) \/ HandlePushRetry(p) \/ Reload(p) \/ Revisit(p)
           \/ BackstopLoad(p) \/ BackstopReload(p) \/ CreateSlipForPush(p) \/ Fault(p)
  BY <1>6 DEF LoadByCommit, HandlePushRetry, Reload, Revisit, BackstopLoad,
              BackstopReload, CreateSlipForPush, Fault
<1> QED
  BY <1>1, <1>2, <1>3, <1>4, <1>5, <1>6 DEF PushStep, Proceed

\* No push, whatever it decided and however long ago, touches another
\* delivery's live slip or a claimed one.
THEOREM RunsSpared == Spec => PushSparesRuns
<1>1. PushInv /\ [Next]_vars
        => [\A p \in Pushes : pc'[p] # pc[p] =>
              \A i \in Ids :
                 \/ i # IdOf[p] /\ (Live(i) \/ Claimed(i))
                 \/ i = IdOf[p] /\ Claimed(i) /\ ~Overlap
                 => rows'[i] = rows[i]]_vars
  <2> SUFFICES ASSUME PushInv, Next, NEW p \in Pushes, pc'[p] # pc[p],
                      NEW i \in Ids, Protected(p, i)
               PROVE  rows'[i] = rows[i]
    BY DEF Protected
  <2>1. ~OthersStep
    BY OthersKeepSlips DEF PushInv, pushVars
  <2>2. PICK q \in Pushes : PushStep(q)
    BY <2>1 DEF Next, PushStep, OthersStep
  <2>3. q = p
    BY <2>2, PushArrives DEF Arrives, PushInv, TypeOK
  <2> QED
    BY <2>2, <2>3, PushSpares
<1> QED
  BY <1>1, PushInvInductive, PTL DEF Spec, PushSparesRuns

-----------------------------------------------------------------------------
(***************************************************************************)
(* Pushes that race only with each other.                                  *)
(*                                                                         *)
(* While a push is under way nobody ends a slip, so every slip written     *)
(* since it began is live, and a live slip is never repaved.  What the     *)
(* push read is therefore still so, or a live slip has taken its place -   *)
(* and then the backstop, which the unique index sends it to, returns it.  *)
(***************************************************************************)
Safe(i) == Live(i) \/ Claimed(i)
SomeLive == \E i \in Ids : Live(i)

RaceInv(p) ==
    /\ pc[p] = "create" => NobodyHasSlip \/ SomeLive
    /\ pc[p] \in {"reset", "repave"} => SomeLive \/ \E i \in Ids : existing[p] = i /\ Exists(i)
    /\ pc[p] \in {"retry", "reload", "revisit"} => \E i \in Ids : existing[p] = i /\ Safe(i)
    /\ pc[p] = "backstop" => SomeLive
    /\ pc[p] \notin {"backstop reset", "backstop repave", "backstop reload"}

LEMMA WrittenIsLive ==
  ASSUME NEW c \in Ids, NEW gone \in SUBSET Ids, CreateTx(c, gone, "written")
  PROVE  /\ rows'[c] = Written(c)
         /\ Live(c)'
<1>1. rows'[c] = Written(c)
  BY DEF CreateTx
<1>2. Written(c).status = "in_progress"
  BY DEF Written
<1>3. Written(c) # NoSlip
  BY <1>2 DEF NoSlip, None
<1> QED
  BY <1>1, <1>2, <1>3 DEF Live, Exists, SlipLive, SlipTerminal

\* A push keeps live slips live and claimed ones claimed, and what it writes
\* is live.
LEMMA PushKeepsSafe ==
  ASSUME PushInv, NEW p \in Pushes, PushStep(p)
  PROVE  /\ \A i \in Ids : Live(i) => Live(i)'
         /\ \A i \in Ids : Safe(i) => Safe(i)'
         /\ rows' = rows \/ SomeLive'
<1>0. IdOf[p] \in Ids
  BY PushAssumption
<1>1. \A i \in Ids \ {IdOf[p]} : Safe(i) => rows'[i] = rows[i]
  BY PushSpares DEF Protected, Safe
<1>2. \/ rows' = rows
      \/ rows'[IdOf[p]] = Written(IdOf[p]) /\ Live(IdOf[p])'
  BY <1>0, PushWrites, WrittenIsLive DEF Writes, PushInv
<1>3. ASSUME NEW i \in Ids
      PROVE  (Live(i) => Live(i)') /\ (Safe(i) => Safe(i)')
  <2>1. CASE rows'[i] = rows[i]
    BY <2>1 DEF Safe, Live, Claimed, Exists
  <2>2. CASE i = IdOf[p] /\ Live(IdOf[p])'
    BY <2>2 DEF Safe
  <2> QED
    BY <1>1, <1>2, <2>1, <2>2 DEF Safe
<1> QED
  BY <1>0, <1>2, <1>3 DEF SomeLive

\* What the other pushes know stays so.
LEMMA RaceStays ==
  ASSUME PushInv, NEW p \in Pushes, PushStep(p), NEW q \in Pushes \ {p}, RaceInv(q)
  PROVE  RaceInv(q)'
<1>1. pc'[q] = pc[q] /\ existing'[q] = existing[q]
  <2>1. TypeOK
    BY DEF PushInv
  <2>2. PICK w \in Places : Arrives(p, w)
    BY <2>1, PushArrives
  <2>3. Learns(p)
    BY <2>1, PushArrives
  <2> QED
    BY <2>1, <2>2, <2>3 DEF Arrives, Learns, TypeOK
<1>2. SomeLive => SomeLive'
  BY PushKeepsSafe DEF SomeLive
<1>3. /\ NobodyHasSlip => NobodyHasSlip' \/ SomeLive'
      /\ \A i \in Ids : Exists(i) => Exists(i)' \/ SomeLive'
  BY PushKeepsSafe DEF NobodyHasSlip, Exists
<1>4. \A i \in Ids : Safe(i) => Safe(i)'
  BY PushKeepsSafe
<1> QED
  BY <1>1, <1>2, <1>3, <1>4 DEF RaceInv

\* One step of a push in the race: it fails by a fault only, and returns a slip
\* that is live or claimed, unless it starts nothing.
LEMMA RaceStep ==
  ASSUME PushInv, NEW p \in Pushes, PushStep(p), RaceInv(p)
  PROVE  /\ RaceInv(p)'
         /\ pc'[p] = "failed" => Fault(p)
         /\ pc'[p] = "done" => p \notin Dispatching \/ \E i \in Ids : result'[p] = i /\ Safe(i)'
<1> DEFINE Goal == /\ RaceInv(p)'
                   /\ pc'[p] = "failed" => Fault(p)
                   /\ pc'[p] = "done" => p \notin Dispatching \/ \E i \in Ids : result'[p] = i /\ Safe(i)'
<1>0. /\ IdOf[p] \in Ids /\ None \notin Ids
      /\ pc \in [Pushes -> Places] /\ existing \in [Pushes -> Ids \cup {None}]
      /\ result \in [Pushes -> Ids \cup {None}]
      /\ pc[p] \notin {"create again", "reset again", "repave again"}
  BY PushAssumption DEF PushInv, TypeOK, BackstopFindsSlip
<1>1. \A i \in Ids : Safe(i) => Safe(i)'
  BY PushKeepsSafe
\* Two ends that need no knowledge.
<1>2. ASSUME NEW i \in Ids, Return(p, i), Safe(i)' PROVE Goal
  BY <1>0, <1>2 DEF Return, RaceInv
<1>3. ASSUME Goto(p, "backstop"), SomeLive' PROVE Goal
  BY <1>0, <1>3 DEF Goto, RaceInv
<1>4. ASSUME NEW i \in Ids, existing'[p] = i, Safe(i),
             Goto(p, "retry") \/ Goto(p, "reload") \/ Goto(p, "revisit")
      PROVE  Goal
  BY <1>0, <1>1, <1>4 DEF Goto, RaceInv
<1>5. CASE LoadByCommit(p)
  <2>1. PICK i \in Ids \cup {None} :
           /\ Found(i)
           /\ existing' = [existing EXCEPT ![p] = i]
           /\ \/ i = None /\ Goto(p, "create")
              \/ i # None /\ Safe(i) /\ Goto(p, "retry")
              \/ i # None /\ p \notin Dispatching /\ Return(p, i)
              \/ i # None /\ Goto(p, Persist(p, i))
    BY <1>5 DEF LoadByCommit, Safe, EmptyRunGuard
  <2>2. rows' = rows /\ existing'[p] = i
    BY <1>0, <1>5, <2>1 DEF LoadByCommit
  <2>3. CASE i = None /\ Goto(p, "create")
    <3>1. NobodyHasSlip'
      BY <1>0, <2>1, <2>2, <2>3 DEF Found, NobodyHasSlip, Exists
    <3> QED
      BY <1>0, <2>3, <3>1 DEF Goto, RaceInv
  <2>4. CASE i # None /\ Safe(i) /\ Goto(p, "retry")
    BY <1>4, <2>2, <2>4
  <2>5. CASE p \notin Dispatching /\ Return(p, i)
    BY <1>0, <2>5 DEF Return, RaceInv
  <2>6. CASE i # None /\ Goto(p, Persist(p, i))
    <3>1. i \in Ids /\ Exists(i)'
      BY <2>1, <2>2, <2>6 DEF Found, Exists
    <3> QED
      BY <1>0, <2>2, <2>6, <3>1 DEF Goto, Persist, RaceInv
  <2> QED
    BY <2>1, <2>3, <2>4, <2>5, <2>6
<1>6. CASE HandlePushRetry(p) \/ Reload(p) \/ Revisit(p)
  <2>1. PICK i \in Ids : existing[p] = i /\ Safe(i)
    BY <1>6 DEF HandlePushRetry, Reload, Revisit, RaceInv
  <2>2. Exists(existing[p]) /\ existing' = existing
    BY <1>6, <2>1 DEF HandlePushRetry, Reload, Revisit, Safe, Live, Claimed
  <2>3. Goto(p, "reload") \/ Goto(p, "retry") \/ Return(p, i)
    BY <1>6, <2>1, <2>2 DEF HandlePushRetry, Reload, Revisit
  <2> QED
    BY <1>1, <1>2, <1>4, <2>1, <2>2, <2>3
<1>7. ASSUME NEW gone \in SUBSET Ids, NEW outcome, CreateTx(IdOf[p], gone, outcome)
      PROVE  /\ outcome = "written" => Safe(IdOf[p])'
             /\ outcome = "duplicate" => rows' = rows /\ \E i \in Ids \ (gone \cup {IdOf[p]}) : Exists(i)
  BY <1>0, <1>7, WrittenIsLive DEF CreateTx, Safe
<1>8. CASE CreateFreshSlip(p)
  <2>1. pc[p] = "create" /\ (NobodyHasSlip \/ SomeLive)
    BY <1>0, <1>8 DEF CreateFreshSlip, RaceInv
  <2>2. PICK outcome \in {"written", "duplicate"} :
           /\ CreateTx(IdOf[p], {}, outcome)
           /\ outcome = "written" => Return(p, IdOf[p])
           /\ outcome = "duplicate" => Goto(p, "backstop")
    BY <1>8, <2>1 DEF CreateFreshSlip, Create, Conflicted
  <2>3. CASE outcome = "written"
    BY <1>0, <1>2, <1>7, <2>2, <2>3
  <2>4. CASE outcome = "duplicate"
    <3>1. rows' = rows /\ SomeLive
      BY <1>7, <2>1, <2>2, <2>4 DEF NobodyHasSlip
    <3>2. SomeLive'
      BY <3>1 DEF SomeLive, Live, Exists
    <3> QED
      BY <1>3, <2>2, <2>4, <3>2
  <2> QED
    BY <2>3, <2>4
<1>9. CASE ResetOwnSlip(p)
  <2>1. /\ pc[p] = "reset" /\ existing' = existing /\ existing[p] = IdOf[p]
        /\ SomeLive \/ Exists(IdOf[p])
    BY <1>0, <1>9 DEF ResetOwnSlip, RaceInv, PushInv, TypeOK
  <2>2. PICK outcome \in {"written", "duplicate", "claimed"} :
           /\ ResetSlipInPlace(IdOf[p], outcome)
           /\ outcome = "written" => Return(p, IdOf[p])
           /\ outcome = "claimed" => Goto(p, "reload")
           /\ outcome = "duplicate" => Goto(p, "backstop")
    BY <1>9, <2>1 DEF ResetOwnSlip, Conflicted
  <2>3. CASE outcome = "claimed"
    <3>1. Safe(IdOf[p])
      BY <2>2, <2>3 DEF ResetSlipInPlace, Create, CreateTx, ResetAllowed, Safe, Claimed
    <3> QED
      BY <1>0, <1>4, <2>1, <2>2, <2>3, <3>1
  <2>4. outcome # "claimed" => CreateTx(IdOf[p], {}, outcome)
    BY <2>2 DEF ResetSlipInPlace, Create
  <2>5. CASE outcome = "written"
    BY <1>0, <1>2, <1>7, <2>2, <2>4, <2>5
  <2>6. CASE outcome = "duplicate"
    <3>1. rows' = rows /\ \E i \in Ids \ {IdOf[p]} : Exists(i)
      BY <1>7, <2>4, <2>6
    <3>2. SomeLive
      BY <1>0, <2>1, <3>1 DEF PushInv, OneSlip
    <3>3. SomeLive'
      BY <3>1, <3>2 DEF SomeLive, Live, Exists
    <3> QED
      BY <1>3, <2>2, <2>6, <3>3
  <2> QED
    BY <2>3, <2>5, <2>6
<1>10. CASE RepaveExistingSlip(p)
  <2>1. PICK i \in Ids : existing[p] = i
    BY <1>10 DEF RepaveExistingSlip, PushInv, TypeOK
  <2>2. pc[p] = "repave" /\ existing' = existing /\ (SomeLive \/ Exists(i))
    BY <1>0, <1>10, <2>1 DEF RepaveExistingSlip, RaceInv
  <2>3. PICK outcome \in {"written", "duplicate", "went live"} :
           /\ Repave(i, IdOf[p], outcome)
           /\ outcome = "written" => Return(p, IdOf[p])
           /\ outcome = "went live" => Goto(p, "revisit")
           /\ outcome = "duplicate" => Goto(p, "backstop")
    BY <1>10, <2>1, <2>2 DEF RepaveExistingSlip, Conflicted
  <2>4. CASE outcome = "went live"
    <3>1. Exists(i) /\ ~Superseded(i)
      BY <2>3, <2>4 DEF Repave, CreateTx
    <3>2. rows[i].status \in SlipStatuses
      BY <3>1 DEF Exists, PushInv, TypeOK, Slips
    <3>3. Safe(i)
      BY <3>1, <3>2 DEF Superseded, Safe, Live, Claimed, Repaveable, SlipLive, SlipTerminal, SlipStatuses
    <3> QED
      BY <1>4, <2>1, <2>2, <2>3, <2>4, <3>3
  <2>5. outcome # "went live" => CreateTx(IdOf[p], {i}, outcome)
    BY <2>3 DEF Repave
  <2>6. CASE outcome = "written"
    <3>1. CreateTx(IdOf[p], {i}, outcome)
      BY <2>5, <2>6
    <3>2. Safe(IdOf[p])'
      BY <1>7, <2>6, <3>1
    <3> QED
      BY <1>0, <1>2, <2>3, <2>6, <3>2
  <2>7. CASE outcome = "duplicate"
    <3>1. rows' = rows /\ \E j \in Ids \ ({i} \cup {IdOf[p]}) : Exists(j)
      BY <1>7, <2>5, <2>7
    <3>2. SomeLive
      BY <2>2, <3>1 DEF PushInv, OneSlip
    <3>3. SomeLive'
      BY <3>1, <3>2 DEF SomeLive, Live, Exists
    <3> QED
      BY <1>3, <2>3, <2>7, <3>3
  <2> QED
    BY <2>4, <2>6, <2>7
<1>11. CASE BackstopLoad(p)
  <2>1. PICK i \in Ids : Live(i)
    BY <1>11 DEF BackstopLoad, RaceInv, SomeLive
  <2>2. \A j \in Ids \cup {None} : Found(j) => j = i
    BY <2>1 DEF Found, Live, PushInv, OneSlip
  <2>3. Return(p, i)
    BY <1>0, <1>11, <2>1, <2>2 DEF BackstopLoad
  <2> QED
    BY <1>1, <1>2, <2>1, <2>3 DEF Safe
<1>12. ~BackstopReset(p) /\ ~BackstopRepave(p) /\ ~BackstopReload(p)
  BY DEF BackstopReset, BackstopRepave, BackstopReload, RaceInv
<1>13. CASE CreateSlipForPush(p)
  BY <1>0, <1>13 DEF CreateSlipForPush, Goto, RaceInv
<1>14. CASE Fault(p)
  BY <1>0, <1>14 DEF Fault, Fail, Goto, RaceInv
<1> QED
  BY <1>5, <1>6, <1>8, <1>9, <1>10, <1>11, <1>12, <1>13, <1>14 DEF PushStep, Proceed

\* Without anyone else acting on the slips while a push is under way.
LEMMA RaceInvInductive ==
  ASSUME ~Meanwhile
  PROVE  Spec => [](\A p \in Pushes : RaceInv(p))
<1>1. Init => \A p \in Pushes : RaceInv(p)
  BY DEF Init, RaceInv
<1>2. PushInv /\ (\A p \in Pushes : RaceInv(p)) /\ [Next]_vars => (\A p \in Pushes : RaceInv(p))'
  <2> SUFFICES ASSUME PushInv, \A p \in Pushes : RaceInv(p), [Next]_vars, NEW q \in Pushes
               PROVE  RaceInv(q)'
    OBVIOUS
  <2>1. CASE UNCHANGED vars
    BY <2>1 DEF vars, pushVars, RaceInv, Safe, SomeLive, NobodyHasSlip, Live, Claimed, Exists
  <2>2. CASE OthersStep
    <3>1. ~InFlight(q)
      BY <2>2 DEF OthersStep, UpdateSlipStatus, UpdateStep, ClaimSlip, ReleaseClaim, Others
    <3>2. pc' = pc
      BY <2>2, OthersKeepSlips DEF PushInv, pushVars
    <3> QED
      BY <3>1, <3>2 DEF InFlight, RaceInv
  <2>3. ASSUME NEW p \in Pushes, PushStep(p)
        PROVE  RaceInv(q)'
    BY <2>3, RaceStays, RaceStep
  <2> QED
    BY <2>1, <2>2, <2>3 DEF Next, PushStep, OthersStep
<1> QED
  BY <1>1, <1>2, PushInvInductive, PTL DEF Spec

\* Pushes that race only with each other all succeed, however many they are,
\* whatever ids they bear and whichever order their calls fall in.
THEOREM RacersSucceed ==
  ASSUME ~Meanwhile, ~Faults
  PROVE  Spec => []RacingPushesSucceed
<1>1. Init => RacingPushesSucceed
  BY DEF Init, RacingPushesSucceed
<1>2. /\ PushInv /\ (\A p \in Pushes : RaceInv(p)) /\ RacingPushesSucceed /\ [Next]_vars
      => RacingPushesSucceed'
  <2> SUFFICES ASSUME PushInv, \A p \in Pushes : RaceInv(p), RacingPushesSucceed, [Next]_vars,
                      NEW q \in Pushes
               PROVE  pc'[q] # "failed"
    BY DEF RacingPushesSucceed
  <2>1. pc[q] # "failed"
    BY DEF RacingPushesSucceed
  <2>2. CASE OthersStep \/ UNCHANGED vars
    BY <2>1, <2>2, OthersKeepSlips DEF PushInv, vars, pushVars
  <2>3. ASSUME NEW p \in Pushes, PushStep(p)
        PROVE  pc'[q] # "failed"
    <3>1. CASE q = p
      BY <2>3, <3>1, RaceStep DEF Fault
    <3>2. CASE q # p
      BY <2>1, <2>3, <3>2, PushArrives DEF Arrives, PushInv, TypeOK
    <3> QED
      BY <3>1, <3>2
  <2> QED
    BY <2>2, <2>3 DEF Next, PushStep, OthersStep
<1> QED
  BY <1>1, <1>2, PushInvInductive, RaceInvInductive, PTL DEF Spec

\* A push that starts a run is handed a slip that is live or claimed as it
\* returns, when only pushes are racing, even if some of them fail.
THEOREM DispatchersGetRuns ==
  ASSUME ~Meanwhile
  PROVE  Spec => DispatchedPushHasRun
<1>1. PushInv /\ (\A p \in Pushes : RaceInv(p)) /\ [Next]_vars
        => [\A p \in Dispatching : pc'[p] = "done" /\ pc[p] # "done" =>
              \E i \in Ids : result'[p] = i /\ (Live(i)' \/ Claimed(i)')]_vars
  <2> SUFFICES ASSUME PushInv, \A p \in Pushes : RaceInv(p), Next,
                      NEW q \in Dispatching, pc'[q] = "done", pc[q] # "done"
               PROVE  \E i \in Ids : result'[q] = i /\ (Live(i)' \/ Claimed(i)')
    OBVIOUS
  <2>0. q \in Pushes
    BY PushAssumption
  <2>1. ~OthersStep
    BY OthersKeepSlips DEF PushInv, pushVars
  <2>2. PICK p \in Pushes : PushStep(p)
    BY <2>1 DEF Next, PushStep, OthersStep
  <2>3. q = p
    BY <2>0, <2>2, PushArrives DEF Arrives, PushInv, TypeOK
  <2> QED
    BY <2>2, <2>3, RaceStep DEF Safe
<1> QED
  BY <1>1, PushInvInductive, RaceInvInductive, PTL DEF Spec, DispatchedPushHasRun
=============================================================================
