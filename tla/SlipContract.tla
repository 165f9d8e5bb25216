----------------------------- MODULE SlipContract -----------------------------
(***************************************************************************)
(* What every SlipStore promises about the status, the claim and the claim *)
(* markers of one slip, whatever its tables look like.  The runs of the    *)
(* pipeline are seen through one bit: is anything in flight?               *)
(*                                                                         *)
(* PostgresStore (SlipStore) and the in-memory double (MockStore) both     *)
(* implement it; see ImplementsContract there and in StoreDoubles.         *)
(***************************************************************************)
EXTENDS SlipStatus

CONSTANTS
    SlipWrites,    \* slip statuses the clients write
    Expectations   \* the "expected" sets claimants pass

VARIABLES
    present,      \* is there a slip?
    status,       \* its status
    claimedFrom,  \* the status it was claimed from
    marker,       \* the newest claim or release marker of its history
    inFlight      \* RunInFlight

vars == <<present, status, claimedFrom, marker, inFlight>>

\* A slip as a push writes it: a new run, a new history, nothing in flight.
Fresh ==
    /\ present' = TRUE /\ status' = "in_progress"
    /\ marker' = NoRow /\ inFlight' = FALSE
    /\ UNCHANGED claimedFrom

\* A push writes its slip: a claim that is there stays.
Create == ~present /\ Fresh

\* A push writes over its own slip, which nobody may have claimed.
Reset == present /\ ResetAllowed(claimedFrom) /\ Fresh

\* Steps report; the slip and its claim do not hear of it.
Work ==
    /\ present
    /\ inFlight' \in BOOLEAN
    /\ UNCHANGED <<present, status, claimedFrom, marker>>

\* A terminal status ends the run and the claim, and says so.
SetStatus(s) ==
    /\ present
    /\ status' = s
    /\ IF s \in SlipTerminal /\ claimedFrom # Unclaimed
       THEN claimedFrom' = Unclaimed /\ marker' = ReleaseMarker
       ELSE UNCHANGED <<claimedFrom, marker>>
    /\ UNCHANGED <<present, inFlight>>

\* A claim is recorded twice, as a status and as a marker.
Claim(expected) ==
    /\ present
    /\ ClaimWrites(status, claimedFrom, inFlight, expected)
    /\ claimedFrom' = status /\ marker' = ClaimMarker
    /\ UNCHANGED <<present, status, inFlight>>

Release ==
    /\ present
    /\ ReleaseWrites(claimedFrom, inFlight)
    /\ claimedFrom' = Unclaimed /\ marker' = ReleaseMarker
    /\ UNCHANGED <<present, status, inFlight>>

\* A newer push takes an ended, unclaimed slip away.
Repave ==
    /\ present /\ ~SlipLive(status) /\ claimedFrom = Unclaimed
    /\ present' = FALSE /\ status' = "pending"
    /\ marker' = NoRow /\ inFlight' = FALSE
    /\ UNCHANGED claimedFrom

Init ==
    /\ present = FALSE /\ status = "pending" /\ claimedFrom = Unclaimed
    /\ marker = NoRow /\ inFlight = FALSE

Next ==
    \/ Create \/ Reset \/ Work
    \/ \E s \in SlipWrites : SetStatus(s)
    \/ \E e \in Expectations : Claim(e)
    \/ Release \/ Repave

Spec == Init /\ [][Next]_vars
=============================================================================
