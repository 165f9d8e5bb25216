------------------------------ MODULE MCSlipPush ------------------------------
(***************************************************************************)
(* Instances of SlipPush for TLC.                                          *)
(***************************************************************************)
EXTENDS SlipPush

\* Three deliveries, "a" with a retry: it states that it starts a run, "b" has
\* components, and "c" seems to start nothing.
MCRacers == {"a1", "a2", "b1", "c1"}
MCRacerIds == [a1 |-> "a", a2 |-> "a", b1 |-> "b", c1 |-> "c"]

\* Two deliveries, both with a retry, for the runs in which slips change under
\* a push.
MCPushes == {"a1", "a2", "b1", "b2"}
MCPushIds == [a1 |-> "a", a2 |-> "a", b1 |-> "b", b2 |-> "b"]

MCStated == {"a1", "a2"}
MCDispatching == {"a1", "a2", "b1"}
MCOnlyA == {"a1", "a2"}

\* A live status, an ended one that may be rerun, and one that may not.
MCRunStatuses == {"in_progress", "failed", "completed"}

\* A claimant with no precondition, and the rerunner's.
MCExpectations == {{}, {"failed"}}
=============================================================================
