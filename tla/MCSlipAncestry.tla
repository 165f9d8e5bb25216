---------------------------- MODULE MCSlipAncestry ----------------------------
(***************************************************************************)
(* Instances of SlipAncestry for TLC.                                      *)
(*                                                                         *)
(* Main has c1 and, after it, c2.  Branch feat leaves main at c1 and has   *)
(* f1, too far back for the near search.  m1 is pull request 2, feat,      *)
(* squashed onto another line of main; its message also names pull request *)
(* 1, whose head is m1 itself.                                             *)
(***************************************************************************)
EXTENDS SlipAncestry, TLC

MCCommitOf == [a |-> "c1", a2 |-> "c1", b |-> "c2", b2 |-> "c2", f |-> "f1", f2 |-> "f1", m |-> "m1", m2 |-> "m1"]
MCBranchOf == [a |-> "main", a2 |-> "release", b |-> "main", b2 |-> "main", f |-> "feat", f2 |-> "hotfix",
               m |-> "main", m2 |-> "main"]

\* One push for every delivery, and a redelivery of a.
MCPushes == {"a", "a again", "a2", "b", "b2", "f", "f2", "m", "m2"}
MCIdOf == [p \in MCPushes |-> IF p = "a again" THEN "a" ELSE p]

\* Reruns of a commit and of its descendant; reruns of a commit, of which one is
\* redelivered, and a descendant; a branch, its parent, and its squash merge while
\* images of the branch are deployed.  Any of them may be late, or never start.
MCCasts == {{"a", "a2", "b", "b2"}, {"a", "a again", "a2", "b"}, {"a", "f"},
            {"f", "m", "m2"}, {"f", "m", "deploy"}, {"f", "f2", "m"}, {"f", "short", "unread"}}

MCNear == [c0 |-> <<>>, c1 |-> <<>>, c2 |-> <<"c1">>, f1 |-> <<"c0">>, m1 |-> <<"c0">>]
MCFar  == [c0 |-> <<>>, c1 |-> <<>>, c2 |-> <<"c1">>, f1 |-> <<"c0", "c1">>, m1 |-> <<"c0">>]
MCMentions == [c \in DOMAIN MCNear |-> IF c = "m1" THEN <<1, 2>> ELSE <<>>]
MCPRHead == <<"m1", "f1">>

\* Every run may fail, but the last one of main; those that squash merges and
\* reruns of the branch end are completed too, and reopened.
MCRunStatuses ==
    [i \in DOMAIN MCCommitOf |->
        CASE i \in {"f", "f2", "m"} -> {"in_progress", "failed", "completed"}
          [] i = "b2" -> {}
          [] OTHER -> {"failed"}]

MCHandlers == {<<"f2", "rollback">>}

\* Deploys of an image of f1: by its commit, by an abbreviation of it, and with a
\* store that may not answer.
MCRefOf == [r \in {"deploy", "short", "unread"} |-> "m1"]
MCTagOf == [r \in {"deploy", "short", "unread"} |-> IF r = "short" THEN "f1 abbreviated" ELSE "f1"]
=============================================================================
