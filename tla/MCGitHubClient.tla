---------------------------- MODULE MCGitHubClient ----------------------------
(***************************************************************************)
(* Instances of GitHubClient for TLC: two goroutines race for the caches;  *)
(* one goroutine alone sees a longer history of the installations; and one *)
(* asks for the ancestry over every history of four commits.               *)
(***************************************************************************)
EXTENDS GitHubClient

Goroutines == {"g1", "g2"}

Heads(orgs)  == [kind : {"pr_head"}, org : orgs]
Ancestries(orgs, depths) == [kind : {"ancestry"}, org : orgs, depth : depths]

\* Commits are numbered in the order GitHub lists them; a first parent is an
\* older commit, whether it is listed or not.
Histories ==
    {[order |-> [i \in 1 .. n |-> i], first |-> f] :
        n \in {0, 4},
        f \in {g \in [1 .. 4 -> 1 .. 4 \cup {NoCommit}] :
                  \A i \in 1 .. 4 : g[i] \in i + 1 .. 4 \cup {NoCommit}}}

NoParents == [i \in 1 .. 4 |-> NoCommit]

Race ==
    [asks |-> "g1" :> Heads({"acme"}) @@ "g2" :> Heads({"beta"}),
     ids |-> 2, order |-> <<>>, first |-> NoParents]

Solo ==
    [asks |-> "g1" :> Heads({"acme", "beta"}) @@ "g2" :> {},
     ids |-> 3, order |-> <<>>, first |-> NoParents]

Walk(h) ==
    [asks |-> "g1" :> Ancestries({"acme"}, 0 .. 3) @@ "g2" :> {},
     ids |-> 1, order |-> h.order, first |-> h.first]

MCScenarios == {Race, Solo} \cup {Walk(h) : h \in Histories}
=============================================================================
