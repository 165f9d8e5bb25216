----------------------------- MODULE MCSlipStore -----------------------------
(***************************************************************************)
(* An instance of StoreDoubles and of SlipLookups for TLC: one aggregate   *)
(* step, "builds", whose components report under "build".                  *)
(*                                                                         *)
(* The slip and the table the lookups read share nothing, so either moves  *)
(* only while the other is in its initial state.                           *)
(***************************************************************************)
EXTENDS StoreDoubles, SlipLookups

CONSTANTS c1, c2, whole

OnlyPushParsed   == {"push_parsed"}
MCAggregateSteps == {"builds"}
MCComponentStep  == "builds" :> "build"

\* builds as a whole, and two components, one of them under either name.
MCReports == {<<"builds", whole>>, <<"builds", c1>>, <<"build", c1>>, <<"build", c2>>}

\* No precondition, and a rerun of a failed slip.
MCExpectations == {{}, {"failed"}}

MCSearches == {<<>>, <<"k1">>, <<"k1", "k2">>, <<"k2", "k1">>, <<"k1", "k1">>}

Untouched == ~present /\ covered

MCInit == DoublesInit /\ LookupsInit
MCNext ==
    \/ rows = {} /\ DoublesNext /\ UNCHANGED rows
    \/ Untouched /\ LookupsNext /\ UNCHANGED <<vars, doubles>>

MCSpec == MCInit /\ [][MCNext]_<<vars, doubles, rows>>
=============================================================================
