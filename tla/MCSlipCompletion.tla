--------------------------- MODULE MCSlipCompletion ---------------------------
(***************************************************************************)
(* Instances of SlipCompletion for TLC: pipeline steps without components, *)
(* the ones the completion check names among them.                         *)
(***************************************************************************)
EXTENDS SlipCompletion, TLC

CONSTANTS p1, p2, whole

Perms == Permutations(Clients)

NoAggregates == {}
NoFunction == <<>>

\* A canary pipeline without its last step.
CanarySteps == {"push_parsed", "prod_canary", "prod_deploy", "dev_tests"}

\* A pipeline that can complete, and a step of it nothing depends on.
FinalSteps == {"push_parsed", "dev_tests", "prod_steady_state"}

SerialSteps == {"push_parsed", "prod_canary", "prod_deploy", "prod_steady_state"}

WholeOf(S) == S \X {whole}
CanaryReports == WholeOf(CanarySteps)
FinalReports  == WholeOf(FinalSteps)
SerialReports == WholeOf(SerialSteps)

\* Every job of the canary pipeline, retried at will.
CanaryStepCalls == {<<"prod_deploy", whole, "running">>, <<"dev_tests", whole, "failed">>}
CanaryPostCalls == {<<"prod_canary", whole, "failed">>, <<"prod_canary", whole, "completed">>,
                    <<"dev_tests", whole, "completed">>}
CanarySkipCalls == {<<"prod_deploy", TRUE>>, <<"prod_deploy", FALSE>>}

\* dev_tests fails, is aborted and is retried beside the last step.
FinalStepCalls == {<<"dev_tests", whole, s>> : s \in {"aborted", "running"}}
FinalPostCalls == {<<"dev_tests", whole, "failed">>, <<"dev_tests", whole, "completed">>,
                   <<"prod_steady_state", whole, "failed">>,
                   <<"prod_steady_state", whole, "completed">>}

\* One client that calls everything on the steps of a canary pipeline.
SerialStepCalls == {<<"prod_deploy", whole, s>> : s \in {"running", "aborted", "timeout"}}
SerialPostCalls == {"prod_canary", "prod_deploy", "prod_steady_state"}
                      \X {whole} \X {"failed", "completed"}
SerialSkipCalls == {<<"prod_deploy", TRUE>>, <<"prod_deploy", FALSE>>, <<"prod_canary", FALSE>>}
NoCalls == {}
=============================================================================
