------------------------------ MODULE MCSlipHold ------------------------------
(***************************************************************************)
(* Instances of SlipHold for TLC.  Which pipeline, and which jobs run in   *)
(* it, is chosen in the initial state.                                     *)
(***************************************************************************)
EXTENDS SlipHold, TLC

CONSTANTS j1, j2, j3, c1, whole

MCPipelineSteps == {"push_parsed", "dev_tests", "dev_deploy", "prod_gate"}
MCAggregateSteps == {"builds", "unit_tests"}
MCComponentStep == "builds" :> "build" @@ "unit_tests" :> "unit_test"

Plain(name, prerequisites, isGate) == StepConfig(name, prerequisites, "", isGate)

\* Three steps behind push_parsed, which wait for each other along one circle
\* with at most one gap, and of which the first or the second may be a gate.
Circles ==
    LET Step(n, q, waits, gates) ==
            Plain(n, IF <<n, q>> \in waits THEN {q} ELSE {}, n \in gates)
    IN  {<<Plain("push_parsed", {}, FALSE),
           Step("dev_tests", "prod_gate", waits, gates),
           Step("dev_deploy", "dev_tests", waits, gates),
           Step("prod_gate", "dev_deploy", waits, gates)>> :
             waits \in {{<<"dev_tests", "prod_gate">>, <<"dev_deploy", "dev_tests">>,
                         <<"prod_gate", "dev_deploy">>} \ gap :
                           gap \in {{}, {<<"dev_tests", "prod_gate">>}, {<<"prod_gate", "dev_deploy">>}}},
             gates \in {{}, {"dev_tests"}, {"dev_deploy"}}}

\* Two components' steps, the second behind the first.
ComponentPipeline ==
    <<Plain("push_parsed", {}, FALSE), StepConfig("builds", {}, "build", FALSE),
      StepConfig("unit_tests", {"builds"}, "unit_test", FALSE),
      Plain("dev_deploy", {"builds", "unit_tests"}, FALSE)>>

JobOn(cfg, n, c, prerequisites) ==
    [step |-> n, component |-> c, prerequisites |-> prerequisites]

\* A job per step, waiting for what the configuration says.
StepSetup(cfg) ==
    [config |-> cfg,
     jobs |-> LET On(n) == JobOn(cfg, n, whole, GetEffectivePrerequisites(cfg, n))
              IN  j1 :> On("dev_tests") @@ j2 :> On("dev_deploy") @@ j3 :> On("prod_gate")]

\* A component's build, its unit test, which waits for the build of the same
\* component, and the deployment of all.
ComponentSetup ==
    [config |-> ComponentPipeline,
     jobs |-> j1 :> JobOn(ComponentPipeline, "build", c1, {})
              @@ j2 :> JobOn(ComponentPipeline, "unit_test", c1, {"build"})
              @@ j3 :> JobOn(ComponentPipeline, "dev_deploy", whole,
                             GetEffectivePrerequisites(ComponentPipeline, "dev_deploy"))]

StepSetups == {StepSetup(cfg) : cfg \in {cfg \in Circles : Validate(cfg) /\ GatesInOrder(cfg)}}

MCSetups == StepSetups \cup {ComponentSetup}

\* The setups are of the kind WaitsAreAcyclic is proved for.
ASSUME SetupsAreConfigured == WaitsAreConfigured

MCReports ==
    ({"push_parsed", "dev_tests", "dev_deploy", "prod_gate", "builds", "unit_tests"} \X {whole})
        \cup {<<"build", c1>>, <<"unit_test", c1>>}
NoCalls == {}
=============================================================================
