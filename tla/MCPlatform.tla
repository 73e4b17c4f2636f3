----------------------------- MODULE MCPlatform -----------------------------
(***************************************************************************)
(* Five parts of the server that share no state, checked in one run: a     *)
(* behaviour is one of the first part's, or one of the second's, and so    *)
(* on.  `part` says which, and the variables of the other parts stay as    *)
(* they began, so the states of the parts add up and do not multiply.      *)
(***************************************************************************)
EXTENDS RateLimiter, Access, Advice, EvmMetrics, Deployment, TLC

VARIABLE part

platformVars ==
    <<part, limiterVars, accessVars, adviceVars, metricsVars, deploymentVars>>

\* The parts that begin in several states do so when they are chosen.
PlatformInit ==
    /\ part \in {"limiter", "access", "advice", "metrics", "deployment"}
    /\ LimiterInit
    /\ AccessInit
    /\ AdviceInit
    /\ MetricsInit /\ (part # "metrics" => budget = 0)
    /\ DeploymentInit /\ (part # "deployment" => records = {})

LimiterPart ==
    /\ part = "limiter"
    /\ LimiterNext
    /\ UNCHANGED <<part, accessVars, adviceVars, metricsVars, deploymentVars>>

AccessPart ==
    /\ part = "access"
    /\ AccessNext
    /\ UNCHANGED <<part, limiterVars, adviceVars, metricsVars, deploymentVars>>

AdvicePart ==
    /\ part = "advice"
    /\ AdviceNext
    /\ UNCHANGED <<part, limiterVars, accessVars, metricsVars, deploymentVars>>

MetricsPart ==
    /\ part = "metrics"
    /\ MetricsNext
    /\ UNCHANGED <<part, limiterVars, accessVars, adviceVars, deploymentVars>>

DeploymentPart ==
    /\ part = "deployment"
    /\ DeploymentNext
    /\ UNCHANGED <<part, limiterVars, accessVars, adviceVars, metricsVars>>

PlatformNext == LimiterPart \/ AccessPart \/ AdvicePart \/ MetricsPart \/ DeploymentPart

PlatformSpec == PlatformInit /\ [][PlatformNext]_platformVars

\* Every variable of every part is in its type (the rows that the handlers of
\* these parts write keep the shapes and the references of their tables).
PlatformTypeOK ==
    CASE part = "limiter" -> LimiterTypeOK
      [] part = "access" -> AccessTypeOK
      [] part = "advice" -> AdviceTypeOK
      [] part = "metrics" -> MetricsTypeOK
      [] part = "deployment" -> DeploymentTypeOK

-----------------------------------------------------------------------------
(* The instance. *)

MCKeys == {"a"}
MCTypedNames == {<<"a", TRUE>>, <<"", TRUE>>}
MCStoredNames == {<<"a", FALSE>>, <<"", TRUE>>}
MCDocuments ==
    {<<"risk", <<"", TRUE>>>>, <<"status", <<"a", TRUE>>>>, <<"meeting", <<"a", TRUE>>>>}
MCCatalog == <<"risk_advisor", "portfolio_advisor", "executive_advisor">>
MCQuestions == {{"risk_advisor", "executive_advisor"}}
MCDeclaring == {"pf1"}
MCDeclaringProjects == {<<"a", FALSE>>}
MCFreeTexts == {"seed", ""}
MCLabels == {"main", "demo", "other"}
MCSlugOf == [l \in MCLabels |-> l]

\* Requests are alike.
MCSymmetry == Permutations(Writers)
=============================================================================
