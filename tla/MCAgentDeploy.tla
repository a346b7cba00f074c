--------------------------- MODULE MCAgentDeploy -----------------------------
(* App 1 is supervised by pm2 and starts first, app 2 is started directly. *)
EXTENDS AgentDeploy

CONSTANTS s1, s2

Groups   == <<-1, 1>>
Managing == <<"pm2", "none">>
TwoScripts == {<<1, "install">>, <<2, "install">>}

Deploy(policy)   == [pin |-> None, flow |-> << >>, policy |-> policy]
Rollback(s)      == [pin |-> s, flow |-> << >>, policy |-> "stop"]
Flow(policy, ws) == [pin |-> None, flow |-> ws, policy |-> policy]

\* App 1 runs before app 2 is installed; and flows that are refused.
Staggered == << {<<1, "install">>}, {<<1, "run">>}, {<<2, "install">>}, {<<1, "start">>} >>
Mixed   == << {<<1, "install">>, <<2, "start">>} >>
Unknown == << {<<1, "install">>}, {<<3, "start">>}, {<<2, "start">>} >>

PlainCommands == {Deploy("stop"), Rollback(s1)}
AllCommands == PlainCommands \cup
  {Flow("stop", Mixed), Flow("continue", Unknown), Flow("stop", Staggered)}

-----------------------------------------------------------------------------
\* LiveTreeKept and LiveTreeBuilt of AgentDeploy: what serves is there, and after
\* plain deploys its install succeeded.
LiveTree == LiveTreeKept /\ LiveTreeBuilt

\* WavesInOrder and SuccessDidAll: a job waits for all jobs of earlier waves, and
\* a run that succeeded did every job of its plan.
PlanCarriedOut == WavesInOrder /\ SuccessDidAll
=============================================================================
