---------------------------- MODULE AgentReport ------------------------------
(***************************************************************************)
(* What the agent promises the control plane about a deploy command: it    *)
(* reports started at most once, then at most one outcome, and it does     *)
(* report an outcome unless the agent process ends first.                  *)
(* AgentDeploy implements it in detail and DeployRuns relies on it.        *)
(***************************************************************************)
CONSTANT Deploys

VARIABLES
  report,  \* per deploy: the last lifecycle event the agent emitted
  lost     \* deploys that ended with the agent process

vars == <<report, lost>>

Outcomes == {"succeeded", "failed"}

Init ==
  /\ report \in [Deploys -> {"none"} \cup Outcomes]
  /\ lost = {}

Start(d) ==
  /\ d \notin lost
  /\ report[d] = "none"
  /\ report' = [report EXCEPT ![d] = "started"]
  /\ UNCHANGED lost

Finish(d) ==
  /\ d \notin lost
  /\ report[d] = "started"
  /\ \E o \in Outcomes : report' = [report EXCEPT ![d] = o]
  /\ UNCHANGED lost

\* The process ends: the deploys it was working on never report again.
Lose(S) ==
  /\ S # {}
  /\ \A d \in S : report[d] \notin Outcomes
  /\ lost' = lost \cup S
  /\ UNCHANGED report

Next ==
  \/ \E d \in Deploys : Start(d) \/ Finish(d)
  \/ \E S \in SUBSET Deploys : Lose(S)

Spec == Init /\ [][Next]_vars

FairSpec == Spec /\ \A d \in Deploys : WF_vars(Finish(d))
=============================================================================
