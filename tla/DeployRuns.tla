----------------------------- MODULE DeployRuns ------------------------------
(***************************************************************************)
(* Deploy runs of one project, from the trigger to the automatic rollback: *)
(* the handlers, the duplicate check, startRun, the finished hook and the  *)
(* sweeper (control-plane/internal/deploys), the gateway's onDeployEvent   *)
(* (agentgw/stream.go) and, coarsely, the agent's deploy manager           *)
(* (agent/internal/deploy/runner.go).                                      *)
(*                                                                         *)
(* Requests, startRun calls, hooks and the sweeper run at the same time;   *)
(* each of their database statements and each command sent is a step.      *)
(* Database statements succeed.  An operator's cancel only makes a failure *)
(* more likely, and any running deploy may fail here.  Events travel in    *)
(* order; how the outbox and the streams carry them is in RunReports.      *)
(***************************************************************************)
EXTENDS Naturals, Sequences, FiniteSets, FiniteSetsExt

CONSTANTS
  MaxReqs,     \* bound: trigger requests, by webhooks, CI calls or operators
  Deliveries,  \* webhook delivery ids; a retry has the id of the first try
  MaxCommit,   \* bound: commits on the branch are 1..MaxCommit
  MaxRuns,     \* bound: rows of deploy_runs
  MaxInputs    \* bound: requests, dropped streams, deaths and restarts

ASSUME DeployAssumption ==
  /\ MaxReqs \in Nat
  /\ MaxCommit \in Nat \ {0}
  /\ MaxRuns \in Nat \ {0}
  /\ MaxInputs \in Nat

Reqs     == 1..MaxReqs                 \* in the order in which they arrive
Commits  == 1..MaxCommit
Unknown  == 0                          \* commit_sha = ''
Ids      == 1..MaxRuns                 \* run ids in the order of created_at
Triggers == {"manual", "api", "webhook", "rollback"}
Active   == {"pending", "running"}
Closed   == {"succeeded", "failed", "agent_offline"}
Healths  == {"unknown", "healthy", "degraded", "rolled_back"}

VARIABLES
  rollback,   \* deploy_projects: auto_rollback
  health,     \* deploy_projects: health_state
  deliveries, \* deploy_webhook_deliveries
  runs,       \* deploy_runs, oldest first
  req,        \* per request: its handler
  start,      \* per run: how far its startRun call is
  agent,      \* per run: what the agent does with it, and the commit it deploys
  events,     \* DeployEvents on their way to the gateway
  hooks,      \* DeployRunFinished calls that have not returned
  sweep,      \* the run the sweeper has read and not yet marked, 0 for none
  connected,  \* the agent's stream
  head,       \* the tip of the branch
  inputs,     \* bound counter
  proved      \* history: commits a deploy succeeded with

tables == <<rollback, health, deliveries, runs>>
vars == <<tables, req, start, agent, events, hooks, sweep, connected, head, inputs, proved>>

NewReq   == [pc |-> "new", trigger |-> "none", delivery |-> "none", commit |-> Unknown]
Done     == [NewReq EXCEPT !.pc = "done"]
NoDeploy == [st |-> "none", commit |-> Unknown]

Row(trigger, pin, delivery, cause) ==
  [trigger |-> trigger, status |-> "pending", commit |-> pin, pin |-> pin,
   delivery |-> delivery, cause |-> cause]

TypeOK ==
  /\ rollback \in BOOLEAN
  /\ health \in Healths
  /\ deliveries \in SUBSET Deliveries
  /\ Len(runs) <= MaxRuns
  /\ \A i \in DOMAIN runs :
       /\ runs[i].trigger \in Triggers
       /\ runs[i].status \in Active \cup Closed
       /\ runs[i].commit \in Commits \cup {Unknown}
       /\ runs[i].pin \in Commits \cup {Unknown}
       /\ runs[i].delivery \in Deliveries \cup {"none"}
       /\ runs[i].cause \in 0..(i - 1)
  /\ req \in [Reqs -> [pc : {"new", "check", "insert", "done"},
                       trigger : Triggers \cup {"none"},
                       delivery : Deliveries \cup {"none"}, commit : Commits \cup {Unknown}]]
  /\ start \in [Ids -> {"none", "inserted", "sent", "done"}]
  /\ agent \in [Ids -> [st : {"none", "sent", "building", "succeeded", "failed", "dead"},
                        commit : Commits \cup {Unknown}]]
  /\ \A i \in DOMAIN events : events[i].run \in DOMAIN runs
  /\ \A h \in hooks : h.run \in DOMAIN runs
  /\ sweep \in 0..Len(runs)
  /\ connected \in BOOLEAN
  /\ head \in Commits
  /\ inputs \in 0..MaxInputs
  /\ proved \in SUBSET Commits

\* A project that was never deployed, or whose first commit is live.
Init ==
  /\ rollback \in BOOLEAN
  /\ \/ runs = << >> /\ health = "unknown" /\ proved = {}
     \/ /\ runs = << [Row("manual", Unknown, "none", 0)
                        EXCEPT !.status = "succeeded", !.commit = 1] >>
        /\ health = "healthy" /\ proved = {1}
  /\ start = [i \in Ids |-> IF i \in DOMAIN runs THEN "done" ELSE "none"]
  /\ agent = [i \in Ids |-> IF i \in DOMAIN runs THEN [st |-> "succeeded", commit |-> 1]
                            ELSE NoDeploy]
  /\ deliveries = {}
  /\ req = [q \in Reqs |-> NewReq]
  /\ events = << >>
  /\ hooks = {}
  /\ sweep = 0
  /\ connected \in BOOLEAN
  /\ head = 1
  /\ inputs = 0

-----------------------------------------------------------------------------
(***************************************************************************)
(* Triggers.                                                               *)
(***************************************************************************)
Input == inputs < MaxInputs /\ inputs' = inputs + 1

Arrives(q) ==
  /\ req[q].pc = "new"
  /\ \A p \in 1..(q - 1) : req[p].pc # "new"
  /\ Input

Push ==
  /\ head < MaxCommit
  /\ head' = head + 1
  /\ UNCHANGED <<tables, req, start, agent, events, hooks, sweep, connected, inputs, proved>>

Handled(q, pc, trigger, d, c) ==
  req' = [req EXCEPT ![q] = IF pc = "done" THEN Done
                            ELSE [pc |-> pc, trigger |-> trigger, delivery |-> d, commit |-> c]]

ClaimIf(q, d, first) ==
  /\ Arrives(q)
  /\ \E c \in 1..head : Handled(q, IF first THEN "check" ELSE "done", "webhook", d, c)
  /\ deliveries' = deliveries \cup {d}
  /\ UNCHANGED <<rollback, health, runs, start, agent, events, hooks, sweep, connected,
                 head, proved>>

\* A webhook arrives, perhaps late, with its delivery id and the pushed
\* commit: ClaimWebhookDelivery.  (Mutant: a repeated delivery is let through.)
ClaimAlways(q, d) == ClaimIf(q, d, TRUE)
Claim(q, d) == ClaimIf(q, d, d \notin deliveries)

\* createRun: the generated CI job reports its commit.
Report(q) ==
  /\ Arrives(q)
  /\ \E c \in 1..head : Handled(q, "check", "api", "none", c)
  /\ UNCHANGED <<tables, start, agent, events, hooks, sweep, connected, head, proved>>

\* RecentRunForCommit and ActiveRun.  A closed run of the commit counts while
\* it is less than 90 seconds old, which is not measured here.
SeenCommit(c) == \E i \in DOMAIN runs : runs[i].commit = c
AnyActive     == \E i \in DOMAIN runs : runs[i].status \in Active

\* duplicateTrigger.
Check(q) ==
  /\ req[q].pc = "check"
  /\ \/ /\ AnyActive \/ SeenCommit(req[q].commit)
        /\ Handled(q, "done", "none", "none", Unknown)
     \/ /\ ~AnyActive
        /\ Handled(q, "insert", req[q].trigger, req[q].delivery, Unknown)
  /\ UNCHANGED <<tables, start, agent, events, hooks, sweep, connected, head, inputs, proved>>

-----------------------------------------------------------------------------
(***************************************************************************)
(* startRun.                                                               *)
(***************************************************************************)
InsertRun(row) ==
  /\ Len(runs) < MaxRuns
  /\ runs' = Append(runs, row)
  /\ start' = [start EXCEPT ![Len(runs) + 1] = "inserted"]

Insert(q) ==
  /\ req[q].pc = "insert"
  /\ InsertRun(Row(req[q].trigger, Unknown, req[q].delivery, 0))
  /\ Handled(q, "done", "none", "none", Unknown)
  /\ UNCHANGED <<rollback, health, deliveries, agent, events, hooks, sweep, connected,
                 head, inputs, proved>>

\* An operator's request (create, patch of the process manager, Redeploy)
\* asks nothing.
Redeploy(q) ==
  /\ Arrives(q)
  /\ InsertRun(Row("manual", Unknown, "none", 0))
  /\ Handled(q, "done", "none", "none", Unknown)
  /\ UNCHANGED <<rollback, health, deliveries, agent, events, hooks, sweep, connected,
                 head, proved>>

MarkRun(r, s) == runs' = [runs EXCEPT ![r].status = s]

\* An app's environment does not resolve, or no app matches: startRun returns
\* and leaves the row pending.
Abandon(r) ==
  /\ start[r] = "inserted"
  /\ start' = [start EXCEPT ![r] = "done"]
  /\ UNCHANGED <<tables, req, agent, events, hooks, sweep, connected, head, inputs, proved>>

SendDeploy(r) ==
  /\ start[r] = "inserted"
  /\ IF connected
     THEN /\ agent' = [agent EXCEPT ![r].st = "sent"]
          /\ start' = [start EXCEPT ![r] = "sent"]
          /\ UNCHANGED runs
     ELSE /\ MarkRun(r, "agent_offline")
          /\ start' = [start EXCEPT ![r] = "done"]
          /\ UNCHANGED agent
  /\ UNCHANGED <<rollback, health, deliveries, req, events, hooks, sweep, connected, head,
                 inputs, proved>>

\* The status is written after the command went out, whatever the row says.
MarkRunning(r) ==
  /\ start[r] = "sent"
  /\ MarkRun(r, "running")
  /\ start' = [start EXCEPT ![r] = "done"]
  /\ UNCHANGED <<rollback, health, deliveries, req, agent, events, hooks, sweep, connected,
                 head, inputs, proved>>

-----------------------------------------------------------------------------
(***************************************************************************)
(* The agent.                                                              *)
(***************************************************************************)
Emit(es) == events' = events \o es

Started(r)     == [run |-> r, kind |-> "started"]
Commit(r, c)   == [run |-> r, kind |-> "commit", commit |-> c]
Finished(r, s) == [run |-> r, kind |-> "finished", status |-> s]

\* start registers and reports the run; the checked-out commit is reported,
\* unless the deploy fails before it has one.
StartOn(r, c) ==
  /\ agent[r].st = "sent"
  /\ \/ /\ agent' = [agent EXCEPT ![r] = [st |-> "building", commit |-> c]]
        /\ Emit(<<Started(r), Commit(r, c)>>)
     \/ /\ agent' = [agent EXCEPT ![r].st = "failed"]
        /\ Emit(<<Started(r), Finished(r, "failed")>>)
  /\ UNCHANGED <<tables, req, start, hooks, sweep, connected, head, inputs, proved>>

\* The pinned commit, or the tip of the branch.  (Mutant: always the tip.)
AgentStartTip(r) == StartOn(r, head)
AgentStart(r) == StartOn(r, IF runs[r].pin # Unknown THEN runs[r].pin ELSE head)

\* Every other exit of deploy, too, ends in one finished event: success, a
\* failed phase, the timeout or a cancel.
AgentFinish(r) ==
  /\ agent[r].st = "building"
  /\ \E s \in {"succeeded", "failed"} :
       /\ agent' = [agent EXCEPT ![r].st = s]
       /\ Emit(<<Finished(r, s)>>)
       /\ proved' = IF s = "succeeded" THEN proved \cup {agent[r].commit} ELSE proved
  /\ UNCHANGED <<tables, req, start, hooks, sweep, connected, head, inputs>>

Connect ==
  /\ ~connected
  /\ connected' = TRUE
  /\ UNCHANGED <<tables, req, start, agent, events, hooks, sweep, head, inputs, proved>>

\* A command that was sent and not received is lost with the stream.
Lost(a, dies) ==
  [r \in Ids |-> IF a[r].st = "sent" \/ (dies /\ a[r].st = "building")
                 THEN [a[r] EXCEPT !.st = "dead"] ELSE a[r]]

\* The stream breaks; or the agent dies, and reports nothing of its deploys.
Fault(dies) ==
  /\ Input
  /\ connected' = FALSE
  /\ agent' = Lost(agent, dies)

Drop ==
  /\ connected
  /\ Fault(FALSE)
  /\ UNCHANGED <<tables, req, start, events, hooks, sweep, head, proved>>

AgentDies ==
  /\ Fault(TRUE)
  /\ UNCHANGED <<tables, req, start, events, hooks, sweep, head, proved>>

-----------------------------------------------------------------------------
(***************************************************************************)
(* The gateway and the finished hook.                                      *)
(***************************************************************************)
Hook(r, s, by) == [run |-> r, status |-> s, by |-> by]

\* onDeployEvent on the next event.
OnDeployEvent ==
  /\ connected
  /\ events # << >>
  /\ events' = Tail(events)
  /\ LET e == Head(events)
     IN  \/ e.kind = "started" /\ MarkRun(e.run, "running") /\ UNCHANGED hooks
         \/ /\ e.kind = "commit"
            /\ runs' = [runs EXCEPT ![e.run].commit = IF @ = Unknown THEN e.commit ELSE @]
            /\ UNCHANGED hooks
         \/ /\ e.kind = "finished"
            /\ MarkRun(e.run, e.status)
            /\ hooks' = hooks \cup {Hook(e.run, e.status, "agent")}
  /\ UNCHANGED <<rollback, health, deliveries, req, start, agent, sweep, connected, head,
                 inputs, proved>>

\* recordHealthState.
HealthAfter(trigger, s) ==
  IF s # "succeeded" THEN "degraded"
  ELSE IF trigger = "rollback" THEN "rolled_back" ELSE "healthy"

\* A rollback is for a forward run that failed in a project that wants it.
MayRollBack(h) == h.status # "succeeded" /\ runs[h.run].trigger # "rollback" /\ rollback

\* LastSucceededRun.  (Mutant: the newest run with a commit.)
LastRunWithCommit == { i \in DOMAIN runs : runs[i].commit # Unknown }
Succeeded == { i \in DOMAIN runs : runs[i].status = "succeeded" /\ runs[i].commit # Unknown }

\* DeployRunFinished: the health state is written; if it is warranted, a run
\* that returns to the last good commit is inserted.  A reported run's trigger
\* and commit no longer change, so reading them is part of the same step.
DeployRunFinished(h) ==
  /\ hooks' = hooks \ {h}
  /\ health' = HealthAfter(runs[h.run].trigger, h.status)
  /\ LET good == IF Succeeded = {} THEN Unknown ELSE runs[Max(Succeeded)].commit
         warranted == MayRollBack(h) /\ good \notin {Unknown, runs[h.run].commit}
     IN  IF warranted /\ Len(runs) < MaxRuns   \* else the insert fails, and is logged
         THEN InsertRun(Row("rollback", good, "none", h.run))
         ELSE UNCHANGED <<runs, start>>
  /\ UNCHANGED <<rollback, deliveries, req, agent, events, sweep, connected, head,
                 inputs, proved>>

-----------------------------------------------------------------------------
(***************************************************************************)
(* The sweeper.  Its budget is the agent's own and two minutes more: by    *)
(* then the agent's deploy has ended, and a connected agent's report of it *)
(* has arrived.  A report that waits for the next stream has not.          *)
(***************************************************************************)
Overdue(r) ==
  /\ runs[r].status \in Active
  /\ start[r] = "done"
  /\ agent[r].st \notin {"sent", "building"}
  /\ connected => \A i \in DOMAIN events : events[i].run # r

\* sweepStuckRuns reads the list ...  (Mutant: only runs marked running.)
SweepRunningOnly(r) ==
  /\ sweep = 0
  /\ Overdue(r) /\ runs[r].status = "running"
  /\ \A h \in hooks : h.by # "sweeper"
  /\ sweep' = r
  /\ UNCHANGED <<tables, req, start, agent, events, hooks, connected, head, inputs, proved>>

Sweep(r) ==
  /\ sweep = 0
  /\ Overdue(r)
  /\ \A h \in hooks : h.by # "sweeper"
  /\ sweep' = r
  /\ UNCHANGED <<tables, req, start, agent, events, hooks, connected, head, inputs, proved>>

\* ... and marks the run failed, whatever it is by now, and calls the hook.
SweepMark ==
  /\ sweep # 0
  /\ MarkRun(sweep, "failed")
  /\ hooks' = hooks \cup {Hook(sweep, "failed", "sweeper")}
  /\ sweep' = 0
  /\ UNCHANGED <<rollback, health, deliveries, req, start, agent, events, connected, head,
                 inputs, proved>>

\* The control plane restarts: handlers, startRun calls and hooks are gone.
Restart ==
  /\ Fault(FALSE)
  /\ req' = [q \in Reqs |-> IF req[q].pc = "new" THEN req[q] ELSE Done]
  /\ start' = [r \in Ids |-> IF start[r] = "none" THEN "none" ELSE "done"]
  /\ hooks' = {}
  /\ sweep' = 0
  /\ UNCHANGED <<tables, events, head, proved>>

-----------------------------------------------------------------------------
\* What goes on by itself: startRun calls, deploys, streams, hooks, sweeper.
System ==
  \/ \E r \in DOMAIN runs :
       \/ SendDeploy(r) \/ MarkRunning(r)
       \/ AgentStart(r) \/ AgentFinish(r)
       \/ Sweep(r)
  \/ OnDeployEvent \/ SweepMark
  \/ \E h \in hooks : DeployRunFinished(h)

Next ==
  \/ Push \/ Connect \/ Drop \/ AgentDies \/ Restart
  \/ \E q \in Reqs : Report(q) \/ Check(q) \/ Insert(q) \/ Redeploy(q)
                   \/ \E d \in Deliveries : Claim(q, d)
  \/ \E r \in DOMAIN runs : Abandon(r)
  \/ System

Spec == Init /\ [][Next]_vars

(***************************************************************************)
(* Calls and hooks run on, a deploy ends at its timeout, an open stream    *)
(* delivers, the sweeper's ticker fires for ever.  Each of these does a    *)
(* bounded amount of work, so asking that some of them goes on is enough.  *)
(***************************************************************************)
Fairness == WF_vars(System)

FairSpec == Spec /\ Fairness

-----------------------------------------------------------------------------
(***************************************************************************)
(* Properties.                                                             *)
(***************************************************************************)
\* "A retried delivery returns false, and the caller answers the provider
\* without starting a second deploy" (store_health.go): a delivery id starts
\* at most one run, even when its retries race one another.
DeliveryOnce ==
  \A i, k \in DOMAIN runs :
    (i # k /\ runs[i].delivery # "none") => runs[i].delivery # runs[k].delivery

\* An automatic rollback returns to a commit that really ran, started by a
\* run that was not a rollback itself; so a broken project never rolls back
\* in a loop, and never onto a commit that was not seen to work.
RollbackWarranted ==
  \A i \in DOMAIN runs :
    runs[i].trigger = "rollback" =>
      /\ runs[i].pin \in proved
      /\ runs[runs[i].cause].trigger # "rollback"

\* A run is shown succeeded only when the agent said so, and its commit is
\* the one the agent deployed: what a later rollback returns to is true,
\* whatever the sweeper, a late MarkRun or a moving branch did meanwhile.
SucceededIsTrue ==
  \A i \in DOMAIN runs :
    runs[i].status = "succeeded" =>
      agent[i].st = "succeeded" /\ agent[i].commit = runs[i].commit

\* Every run is closed in the end, though its startRun may have given up, its
\* command may be lost, and the agent or the control plane may have died:
\* otherwise the project's automated deploys would be blocked for ever.
RunsClose == []<>(~AnyActive)
=============================================================================
