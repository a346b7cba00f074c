------------------------------ MODULE AgentRoot -------------------------------
(***************************************************************************)
(* Root access of an agent.  An operator stores the flag and a command is  *)
(* pushed to the agent; the agent runs a privileged helper that writes or  *)
(* removes a drop-in of the agent's systemd unit and restarts it; the next *)
(* Hello says whether the agent runs as root, and a Hello that disagrees    *)
(* with the flag has the command sent again, once per value.               *)
(***************************************************************************)
EXTENDS Naturals, Sequences, FiniteSets, SequencesExt

CONSTANTS
  Hosts,        \* kinds of hosts: records [elevate |-> ..., demote |-> ...]
  Toggles,      \* requests of operators
  MaxFaults,    \* bound: drops, crashes, changes by hand
  None

VARIABLES
  host,     \* what the helper can do here
  flag,     \* servers.agent_root_enabled
  byHand,   \* agent_root_changed_by is not null
  sent,     \* rootDelivery.sent: the value last delivered, or None
  shown,    \* an error of the helper is shown (rootErr)
  toggle,   \* per request: where its handler is
  hello,    \* the handler of the Hello that is being processed
  conn,     \* a stream is registered
  queue,    \* commands on their way to the agent
  hellos,   \* Hellos in the outbox and on the stream
  cmds,     \* commands the agent's goroutines work on
  errors,   \* reports of failures on their way
  dropIn,   \* the drop-in root.conf is there
  euid,     \* the agent runs as root
  due,      \* systemd has a restart of the unit queued
  faults,   \* bound counter
  restarts, \* history: restarts the helper has asked for
  asked,    \* history: occasions for a command: flags stored, pushes, agreeing Hellos,
            \* restarts of the gateway
  amiss     \* history: a delivered command was lost or overtaken

gateway == <<flag, byHand, sent, shown, toggle, hello>>
wire    == <<conn, queue, hellos, errors>>
agent   == <<cmds, dropIn, euid, due>>
history == <<restarts, asked, amiss>>
vars    == <<host, gateway, wire, agent, faults, history>>

Away     == [at |-> "none", flag |-> FALSE, byHand |-> FALSE, euid |-> FALSE]
Untold   == [at |-> "idle", enabled |-> FALSE]

\* An agent as it was installed: with or without root, the flag unset.
Init ==
  /\ host \in Hosts
  /\ flag = FALSE /\ byHand = FALSE /\ sent = None /\ shown = FALSE
  /\ toggle = [t \in Toggles |-> Untold] /\ hello = Away
  /\ conn = FALSE /\ queue = << >> /\ hellos = << >> /\ errors = 0
  /\ cmds = << >> /\ dropIn = FALSE /\ euid = host.root /\ due = FALSE
  /\ faults = 0 /\ restarts = 0 /\ asked = 0 /\ amiss = FALSE

Fault == faults < MaxFaults /\ faults' = faults + 1

-----------------------------------------------------------------------------
(***************************************************************************)
(* The control plane.                                                      *)
(***************************************************************************)
\* setAgentRoot, behind a passkey: the flag is stored first.
SetAgentRoot(t, enabled) ==
  /\ toggle[t].at = "idle"
  /\ toggle' = [toggle EXCEPT ![t] = [at |-> "push", enabled |-> enabled]]
  /\ flag' = enabled /\ byHand' = TRUE
  /\ asked' = asked + 1
  /\ UNCHANGED <<host, sent, shown, hello, wire, agent, faults, restarts, amiss>>

\* registry.Send, markSent, ClearRootError: delivered is what is queued on a
\* stream.
Push(enabled) ==
  /\ queue' = Append(queue, enabled)
  /\ sent' = enabled /\ shown' = FALSE

\* SendAgentRootCommand; without a stream it is left to the next Hello.
PushToggle(t) ==
  /\ toggle[t].at = "push"
  /\ toggle' = [toggle EXCEPT ![t].at = "done"]
  /\ IF conn THEN /\ Push(toggle[t].enabled)
                   /\ asked' = asked + IF sent \in {None, toggle[t].enabled} THEN 1 ELSE 2
     ELSE UNCHANGED <<queue, sent, shown, asked>>
  /\ UNCHANGED <<host, flag, byHand, hello, conn, hellos, errors, agent, faults, restarts, amiss>>

\* onHello: the row takes what the agent says and gives the flag.
HelloRow ==
  /\ conn /\ hello.at = "none" /\ hellos # << >>
  /\ hello' = [at |-> "push", flag |-> flag, byHand |-> byHand, euid |-> Head(hellos)]
  /\ hellos' = Tail(hellos)
  /\ UNCHANGED <<host, flag, byHand, sent, shown, toggle, conn, queue, errors, agent, faults, history>>

\* Mutant: the value that was delivered is not remembered.
ResendAlways(enabled, root) == enabled # root

\* resendNeeded
ResendNeeded(enabled, root) == enabled # root /\ sent # enabled

\* Mutant: an agreeing Hello does not forget.
HelloKeepsSent ==
  /\ hello.at = "push" /\ hello' = Away
  /\ IF ResendNeeded(hello.flag, hello.euid) /\ (hello.flag \/ hello.byHand) /\ conn
     THEN Push(hello.flag) ELSE UNCHANGED <<queue, sent, shown>>
  /\ UNCHANGED <<host, flag, byHand, toggle, conn, hellos, errors, agent, faults, history>>

\* ReconcileRootError, repushRootCommand: an agreeing Hello forgets what was
\* delivered and clears the error; another has the command sent again if that
\* value was not delivered, but never a flag nobody has set.
HelloPush ==
  /\ hello.at = "push" /\ hello' = Away
  /\ IF hello.flag = hello.euid
     THEN /\ sent' = None /\ shown' = FALSE
          /\ asked' = IF sent # None THEN asked + 1 ELSE asked
          /\ UNCHANGED queue
     ELSE /\ IF ResendNeeded(hello.flag, hello.euid) /\ (hello.flag \/ hello.byHand) /\ conn
             THEN Push(hello.flag) ELSE UNCHANGED <<queue, sent, shown>>
          /\ UNCHANGED asked
  /\ UNCHANGED <<host, flag, byHand, toggle, conn, hellos, errors, agent, faults, restarts, amiss>>

\* UpdateProgressTracker.Record: phase failed without a target.
RecordError ==
  /\ conn /\ errors > 0 /\ errors' = errors - 1 /\ shown' = TRUE
  /\ UNCHANGED <<host, flag, byHand, sent, toggle, hello, conn, queue, hellos, agent, faults, history>>

-----------------------------------------------------------------------------
(***************************************************************************)
(* The agent and its helper.                                               *)
(***************************************************************************)
\* A goroutine per command.
Arrive ==
  /\ conn /\ queue # << >>
  /\ cmds' = Append(cmds, [enabled |-> Head(queue), at |-> "run"])
  /\ queue' = Tail(queue)
  /\ amiss' = (amiss \/ cmds # << >> \/ due)
  /\ UNCHANGED <<host, gateway, conn, hellos, errors, dropIn, euid, due, faults, restarts, asked>>

\* The helper cannot: no systemd, not this unit, nobody to come back to, or
\* the drop-in has no effect.  An overridden drop-in stays.
Refuse(i) ==
  /\ cmds[i].at = "run"
  /\ IF cmds[i].enabled THEN host.elevate \in {"refused", "overridden"} ELSE host.demote = "refused"
  /\ dropIn' = (dropIn \/ (cmds[i].enabled /\ host.elevate = "overridden"))
  /\ cmds' = RemoveAt(cmds, i) /\ errors' = errors + 1
  /\ UNCHANGED <<host, gateway, conn, queue, hellos, euid, due, faults, history>>

\* elevate, demote: the drop-in is written or removed,
Rewrite(i) ==
  /\ cmds[i].at = "run"
  /\ IF cmds[i].enabled THEN host.elevate = "works" ELSE host.demote # "refused"
  /\ dropIn' = cmds[i].enabled
  /\ cmds' = [cmds EXCEPT ![i].at = "restart"]
  /\ UNCHANGED <<host, gateway, wire, euid, due, faults, history>>

\* and the restart queued.  Where the agent is not the unit, that restarts
\* something else.
AskRestart(i) ==
  /\ cmds[i].at = "restart"
  /\ cmds' = RemoveAt(cmds, i)
  /\ due' = (due \/ host.demote = "works")
  /\ restarts' = restarts + 1
  /\ UNCHANGED <<host, gateway, wire, dropIn, euid, faults, asked, amiss>>

\* The agent's process ends: its stream, what was on the way to it, its
\* goroutines and reports; Hellos wait in the outbox, or are lost with the
\* stream.
Ended ==
  /\ conn' = FALSE /\ queue' = << >> /\ cmds' = << >> /\ errors' = 0
  /\ \E n \in 0..Len(hellos) : hellos' = SubSeq(hellos, n + 1, Len(hellos))
  /\ amiss' = (amiss \/ queue # << >> \/ cmds # << >>)

Restart ==
  /\ due /\ due' = FALSE
  /\ Ended
  /\ euid' = (dropIn /\ host.elevate = "works")
  /\ UNCHANGED <<host, gateway, dropIn, faults, restarts, asked>>

AgentCrash ==
  /\ Fault /\ ~due
  /\ Ended
  /\ euid' = (IF host.demote = "works" THEN dropIn /\ host.elevate = "works" ELSE euid)
  /\ UNCHANGED <<host, gateway, dropIn, due, restarts, asked>>

\* connectAndServe: the stream is registered, a Hello queued behind those
\* that wait.
Connect ==
  /\ ~conn /\ conn' = TRUE
  /\ hellos' = Append(hellos, euid)
  /\ UNCHANGED <<host, gateway, queue, errors, agent, faults, history>>

\* The stream ends, and what is on it is lost.
Drop ==
  /\ Fault
  /\ conn /\ conn' = FALSE /\ queue' = << >>
  /\ \E n \in 0..Len(hellos) : hellos' = SubSeq(hellos, n + 1, Len(hellos))
  /\ amiss' = (amiss \/ queue # << >>)
  /\ UNCHANGED <<host, gateway, errors, agent, restarts, asked>>

\* The gateway's process ends: handlers and what it remembers are gone.
GatewayCrash ==
  /\ Fault
  /\ conn' = FALSE /\ queue' = << >>
  /\ \E n \in 0..Len(hellos) : hellos' = SubSeq(hellos, n + 1, Len(hellos))
  /\ sent' = None /\ shown' = FALSE /\ hello' = Away
  /\ toggle' = [t \in Toggles |-> IF toggle[t].at = "push" THEN [toggle[t] EXCEPT !.at = "done"] ELSE toggle[t]]
  /\ asked' = asked + 1
  /\ UNCHANGED <<host, flag, byHand, errors, agent, restarts, amiss>>

\* Somebody changes the unit on the host, while all agrees and nothing is on
\* its way.
Drift ==
  /\ Fault
  /\ host.elevate = "works" /\ flag = euid /\ \A t \in Toggles : toggle[t].at # "push"
  /\ conn /\ hellos = << >> /\ hello.at = "none" /\ queue = << >> /\ cmds = << >> /\ ~due
  /\ dropIn' = ~dropIn /\ due' = TRUE
  /\ UNCHANGED <<host, gateway, wire, cmds, euid, history>>

System ==
  \/ HelloRow \/ HelloPush \/ RecordError \/ Arrive \/ Restart \/ Connect
  \/ \E t \in Toggles : PushToggle(t)
  \/ \E i \in DOMAIN cmds : Refuse(i) \/ Rewrite(i) \/ AskRestart(i)

Next ==
  \/ System
  \/ \E t \in Toggles, enabled \in BOOLEAN : SetAgentRoot(t, enabled)
  \/ AgentCrash \/ Drop \/ GatewayCrash \/ Drift

Spec == Init /\ [][Next]_vars

-----------------------------------------------------------------------------
(***************************************************************************)
(* Properties.                                                             *)
(***************************************************************************)
\* "Sending again on every reconnect would only restart the agent in a loop":
\* each restart the helper asks for has an occasion of its own: a push for a
\* request, a flag that a Hello found stored, a delivery that another value
\* replaced, a Hello that agreed after a delivery, or a restart of the gateway.
NoRestartLoop == restarts + Cardinality({i \in DOMAIN cmds : cmds[i].at = "restart"}) <= asked

\* The agent ends up with the privileges that an operator chose, where the
\* host can give them, whatever was lost while it was away ("the flag never
\* settles" without the Hello, root_repush.go:22-29).  Excused is a command
\* that was lost, or met another, after it counted as delivered.
Settled ==
  \/ amiss \/ ~byHand
  \/ IF flag THEN host.elevate # "works" ELSE host.demote # "works"
  \/ euid = flag

RootSettles == <>[]Settled
=============================================================================
