------------------------------- MODULE Presence ------------------------------
(***************************************************************************)
(* The status one server shows: online or offline.  It is written by the   *)
(* handlers of the server's streams (agentgw/stream.go), by the deferred   *)
(* offline mark (agentgw/offline.go) and by the start of the gateway       *)
(* (agentgw/server.go); the registry (agentgw/registry.go) knows the live  *)
(* stream.                                                                 *)
(*                                                                         *)
(* Handlers of several streams and callbacks of several timers run at the  *)
(* same time; each statement that takes a lock or writes the table is a    *)
(* step.  The grace period is not measured: an armed timer may fire at any *)
(* moment.                                                                 *)
(***************************************************************************)
EXTENDS Naturals, FiniteSets

CONSTANTS
  MaxConns,     \* bound: streams the agent opens
  MaxRestarts   \* bound: restarts of the gateway

Conns == 1..MaxConns

VARIABLES
  status,    \* servers.status
  conns,     \* streams opened so far
  link,      \* the agent's stream, 0 when it has none
  pending,   \* streams with a Hello or Heartbeat on its way
  handler,   \* per stream: where its AgentStream handler is
  reg,       \* Registry.conns: the registered stream, 0 when there is none
  slot,      \* offlineTimers: the timer in the map, 0 when there is none
  armed,     \* timers that run; a timer is named after the stream that left
  callback,  \* per timer: where its function is
  restarts,  \* bound counter
  late       \* history: a superseded stream's handler stopped the timer, or wrote
             \* online when no stream was registered any more

streamVars == <<conns, link, pending, handler, reg>>
timerVars  == <<slot, armed, callback>>
vars == <<status, streamVars, timerVars, restarts, late>>

Places == {"none", "added", "serving", "beat", "removed", "ended"}
Steps  == {"none", "fired", "check", "mark"}

TypeOK ==
  /\ status \in {"pending", "online", "offline"}
  /\ conns \in 0..MaxConns
  /\ link \in 0..conns
  /\ pending \in SUBSET { c \in 1..conns : handler[c] \in {"added", "serving", "beat"} }
  /\ handler \in [Conns -> Places]
  /\ reg \in 0..conns
  /\ slot \in 0..conns
  /\ armed \in SUBSET (1..conns)
  /\ callback \in [Conns -> Steps]
  /\ restarts \in 0..MaxRestarts
  /\ late \in BOOLEAN

Init ==
  /\ status = "pending"
  /\ conns = 0
  /\ link = 0
  /\ pending = {}
  /\ handler = [c \in Conns |-> "none"]
  /\ reg = 0
  /\ slot = 0
  /\ armed = {}
  /\ callback = [c \in Conns |-> "none"]
  /\ restarts = 0
  /\ late = FALSE

At(c, here, there) ==
  /\ handler[c] = here
  /\ handler' = [handler EXCEPT ![c] = there]

-----------------------------------------------------------------------------
(***************************************************************************)
(* The agent.                                                              *)
(***************************************************************************)
\* Enrollment marks the server online before there is a stream.
Enroll ==
  /\ status = "pending"
  /\ status' = "online"
  /\ UNCHANGED <<streamVars, timerVars, restarts, late>>

\* A stream is opened; its handler registers it, which supersedes the one
\* that was registered.  (Mutant: the registered one stays.)
ConnectAs(registered) ==
  /\ link = 0
  /\ status # "pending"
  /\ conns < MaxConns
  /\ conns' = conns + 1
  /\ link' = conns + 1
  /\ reg' = registered
  /\ handler' = [handler EXCEPT ![conns + 1] = "added"]
  /\ UNCHANGED <<status, pending, timerVars, restarts, late>>

ConnectKeepsOld == ConnectAs(IF reg = 0 THEN conns + 1 ELSE reg)

Connect == ConnectAs(conns + 1)

\* Hello first, then a Heartbeat every interval.
Beat ==
  /\ link # 0
  /\ link \notin pending
  /\ pending' = pending \cup {link}
  /\ UNCHANGED <<status, conns, link, handler, reg, timerVars, restarts, late>>

Drop ==
  /\ link # 0
  /\ link' = 0
  /\ UNCHANGED <<status, conns, pending, handler, reg, timerVars, restarts, late>>

-----------------------------------------------------------------------------
(***************************************************************************)
(* The handler of stream c.                                                *)
(***************************************************************************)
\* cancelPendingOffline, called by the handler of stream c, whichever stream
\* is registered.
CancelPendingOffline(c) ==
  /\ armed' = armed \ {slot}
  /\ slot' = 0
  /\ late' = (late \/ (slot \in armed /\ reg # c))
  /\ UNCHANGED callback

Register(c) ==
  /\ At(c, "added", "serving")
  /\ CancelPendingOffline(c)
  /\ UNCHANGED <<status, conns, link, pending, reg, restarts>>

\* onHello and onHeartbeat: cancel the timer ...
Receive(c) ==
  /\ c \in pending
  /\ At(c, "serving", "beat")
  /\ pending' = pending \ {c}
  /\ CancelPendingOffline(c)
  /\ UNCHANGED <<status, conns, link, reg, restarts>>

\* ... and write the row.  (Mutant: a server that is offline stays so.)
MarkOnlineOnce(c) ==
  /\ At(c, "beat", "serving")
  /\ UNCHANGED <<status, conns, link, pending, reg, timerVars, restarts, late>>

MarkOnline(c) ==
  /\ At(c, "beat", "serving")
  /\ status' = "online"
  /\ late' = (late \/ reg = 0)
  /\ UNCHANGED <<conns, link, pending, reg, timerVars, restarts>>

\* Recv fails; the deferred function removes the stream.  Only the one that
\* is still registered goes on to arm the timer.  What it had not received
\* is lost.  (Mutant: no timer is armed.)
Left(c, registered, next, rest) ==
  /\ c # link
  /\ At(c, "serving", next)
  /\ reg' = IF registered THEN 0 ELSE reg
  /\ pending' = rest
  /\ UNCHANGED <<status, conns, link, timerVars, restarts, late>>

LeaveNoTimer(c) == Left(c, reg = c, "ended", pending \ {c})

Leave(c) == Left(c, reg = c, IF reg = c THEN "removed" ELSE "ended", pending \ {c})

\* scheduleOffline.
ScheduleOffline(c) ==
  /\ At(c, "removed", "ended")
  /\ slot' = c
  /\ armed' = (armed \ {slot}) \cup {c}
  /\ UNCHANGED <<status, conns, link, pending, reg, callback, restarts, late>>

-----------------------------------------------------------------------------
(***************************************************************************)
(* The callback of timer c.                                                *)
(***************************************************************************)
Fire(c) ==
  /\ c \in armed
  /\ armed' = armed \ {c}
  /\ callback' = [callback EXCEPT ![c] = "fired"]
  /\ UNCHANGED <<status, streamVars, slot, restarts, late>>

\* It deletes the entry of the map, even if that is a newer timer by now.
Forget(c) ==
  /\ callback[c] = "fired"
  /\ slot' = 0
  /\ callback' = [callback EXCEPT ![c] = "check"]
  /\ UNCHANGED <<status, streamVars, armed, restarts, late>>

Check(c) ==
  /\ callback[c] = "check"
  /\ callback' = [callback EXCEPT ![c] = IF reg = 0 THEN "mark" ELSE "none"]
  /\ UNCHANGED <<status, streamVars, slot, armed, restarts, late>>

MarkOffline(c) ==
  /\ callback[c] = "mark"
  /\ status' = IF status = "online" THEN "offline" ELSE status
  /\ callback' = [callback EXCEPT ![c] = "none"]
  /\ UNCHANGED <<streamVars, slot, armed, restarts, late>>

\* The gateway restarts: handlers, registry and timers are gone, and servers
\* that were online are marked offline.  (Mutant: they are not.)
RestartWith(s) ==
  /\ restarts < MaxRestarts
  /\ restarts' = restarts + 1
  /\ status' = s
  /\ link' = 0
  /\ pending' = {}
  /\ handler' = [c \in Conns |-> IF c <= conns THEN "ended" ELSE "none"]
  /\ reg' = 0
  /\ slot' = 0
  /\ armed' = {}
  /\ callback' = [c \in Conns |-> "none"]
  /\ UNCHANGED <<conns, late>>

RestartKeeps == RestartWith(status)

Restart == RestartWith(IF status = "online" THEN "offline" ELSE status)

-----------------------------------------------------------------------------
Next ==
  \/ Enroll \/ Connect \/ Beat \/ Drop \/ Restart
  \/ \E c \in Conns :
       \/ Register(c) \/ Receive(c) \/ MarkOnline(c) \/ Leave(c) \/ ScheduleOffline(c)
       \/ Fire(c) \/ Forget(c) \/ Check(c) \/ MarkOffline(c)

Spec == Init /\ [][Next]_vars

(***************************************************************************)
(* A connected agent keeps sending heartbeats, handlers and callbacks run, *)
(* Recv fails on a stream the agent left (keepalive), and a timer that is  *)
(* armed and never stopped fires.                                          *)
(***************************************************************************)
Fairness ==
  /\ WF_vars(Beat)
  /\ \A c \in Conns :
       /\ WF_vars(Register(c)) /\ WF_vars(Receive(c)) /\ WF_vars(MarkOnline(c))
       /\ WF_vars(Leave(c)) /\ WF_vars(ScheduleOffline(c))
       /\ WF_vars(Fire(c)) /\ WF_vars(Forget(c)) /\ WF_vars(Check(c)) /\ WF_vars(MarkOffline(c))

FairSpec == Spec /\ Fairness

-----------------------------------------------------------------------------
(***************************************************************************)
(* Properties.                                                             *)
(***************************************************************************)
\* A server is shown online only while a stream is registered or something
\* is under way that will mark it offline: a handler about to arm the timer,
\* a timer that runs, or a callback that has not yet decided for good.  Only
\* a late handler of a superseded stream can break this.  (Until its first
\* stream a server is online by enrollment alone.)
OnlineIsBacked ==
  (status = "online" /\ conns > 0 /\ ~late) =>
    \/ reg # 0
    \/ armed # {}
    \/ \E c \in Conns : handler[c] = "removed" \/ callback[c] \in {"fired", "check", "mark"}

\* The registered stream is one whose handler will take it out again, and
\* never one that a newer stream superseded.
RegisteredIsNewest ==
  reg # 0 => reg = conns /\ handler[reg] \in {"added", "serving", "beat"}

\* An agent that stays away is shown offline for good, also when timers are
\* replaced, callbacks delete newer timers' entries or the gateway restarts;
\* again unless a superseded stream's handler comes late.
GoesOffline ==
  (<>[](conns > 0 /\ link = 0) /\ [](~late)) => <>[](status = "offline")

\* An agent that stays connected is shown online for good, even if a late
\* callback marks it offline after it came back.
StaysOnline == <>[](link # 0) => <>[](status = "online")
=============================================================================
