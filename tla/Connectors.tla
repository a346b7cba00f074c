----------------------------- MODULE Connectors ------------------------------
(***************************************************************************)
(* Managing a service of a host through its connector: the HTTP handlers   *)
(* and the operation and snapshot tables of the control plane              *)
(* (internal/connectors), the request/reply correlation of the gateway     *)
(* (agentgw/command.go, pending.go), the agent's executor with its write   *)
(* pipeline (agent/internal/connectors) and the discovery of connectors    *)
(* with its cache.                                                         *)
(*                                                                         *)
(* One connector with one config file.  What a tool says of a file depends *)
(* on the class of its content only: Parses, Fits (into the rest of the    *)
(* configuration) and Boots (the service stays up with it).  The database  *)
(* answers.  Ports, logs, listings and inspection read and return; they    *)
(* stand as one operation, look.                                           *)
(***************************************************************************)
EXTENDS Naturals, Sequences, FiniteSets, FiniteSetsExt, SequencesExt

CONSTANTS
  MaxRequests,          \* bound: HTTP requests
  Hosts,                \* what the agent may find itself on, see ConnectorsAssumption
  Contents, Parses, Fits, Boots,
  Original,             \* the file at first
  Keep,                 \* snapshots kept per file (20 in writeConfig)
  MaxFaults,            \* bound: overlaps, drops, slow answers, edits by hand, ends of a process
  None

Requests == 1..MaxRequests    \* in the order in which they are made

ASSUME ConnectorsAssumption ==
  /\ MaxRequests \in Nat /\ MaxFaults \in Nat /\ Keep \in Nat \ {0}
  /\ Boots \subseteq Fits /\ Fits \subseteq Parses /\ Parses \subseteq Contents
  /\ Original \in Boots /\ None \notin Contents \cup {"offline"}
  /\ \A h \in Hosts :
       /\ h.kind \in {"nginx", "systemd", "pm2"}
       /\ h.whole \in BOOLEAN                     \* the main config, a unit; not a fragment
       /\ h.checker \in BOOLEAN                   \* systemd-analyze is installed
       /\ h.write \in {"direct", "sudo", "none"}  \* how the agent can replace the file
       /\ h.reload \in {"root", "sudo", "none"}   \* how it can drive the service
       /\ h.actions \subseteq {"start", "stop", "save"}  \* bound: lifecycle actions that are tried

VARIABLES
  host,     \* one of Hosts
  disk,     \* the config file
  up,       \* the service runs
  conn,     \* the stream is up
  req,      \* per request: its handler
  row,      \* per request: the status of its operation row
  box,      \* mailboxes: commands waited for, with their reply or None
  down, back, \* commands and replies on the wire
  job,      \* commands at the agent
  snaps,    \* the snapshot table, oldest first
  cache,    \* the connector's row as discovery left it
  events,   \* discovery events in the agent's outbox
  faults,   \* bound counter
  log,      \* history: changes of the file that were meant to stay
  verdict,  \* history: per request: what the agent found
  saved,    \* history: per request: the snapshot taken for it
  overlap,  \* history: two changes of the file were asked for, or ran, at once
  torn      \* history: a process ended, or a write was cut off, in mid-change

hostv   == <<host, disk, up>>
wire    == <<conn, box, down, back>>
history == <<log, verdict, saved, overlap, torn>>
vars    == <<hostv, wire, req, row, job, snaps, cache, events, faults, history>>

Idle == [at |-> "idle", op |-> "none", content |-> None, base |-> None, dry |-> FALSE,
         action |-> "none"]

\* A command on the wire: its request and whether it is the request's own
\* command or the read of its snapshot.
Snap(i) == <<i, "snap">>
Cmd(i)  == <<i, "cmd">>

\* What is followed by a sweep, and what writes the file.
MutatingOp(j) == j.op \in {"apply", "rollback", "lifecycle", "process"} /\ ~j.dry
Writes(j)     == (j.op \in {"apply", "rollback"} /\ ~j.dry) \/ j.action = "save"

Changing == {k \in DOMAIN job : job[k].at # "reply" /\ Writes(job[k])}

TypeOK ==
  /\ host \in Hosts /\ disk \in Contents /\ up \in BOOLEAN
  /\ conn \in BOOLEAN
  /\ \A i \in Requests :
       req[i].at \in {"idle", "snap", "snapwait", "start", "send", "wait", "done", "lost"}
  /\ row \in [Requests -> {None, "pending", "offline", "timeout", "failed", "succeeded",
                           "invalid", "unauthorized", "unsupported"}]
  /\ DOMAIN box \cup down \cup DOMAIN job \subseteq Requests \X {"snap", "cmd"}
  /\ \A k \in DOMAIN job :
       /\ job[k].at \in {"begin", "write", "check", "activate", "health", "restore",
                         "reactivate", "reply"}
       /\ job[k].ctx \in {"live", "cut"}
  /\ \A n \in DOMAIN snaps : snaps[n] \in Contents
  /\ Len(snaps) <= Keep

-----------------------------------------------------------------------------
(***************************************************************************)
(* What the tools of the host say.                                         *)
(***************************************************************************)
\* A candidate is checked before it is written.  nginx parses a main config
\* in full and counts the braces of a fragment; a unit is verified if the
\* tool is there, a drop-in is not; the pm2 dump has to be JSON.
NginxValidate(c, ctx) == IF host.whole THEN ctx = "live" /\ c \in Fits ELSE c \in Parses

SystemdValidate(c, ctx) == host.whole /\ host.checker => ctx = "live" /\ c \in Parses

Pm2Validate(c) == c \in Parses

Validate(c, ctx) ==
  CASE host.kind = "nginx"   -> NginxValidate(c, ctx)
    [] host.kind = "systemd" -> SystemdValidate(c, ctx)
    [] host.kind = "pm2"     -> Pm2Validate(c)

\* Then in place, with everything else.
NginxValidateLive(ctx)   == ctx = "live" /\ disk \in Fits
SystemdValidateLive(ctx) == host.checker => ctx = "live" /\ disk \in Fits
Pm2ValidateLive          == disk \in Parses

ValidateLive(ctx) ==
  CASE host.kind = "nginx"   -> NginxValidateLive(ctx)
    [] host.kind = "systemd" -> SystemdValidateLive(ctx)
    [] host.kind = "pm2"     -> Pm2ValidateLive

Outcome(status, running) == [status |-> status, up |-> running]
Same(status) == Outcome(status, up)

\* A command under sudo asks sudo first, which a dead context fails.
May(way, ctx) == way \in {"root", "direct"} \/ (way = "sudo" /\ ctx = "live")

\* Reload of nginx, by systemctl or by its own signal: the old workers stay
\* when the new configuration cannot be loaded, and a stopped nginx has
\* nothing to reload.  A service that does not boot exits a moment later.
NginxActivate(ctx) ==
  IF ~May(host.reload, ctx) THEN {Same("unauthorized")}
  ELSE {Same("failed")} \cup {o \in {Outcome("succeeded", disk \in Boots)} :
                                ctx = "live" /\ up /\ disk \in Fits}

\* daemon-reload, then try-reload-or-restart: a unit that is stopped stays so.
SystemdActivate(ctx) ==
  IF ~May(host.reload, ctx) THEN {Same("unauthorized")}
  ELSE {Same("failed")} \cup
       {o \in {CASE ~up -> Same("succeeded")
                 [] up /\ disk \in Boots -> Outcome("succeeded", TRUE)
                 [] OTHER -> Outcome("failed", FALSE)} : ctx = "live"}

\* pm2 resurrect.
Pm2Activate(ctx) ==
  {Same("failed")} \cup
    (IF ctx = "live" /\ disk \in Fits THEN {Outcome("succeeded", disk \in Boots)} ELSE {})

Activate(ctx) ==
  CASE host.kind = "nginx"   -> NginxActivate(ctx)
    [] host.kind = "systemd" -> SystemdActivate(ctx)
    [] host.kind = "pm2"     -> Pm2Activate(ctx)

\* systemctl is asked about nginx only; "unknown", which is also what a
\* command that was cut off gives, passes.
ServiceHealthy(ctx) ==
  IF host.kind # "nginx" THEN {TRUE}
  ELSE IF ctx = "cut" THEN BOOLEAN ELSE {up}

\* What the agent says it can do.  For nginx and pm2 it looks at the file, for
\* systemd at its right to run systemctl.
NginxDetect(ctx)   == [edit |-> May(host.write, ctx), drive |-> May(host.reload, ctx)]
SystemdDetect(ctx) == [edit |-> May(host.reload, ctx), drive |-> May(host.reload, ctx)]
Pm2Detect          == [edit |-> host.write = "direct", drive |-> TRUE]

Detect(ctx) ==
  CASE host.kind = "nginx"   -> NginxDetect(ctx)
    [] host.kind = "systemd" -> SystemdDetect(ctx)
    [] host.kind = "pm2"     -> Pm2Detect

\* A lifecycle action by way of the provider; start and stop stand for all
\* that change the service.  pm2's save writes the file as well.
NginxLifecycle(action, ctx) ==
  IF ~May(host.reload, ctx) THEN {Same("unauthorized")}
  ELSE {Same("failed")} \cup
       {o \in {Outcome("succeeded", TRUE)} : action = "start" /\ ctx = "live" /\ disk \in Boots}
       \cup {o \in {Outcome("succeeded", FALSE)} : action = "stop" /\ ctx = "live"}

SystemdLifecycle(action, ctx) == NginxLifecycle(action, ctx)

Pm2Lifecycle(action, ctx) ==
  {Same("failed")} \cup
    {o \in {Outcome("succeeded", TRUE)} : action = "start" /\ ctx = "live"} \cup
    {o \in {Outcome("succeeded", FALSE)} : action = "stop" /\ ctx = "live"} \cup
    {o \in {Same("succeeded")} : action = "save" /\ ctx = "live"}

Lifecycle(action, ctx) ==
  CASE host.kind = "nginx"   -> NginxLifecycle(action, ctx)
    [] host.kind = "systemd" -> SystemdLifecycle(action, ctx)
    [] host.kind = "pm2"     -> Pm2Lifecycle(action, ctx)

Actions == host.actions

-----------------------------------------------------------------------------
Init ==
  /\ host \in Hosts
  /\ disk = Original /\ up = TRUE
  /\ conn = TRUE
  /\ req = [i \in Requests |-> [at |-> "idle", cmd |-> Idle, seen |-> None]]
  /\ row = [i \in Requests |-> None]
  /\ box = << >> /\ down = {} /\ back = {} /\ job = << >>
  /\ snaps = << >>
  /\ cache = [can |-> Detect("live"), sum |-> Original]
  /\ events = << >>
  /\ faults = 0
  /\ log = << [by |-> 0, over |-> None, new |-> Original, base |-> None] >>
  /\ verdict = [i \in Requests |-> None]
  /\ saved = [i \in Requests |-> None]
  /\ overlap = {} /\ torn = FALSE

Fault == faults < MaxFaults /\ faults' = faults + 1

\* f without the keys in S; f with key k.
Without(f, S) == [k \in DOMAIN f \ S |-> f[k]]
With(f, k, v) == [x \in DOMAIN f \cup {k} |-> IF x = k THEN v ELSE f[x]]

-----------------------------------------------------------------------------
(***************************************************************************)
(* The control plane.                                                      *)
(***************************************************************************)
Over == {"idle", "done", "lost"}

\* Nothing is going on.  A change requested in the middle of something counts
\* as a fault; other requests are made between them.
Quiet == job = << >> /\ events = << >> /\ down = {} /\ back = {} /\ \A i \in Requests : req[i].at \in Over

Midway(c) ==
  IF Quiet THEN UNCHANGED <<faults, overlap>>
  ELSE Writes(c) /\ Fault /\ overlap' = overlap \cup {"asked"}

Issue(i, c, at) ==
  /\ req[i].at = "idle" /\ \A j \in 1..(i - 1) : req[j].at # "idle"
  /\ Midway(c)
  /\ req' = [req EXCEPT ![i] = [at |-> at, cmd |-> c, seen |-> None]]
  /\ UNCHANGED <<hostv, wire, row, job, snaps, cache, events, log, verdict, saved, torn>>

\* Contents that an operator has been shown, to edit.
SeenBy == {req[j].seen : j \in Requests} \ {None}

\* readConfig, and what else only looks.
ReadConfig(i) == Issue(i, [Idle EXCEPT !.op = "read"], "start")
Look(i)       == Issue(i, [Idle EXCEPT !.op = "look"], "start")

\* The ports and the details of a process are asked for without a row.
ListPorts(i)     == Issue(i, [Idle EXCEPT !.op = "look"], "send")
InspectObject(i) == Issue(i, [Idle EXCEPT !.op = "look"], "send")

\* action: refused by the cached capability; processAction has no row.
Action(i, a) ==
  /\ cache.can.drive
  /\ Issue(i, [Idle EXCEPT !.op = "lifecycle", !.action = a], "start")

ProcessAction(i, a) ==
  /\ host.kind # "nginx"
  /\ Issue(i, [Idle EXCEPT !.op = "process", !.action = a], "send")

\* writeConfig is refused by the capability that discovery cached, and reads
\* the file for a snapshot first; a dry run does neither.
WriteConfig(i, c, base, dry) ==
  /\ cache.can.edit \/ dry
  /\ base \in SeenBy \cup {None}
  /\ Issue(i, [Idle EXCEPT !.op = "apply", !.content = c, !.base = base, !.dry = dry],
           IF dry THEN "start" ELSE "snap")

\* rollback to any snapshot; the state before it is snapshotted as well.
Rollback(i, n) ==
  Issue(i, [Idle EXCEPT !.op = "rollback", !.content = snaps[n]], "snap")

\* Mutant: nobody waits for the reply yet when the command goes out.
SendUnopened(i, k) ==
  /\ down' = IF conn THEN down \cup {k} ELSE down
  /\ UNCHANGED box

\* SendConnectorCommand: the mailbox is opened, then the command is queued on
\* the stream, or there is none.
SendConnectorCommand(i, k) ==
  IF conn THEN down' = down \cup {k} /\ box' = With(box, k, None)
  ELSE UNCHANGED <<down, box>>

\* snapshotBefore: best effort.
SnapshotBefore(i) ==
  /\ req[i].at = "snap"
  /\ SendConnectorCommand(i, Snap(i))
  /\ req' = [req EXCEPT ![i].at = IF conn THEN "snapwait" ELSE "start"]
  /\ UNCHANGED <<hostv, conn, back, row, job, snaps, cache, events, faults, history>>

\* Mutant: the newest rows are deleted.
SaveSnapshotPrunesNew(c) == snaps' = IF Len(snaps) < Keep THEN Append(snaps, c) ELSE snaps

\* SaveSnapshot, then PruneSnapshots.
SaveSnapshot(c) ==
  LET s == Append(snaps, c) IN snaps' = IF Len(s) > Keep THEN Tail(s) ELSE s

Replied(i, k) == k \in DOMAIN box /\ box[k] # None

SnapshotReply(i) ==
  LET k == Snap(i) IN
  /\ req[i].at = "snapwait" /\ Replied(i, k)
  /\ IF box[k].status = "succeeded"
     THEN SaveSnapshot(box[k].content) /\ saved' = [saved EXCEPT ![i] = box[k].content]
     ELSE UNCHANGED <<snaps, saved>>
  /\ box' = Without(box, {k})
  /\ req' = [req EXCEPT ![i].at = "start"]
  /\ UNCHANGED <<hostv, conn, down, back, row, job, cache, events, faults, log, verdict, overlap,
                 torn>>

\* The timer of a command fires: its answer is lost, or it is late.
Lost(k) == k \notin down \cup {m.id : m \in back} \cup DOMAIN job

Timer(k) ==
  /\ k \in DOMAIN box /\ box[k] = None
  /\ IF Lost(k) THEN UNCHANGED faults ELSE Fault

SnapshotTimeout(i) ==
  LET k == Snap(i) IN
  /\ req[i].at = "snapwait" /\ Timer(k)
  /\ box' = Without(box, {k})
  /\ req' = [req EXCEPT ![i].at = "start"]
  /\ UNCHANGED <<hostv, conn, down, back, row, job, snaps, cache, events, history>>

\* dispatch: the row is written before the command goes out.
StartOperation(i) ==
  /\ req[i].at = "start"
  /\ row' = [row EXCEPT ![i] = "pending"]
  /\ req' = [req EXCEPT ![i].at = "send"]
  /\ UNCHANGED <<hostv, wire, job, snaps, cache, events, faults, history>>

\* FinishOperation closes the row with status s; a process action has none.
FinishOperation(i, s) ==
  row' = IF row[i] = "pending" THEN [row EXCEPT ![i] = s] ELSE row

Dispatch(i) ==
  /\ req[i].at = "send"
  /\ SendConnectorCommand(i, Cmd(i))
  /\ req' = [req EXCEPT ![i].at = IF conn THEN "wait" ELSE "done"]
  /\ IF conn THEN UNCHANGED row ELSE FinishOperation(i, "offline")
  /\ UNCHANGED <<hostv, conn, back, job, snaps, cache, events, faults, history>>

\* The reply closes the row; what it read is shown to the operator.
DispatchReply(i) ==
  LET k == Cmd(i) IN
  /\ req[i].at = "wait" /\ Replied(i, k)
  /\ FinishOperation(i, box[k].status)
  /\ req' = [req EXCEPT ![i].at = "done", ![i].cmd = Idle,
                        ![i].seen = IF req[i].cmd.op = "read" THEN box[k].content ELSE None]
  /\ box' = Without(box, {k})
  /\ UNCHANGED <<hostv, conn, down, back, job, snaps, cache, events, faults, history>>

DispatchTimeout(i) ==
  LET k == Cmd(i) IN
  /\ req[i].at = "wait" /\ Timer(k)
  /\ FinishOperation(i, "timeout")
  /\ req' = [req EXCEPT ![i].at = "done"]
  /\ box' = Without(box, {k})
  /\ UNCHANGED <<hostv, conn, down, back, job, snaps, cache, events, history>>

\* Mutant: any mailbox takes it.
ResolveAny(m) ==
  LET open == {k \in DOMAIN box : box[k] = None}
  IN  box' = IF open = {} THEN box ELSE [box EXCEPT ![CHOOSE k \in open : TRUE] = m]

\* Resolve: to the mailbox of the request id, if it is still there and empty.
Resolve(m) ==
  box' = IF m.id \in DOMAIN box /\ box[m.id] = None THEN [box EXCEPT ![m.id] = m] ELSE box

Receive(m) ==
  /\ conn /\ m \in back
  /\ back' = back \ {m}
  /\ Resolve(m)
  /\ UNCHANGED <<hostv, conn, down, req, row, job, snaps, cache, events, faults, history>>

\* Mutant: on conflict the checksum stays what it was.
UpsertKeepsSum(e) == cache' = [cache EXCEPT !.can = e.can]

\* upsertConnector: the row and its resources become what was discovered.
UpsertConnector(e) == cache' = e

OnConnectorEvent ==
  /\ conn /\ events # << >>
  /\ UpsertConnector(Head(events))
  /\ events' = Tail(events)
  /\ UNCHANGED <<hostv, wire, req, row, job, snaps, faults, history>>

-----------------------------------------------------------------------------
(***************************************************************************)
(* The agent: one goroutine per command, under the context of the stream   *)
(* it came on and 25 seconds.                                              *)
(***************************************************************************)
Set(k, j)    == job' = With(job, k, j)
End(k, status, content) ==
  Set(k, [job[k] EXCEPT !.at = "reply", !.status = status, !.content = content,
                        !.base = None, !.before = None, !.over = None])

\* A command begins to change the file while another one is at it.
NoteOverlap(c) == overlap' = IF Writes(c) /\ Changing # {} THEN overlap \cup {"ran"} ELSE overlap

Arrive(k) ==
  LET i == k[1]
      c == IF k = Snap(i) THEN [Idle EXCEPT !.op = "read"] ELSE req[i].cmd
  IN  /\ conn /\ k \in down
      /\ down' = down \ {k}
      /\ Set(k, [at |-> "begin", op |-> c.op, content |-> c.content, base |-> c.base,
                 dry |-> c.dry, action |-> c.action, ctx |-> "live", before |-> None,
                 over |-> None, status |-> None])
      /\ NoteOverlap(c)
      /\ UNCHANGED <<hostv, conn, box, back, req, row, snaps, cache, events, faults, log,
                     verdict, saved, torn>>

\* Execute: the operations that only read.
ExecuteRead(k) ==
  /\ job[k].at = "begin" /\ job[k].op \in {"read", "look"}
  /\ \/ End(k, "succeeded", disk)
     \/ job[k].op = "look" /\ End(k, "unsupported", None)
  /\ UNCHANGED <<hostv, wire, req, row, snaps, cache, events, faults, history>>

\* A change of the file that is there to stay.
Note(k, content, base) ==
  log' = Append(log, [by |-> k[1], over |-> disk, new |-> content, base |-> base])

\* lifecycle: by the provider, or as the deploy user's own process.
ExecuteLifecycle(k) ==
  LET j == job[k] IN
  /\ j.at = "begin" /\ j.op \in {"lifecycle", "process"}
  /\ \E o \in Lifecycle(j.action, j.ctx) :
       /\ End(k, o.status, None)
       /\ up' = o.up
       /\ IF j.action = "save" /\ o.status = "succeeded"
          THEN \E c \in Boots : disk' = c /\ Note(k, c, None)
          ELSE UNCHANGED <<disk, log>>
  /\ UNCHANGED <<host, wire, req, row, snaps, cache, events, faults, verdict, saved, overlap, torn>>

\* Mutant: the checksum of the operator's last read is not compared.
BeginApplyUnchecked(k) ==
  LET j == job[k] IN
  /\ j.at = "begin" /\ j.op \in {"apply", "rollback"}
  /\ CASE ~Detect(j.ctx).edit -> End(k, "unauthorized", None)
       [] OTHER -> IF ~Validate(j.content, j.ctx) THEN End(k, "invalid", None)
                   ELSE IF j.dry THEN End(k, "succeeded", None)
                   ELSE Set(k, [j EXCEPT !.at = "write", !.before = disk])
  /\ UNCHANGED <<hostv, wire, req, row, snaps, cache, events, faults, history>>

\* applyConfig up to the write: backup, comparison with the checksum of the
\* operator's last read, check of the candidate; a dry run ends here.
BeginApply(k) ==
  LET j == job[k] IN
  /\ j.at = "begin" /\ j.op \in {"apply", "rollback"}
  /\ CASE ~Detect(j.ctx).edit -> End(k, "unauthorized", None)
       [] OTHER -> IF j.base \notin {None, disk} \/ ~Validate(j.content, j.ctx)
                   THEN End(k, "invalid", None)
                   ELSE IF j.dry THEN End(k, "succeeded", None)
                   ELSE Set(k, [j EXCEPT !.at = "write", !.before = disk])
  /\ UNCHANGED <<hostv, wire, req, row, snaps, cache, events, faults, history>>

\* writeFileAtomic: rename over the file, or install under sudo.
WriteFileAtomic(k) ==
  LET j == job[k] IN
  /\ j.at = "write"
  /\ IF May(host.write, j.ctx) THEN disk' = j.content /\ Set(k, [j EXCEPT !.at = "check", !.over = disk])
     ELSE UNCHANGED disk /\ End(k, "unauthorized", None)
  /\ UNCHANGED <<host, up, wire, req, row, snaps, cache, events, faults, history>>

\* The context ends while sudo install runs: sudo is killed, install may or
\* may not have replaced the file, and the apply gives up where it is.
WriteCutOff(k) ==
  LET j == job[k] IN
  /\ Fault
  /\ j.at = "write" /\ host.write = "sudo" /\ j.ctx = "live"
  /\ disk' \in {disk, j.content}
  /\ torn' = TRUE
  /\ job' = With(job, k, [j EXCEPT !.at = "reply", !.status = "failed", !.content = None,
                                   !.base = None, !.before = None, !.ctx = "cut"])
  /\ UNCHANGED <<host, up, wire, req, row, snaps, cache, events, log, verdict, saved, overlap>>

\* Mutant: what is invalid in context is reported and left on disk.
CheckLiveLeaves(k) ==
  LET j == job[k] IN
  /\ j.at = "check"
  /\ IF ValidateLive(j.ctx) THEN Set(k, [j EXCEPT !.at = "activate"]) ELSE End(k, "invalid", None)
  /\ UNCHANGED <<hostv, wire, req, row, snaps, cache, events, faults, history>>

Undo(j, status) == [j EXCEPT !.at = "restore", !.status = status]

\* 4b: the whole configuration is checked with the new file in place.
CheckLive(k) ==
  LET j == job[k] IN
  /\ j.at = "check"
  /\ Set(k, IF ValidateLive(j.ctx) THEN [j EXCEPT !.at = "activate"] ELSE Undo(j, "invalid"))
  /\ UNCHANGED <<hostv, wire, req, row, snaps, cache, events, faults, history>>

\* 5.
ActivateNew(k) ==
  LET j == job[k] IN
  /\ j.at = "activate"
  /\ \E o \in Activate(j.ctx) :
       /\ up' = o.up
       /\ Set(k, IF o.status = "succeeded" THEN [j EXCEPT !.at = "health"] ELSE Undo(j, o.status))
  /\ UNCHANGED <<host, disk, wire, req, row, snaps, cache, events, faults, history>>

\* 6; an apply that passes is there to stay.
HealthGate(k) ==
  LET j == job[k] IN
  /\ j.at = "health"
  /\ \/ /\ TRUE \in ServiceHealthy(j.ctx)
        /\ End(k, "succeeded", None)
        /\ log' = Append(log, [by |-> k[1], over |-> j.over, new |-> j.content, base |-> j.base])
     \/ /\ FALSE \in ServiceHealthy(j.ctx)
        /\ Set(k, Undo(j, "failed"))
        /\ UNCHANGED log
  /\ UNCHANGED <<hostv, wire, req, row, snaps, cache, events, faults, verdict, saved, overlap, torn>>

\* rollback: the backup is written back; if that fails the message says that
\* the rejected config is on disk.
Restore(k) ==
  LET j == job[k] IN
  /\ j.at = "restore"
  /\ IF May(host.write, j.ctx)
     THEN disk' = j.before /\ Set(k, [j EXCEPT !.at = "reactivate"]) /\ UNCHANGED torn
     ELSE UNCHANGED disk /\ End(k, "failed", None) /\ torn' = TRUE
  /\ UNCHANGED <<host, up, wire, req, row, snaps, cache, events, faults, log, verdict,
                 saved, overlap>>

\* Then the service is activated again, whatever comes of it.
Reactivate(k) ==
  /\ job[k].at = "reactivate"
  /\ \E o \in Activate(job[k].ctx) : up' = o.up
  /\ End(k, job[k].status, None)
  /\ UNCHANGED <<host, disk, wire, req, row, snaps, cache, events, faults, history>>

\* discoverConnectors queues what the host looks like in the durable outbox.
DiscoverConnectors(ctx) == events' = Append(events, [can |-> Detect(ctx), sum |-> disk])

\* handleConnectorCommand: the result is left for the drain loop; without a
\* stream it waits for the next one, unless the old loop takes it and fails.
\* What changed the host is followed by a sweep under the same context (here
\* at once: a later one finds what ConnectorLoop finds).
Reply(k) ==
  LET j == job[k] IN
  /\ j.at = "reply"
  /\ \/ back' = back \cup {[id |-> k, status |-> j.status, content |-> j.content]}
     \/ ~conn /\ UNCHANGED back
  /\ IF MutatingOp(j) THEN DiscoverConnectors(j.ctx) ELSE UNCHANGED events
  /\ job' = Without(job, {k})
  /\ verdict' = IF k = Cmd(k[1]) THEN [verdict EXCEPT ![k[1]] = j.status] ELSE verdict
  /\ UNCHANGED <<hostv, conn, box, down, req, row, snaps, cache, faults, log, saved, overlap, torn>>

\* connectorLoop: when a stream begins, and every five minutes (here, when
\* there is something new to say).
ConnectorLoop ==
  /\ conn
  /\ events = << >> /\ cache # [can |-> Detect("live"), sum |-> disk]
  /\ Quiet
  /\ DiscoverConnectors("live")
  /\ UNCHANGED <<hostv, wire, req, row, job, snaps, cache, faults, history>>

-----------------------------------------------------------------------------
(***************************************************************************)
(* What goes wrong.                                                        *)
(***************************************************************************)
CutAll == [k \in DOMAIN job |-> [job[k] EXCEPT !.ctx = "cut"]]

\* The stream ends with what is on it, and the contexts of its commands; what
\* the drain loop has not taken yet stays.
Drop ==
  /\ Fault
  /\ conn /\ conn' = FALSE
  /\ down' = {} /\ back' \in SUBSET back
  /\ job' = CutAll
  /\ UNCHANGED <<hostv, box, req, row, snaps, cache, events, history>>

Connect ==
  /\ ~conn /\ conn' = TRUE
  /\ DiscoverConnectors("live")
  /\ UNCHANGED <<hostv, box, down, back, req, row, job, snaps, cache, faults, history>>

\* commandTimeout.
Expire(k) ==
  /\ Fault
  /\ job[k].ctx = "live" /\ job[k].at # "reply"
  /\ Set(k, [job[k] EXCEPT !.ctx = "cut"])
  /\ UNCHANGED <<hostv, wire, req, row, snaps, cache, events, history>>

\* Somebody on the host edits the file.
EditByHand(c) ==
  /\ Fault
  /\ c \in Fits \ {disk}
  /\ disk' = c
  /\ log' = Append(log, [by |-> 0, over |-> disk, new |-> c, base |-> None])
  /\ overlap' = IF Changing # {} THEN overlap \cup {"ran"} ELSE overlap
  /\ UNCHANGED <<host, up, wire, req, row, job, snaps, cache, events, verdict, saved, torn>>

\* The agent's process ends; its outbox is on disk.
AgentCrash ==
  /\ Fault
  /\ conn' = FALSE /\ down' = {} /\ back' = {}
  /\ job' = << >>
  /\ torn' = (torn \/ Changing # {})
  /\ UNCHANGED <<hostv, box, req, row, snaps, cache, events, log, verdict, saved, overlap>>

\* The control plane's process ends: no one is left to close the rows.
GatewayCrash ==
  /\ Fault
  /\ conn' = FALSE /\ down' = {} /\ back' \in SUBSET back /\ box' = << >>
  /\ job' = CutAll
  /\ req' = [i \in Requests |-> IF req[i].at \in Over THEN req[i] ELSE [req[i] EXCEPT !.at = "lost"]]
  /\ UNCHANGED <<hostv, row, snaps, cache, events, history>>

Handler(i) ==
  \/ SnapshotBefore(i) \/ SnapshotReply(i) \/ SnapshotTimeout(i) \/ StartOperation(i)
  \/ Dispatch(i) \/ DispatchReply(i) \/ DispatchTimeout(i)

Command(k) ==
  /\ k \in DOMAIN job
  /\ \/ ExecuteRead(k) \/ ExecuteLifecycle(k) \/ BeginApply(k) \/ WriteFileAtomic(k)
     \/ CheckLive(k) \/ ActivateNew(k) \/ HealthGate(k) \/ Restore(k) \/ Reactivate(k)
     \/ Reply(k)

Ids == Requests \X {"snap", "cmd"}

\* What goes on by itself, as opposed to what users and faults do.
System ==
  \/ \E i \in Requests : Handler(i)
  \/ \E k \in Ids : Arrive(k) \/ Command(k)
  \/ \E m \in back : Receive(m)
  \/ OnConnectorEvent \/ ConnectorLoop \/ Connect

Users ==
  \E i \in Requests :
    \/ ReadConfig(i) \/ Look(i) \/ ListPorts(i) \/ InspectObject(i)
    \/ \E a \in Actions : Action(i, a) \/ ProcessAction(i, a)
    \/ \E c \in Contents, b \in Contents \cup {None}, dry \in BOOLEAN : WriteConfig(i, c, b, dry)
    \/ \E n \in DOMAIN snaps : Rollback(i, n)

Faults ==
  \/ \E k \in DOMAIN job : WriteCutOff(k) \/ Expire(k)
  \/ \E c \in Contents : EditByHand(c)
  \/ Drop \/ AgentCrash \/ GatewayCrash

Next == System \/ Users \/ Faults

Spec == Init /\ [][Next]_vars

\* The system does not stand still: goroutines run, messages on a stream
\* arrive, a timer fires when nothing is on its way, the agent reconnects and
\* sweeps.  Nothing of this can go on for ever, so no part of it is starved.
FairSpec == Spec /\ WF_vars(System)

-----------------------------------------------------------------------------
(***************************************************************************)
(* Properties.                                                             *)
(***************************************************************************)
\* "A bad config never outlives the request that caused it" (safety.go):
\* when no change is under way, the file is what the last change that was
\* meant to stay left.  Except after two changes at once, and after a change
\* that was torn off by the end of a process, of its context under sudo.
RejectedIsGone == "ran" \notin overlap /\ ~torn /\ Changing = {} => disk = Last(log).new

\* An edit never overwrites what its author has not seen: the bytes an apply
\* with a base checksum replaced are the ones its author had read, unless two
\* changes ran at once (the comparison and the write are apart).
OnlySeenOverwritten ==
  "ran" \notin overlap => \A n \in DOMAIN log : log[n].base # None => log[n].over = log[n].base

\* Every change made through the control plane can be undone: what it
\* overwrote is in the snapshot table, if its snapshot could be taken, until
\* Keep newer ones push it out.  (An edit by hand may come between.)
ByHand == \E n \in DOMAIN log : n > 1 /\ log[n].by = 0

Overwritten(i) == {log[n].over : n \in {m \in DOMAIN log : log[m].by = i}}

Since(i) == {j \in i..MaxRequests : saved[j] # None}

UndoKept ==
  overlap = {} /\ ~ByHand =>
    \A i \in Requests : saved[i] # None =>
      /\ Overwritten(i) \subseteq {saved[i]}
      /\ Cardinality(Since(i)) <= Keep => saved[i] \in Range(snaps)

\* The history of operations is true: a row that carries a verdict carries
\* the one the agent reached for that very request, and a request that was
\* recorded as offline was never run.
RowsAreTrue ==
  \A i \in Requests :
    /\ row[i] \notin {None, "pending", "offline", "timeout"} => row[i] = verdict[i]
    /\ row[i] = "offline" => verdict[i] = None

\* In the end: "every exit path closes the row out" (ops_handler.go), a request ends and
\* no row is left pending, unless the control plane's process ended.
RowsClosed ==
  \A i \in Requests : req[i].at \in {"idle", "lost"} \/ (req[i].at = "done" /\ row[i] # "pending")

\* The cached capabilities and checksum come to agree with the host again.
CacheAgrees == cache = [can |-> Detect("live"), sum |-> disk]
=============================================================================
