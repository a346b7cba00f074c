----------------------------- MODULE AgentUpdate ------------------------------
(***************************************************************************)
(* The update of an agent by itself: the control plane offers a version,   *)
(* the agent builds it from source or downloads it, puts it in the place   *)
(* of its own binary and exits, and its supervisor starts what is there;    *)
(* or, on the host of the whole stack, it starts the script that rebuilds   *)
(* the stack.  The stages it reports are shown to the operator.            *)
(***************************************************************************)
EXTENDS Naturals, Sequences, FiniteSets

CONSTANTS
  Versions,     \* Nat, as the releases are ordered
  Requests,     \* updates that are triggered
  Settings,     \* of agents and policies: records as in Init
  MaxReleases,  \* bound: releases after the first
  MaxFaults,    \* bound: drops, crashes, writes that fail with their restore
  None

VARIABLES
  setting,      \* settings
  policy,   \* the version of the effective policy
  row,      \* servers.agent_version
  prog,     \* UpdateProgressTracker: target and phase, or None
  trigger,  \* per request: where its handler is, and its target
  conn, queue, ups,  \* the stream; updates on their way; reports on theirs
  running,  \* the version of the agent's process, or None
  job,      \* per update: what handleUpdate does
  lock,     \* updateOnce: who holds it
  path, spare,  \* the binary and its backup: version and whole, or None
  scripts,  \* update.sh that run: their targets
  releases, faults,  \* bound counters
  spoilt,   \* history: a restore has failed
  untold    \* history: a stage was lost, came before the offer, or is not reported

handlers == <<policy, row, prog, trigger>>
wire     == <<conn, queue, ups>>
agent    == <<running, job, lock>>
disk     == <<path, spare>>
history  == <<spoilt, untold>>
vars     == <<setting, handlers, wire, agent, disk, scripts, releases, faults, history>>

Whole(v)  == [v |-> v, whole |-> TRUE]
IsWhole(f) == f # None /\ f.whole
NoUpdate  == [at |-> "none", v |-> 0, cut |-> FALSE]

Init ==
  /\ setting \in Settings
  /\ policy = 2 /\ row = 1 /\ prog = None
  /\ trigger = [q \in Requests |-> [at |-> "idle", v |-> 0]]
  /\ conn = TRUE /\ queue = << >> /\ ups = << >>
  /\ running = 1 /\ job = [q \in Requests |-> NoUpdate] /\ lock = {}
  /\ path = Whole(1) /\ spare = None
  /\ scripts = {} /\ releases = 0 /\ faults = 0
  /\ spoilt = FALSE /\ untold = FALSE

Fault == faults < MaxFaults /\ faults' = faults + 1

-----------------------------------------------------------------------------
(***************************************************************************)
(* The control plane.                                                      *)
(***************************************************************************)
\* Catalog.refresh, or another policy set by hand.
Refresh(v) ==
  /\ releases < MaxReleases /\ releases' = releases + 1
  /\ v # policy /\ policy' = v
  /\ UNCHANGED <<setting, row, prog, trigger, wire, agent, disk, scripts, faults, history>>

\* UpdatePolicy.For: any other version, also an older one.
Offers(current) == current # policy

\* triggerServerUpdate, of an agent that is online.
Trigger(q) ==
  /\ trigger[q].at = "idle" /\ conn /\ Offers(row)
  /\ trigger' = [trigger EXCEPT ![q] = [at |-> "send", v |-> policy]]
  /\ UNCHANGED <<setting, policy, row, prog, wire, agent, disk, scripts, releases, faults, history>>

\* SendAgentUpdate sends,
Send(q) ==
  /\ trigger[q].at = "send"
  /\ trigger' = [trigger EXCEPT ![q].at = IF conn THEN "offer" ELSE "done"]
  /\ queue' = IF conn THEN Append(queue, q) ELSE queue
  /\ UNCHANGED <<setting, policy, row, prog, conn, ups, agent, disk, scripts, releases, faults, history>>

\* and records the offer, by which time the agent may have answered.
Offer(q) ==
  /\ trigger[q].at = "offer"
  /\ trigger' = [trigger EXCEPT ![q].at = "done"]
  /\ prog' = [v |-> trigger[q].v, phase |-> "offered"]
  /\ untold' = (untold \/ job[q].at \in {"over", "exit"}
                        \/ (q \notin {queue[i] : i \in DOMAIN queue} /\ job[q].at = "none"))
  /\ UNCHANGED <<setting, policy, row, wire, agent, disk, scripts, releases, faults, spoilt>>

\* Record
Record ==
  /\ conn /\ ups # << >>
  /\ prog' = Head(ups) /\ ups' = Tail(ups)
  /\ UNCHANGED <<setting, policy, row, trigger, conn, queue, agent, disk, scripts, releases, faults, history>>

\* Mutant: what was reported last.
SnapshotAsReported == IF prog = None THEN "none" ELSE prog.phase

\* Snapshot: on the target, it is done whatever was reported but a failure.
Snapshot ==
  IF prog = None THEN "none"
  ELSE IF prog.phase # "failed" /\ prog.v = row THEN "done" ELSE prog.phase

\* status: an older version is not called an update, but can be triggered.
ServerStatus == [available |-> policy > row, can |-> conn /\ Offers(row), phase |-> Snapshot]

-----------------------------------------------------------------------------
(***************************************************************************)
(* The agent.                                                              *)
(***************************************************************************)
Report(q, phases) == ups' = ups \o [i \in DOMAIN phases |-> [v |-> trigger[q].v, phase |-> phases[i]]]

\* An update is over: the lock is released.
Over(q) == job' = [job EXCEPT ![q].at = "over"] /\ lock' = lock \ {q}

\* Mutant: the lock is not tried.
StartUnlocked(q) ==
  /\ job' = [job EXCEPT ![q] = [at |-> "fetch", v |-> trigger[q].v, cut |-> FALSE]]
  /\ lock' = lock \cup {q}
  /\ Report(q, << "downloading" >>)
  /\ UNCHANGED untold

\* handleUpdate: not at all where updates are disabled, or while one runs; a
\* download of what runs already is skipped, a build of it fails.
Start(q) ==
  IF ~setting.enabled \/ lock # {} \/ (setting.how = "binary" /\ trigger[q].v = running)
  THEN /\ job' = [job EXCEPT ![q].at = "over"] /\ untold' = TRUE
       /\ UNCHANGED <<lock, ups>>
  ELSE IF trigger[q].v = running
  THEN job' = [job EXCEPT ![q].at = "over"] /\ Report(q, << "failed" >>) /\ UNCHANGED <<lock, untold>>
  ELSE /\ job' = [job EXCEPT ![q] = [at |-> "fetch", v |-> trigger[q].v, cut |-> FALSE]]
       /\ lock' = {q}
       /\ Report(q, << "downloading" >>)
       /\ UNCHANGED untold

Arrive ==
  /\ conn /\ queue # << >>
  /\ queue' = Tail(queue)
  /\ Start(Head(queue))
  /\ UNCHANGED <<setting, handlers, conn, running, disk, scripts, releases, faults, spoilt>>

\* Apply: the stack is checked out and its script started, which goes on
\* by itself; the agent is built, or downloaded and its digest compared.
\* What takes long ends with the stream.
Fetch(q) ==
  /\ job[q].at = "fetch"
  /\ \/ Over(q) /\ Report(q, << "failed" >>) /\ UNCHANGED scripts
     \/ /\ setting.how = "stack" /\ ~job[q].cut
        /\ Over(q) /\ Report(q, << "building" >>)
        /\ scripts' = scripts \cup {job[q].v}
     \/ /\ setting.how # "stack" /\ ~job[q].cut
        /\ job' = [job EXCEPT ![q].at = IF setting.writable THEN "unlink" ELSE "copy"]
        /\ UNCHANGED <<lock, ups, scripts>>
  /\ UNCHANGED <<setting, handlers, conn, queue, running, disk, releases, faults, history>>

Step(q, from, to) == job[q].at = from /\ job' = [job EXCEPT ![q].at = to]

\* installByRename: the old backup goes,
Unlink(q) ==
  /\ Step(q, "unlink", "aside") /\ spare' = None
  /\ UNCHANGED <<setting, handlers, wire, running, lock, path, scripts, releases, faults, history>>

\* the binary is set aside,
SetAside(q) ==
  /\ path # None /\ Step(q, "aside", "swap")
  /\ spare' = path /\ path' = None
  /\ UNCHANGED <<setting, handlers, wire, running, lock, scripts, releases, faults, history>>

\* and the new one put in its place.
Swap(q) ==
  /\ Step(q, "swap", "placed")
  /\ path' = Whole(job[q].v)
  /\ UNCHANGED <<setting, handlers, wire, running, lock, spare, scripts, releases, faults, history>>

\* Either rename may fail; the second is undone.
RenameFails(q) ==
  /\ \/ job[q].at = "aside" /\ UNCHANGED disk
     \/ job[q].at = "swap" /\ path' = spare /\ spare' = None
  /\ Over(q) /\ Report(q, << "failed" >>)
  /\ UNCHANGED <<setting, handlers, conn, queue, running, scripts, releases, faults, history>>

\* installInPlace, where the directory is not writable: the backup is made
\* anew and the binary overwritten, a running one not on every system.
CopyAway(q) ==
  /\ Step(q, "copy", "truncate") /\ spare' = path
  /\ UNCHANGED <<setting, handlers, wire, running, lock, path, scripts, releases, faults, history>>

Truncate(q) ==
  /\ Step(q, "truncate", "write")
  /\ path' = [v |-> job[q].v, whole |-> FALSE]
  /\ UNCHANGED <<setting, handlers, wire, running, lock, spare, scripts, releases, faults, history>>

WriteOver(q) ==
  /\ Step(q, "write", "placed")
  /\ path' = Whole(job[q].v)
  /\ UNCHANGED <<setting, handlers, wire, running, lock, spare, scripts, releases, faults, history>>

\* The backup, or the overwriting, fails; the backup is written back, which
\* may fail for the same reason.
OverwriteFails(q) ==
  /\ \/ /\ job[q].at \in {"copy", "truncate"} /\ UNCHANGED <<path, spoilt, faults>>
        /\ spare' = IF job[q].at = "copy" THEN None ELSE spare
     \/ /\ job[q].at = "write" /\ UNCHANGED spare
        /\ \/ path' = spare /\ UNCHANGED <<spoilt, faults>>
           \/ Fault /\ path' = [path EXCEPT !.whole = FALSE] /\ spoilt' = TRUE
  /\ Over(q) /\ Report(q, << "failed" >>)
  /\ UNCHANGED <<setting, handlers, conn, queue, running, scripts, releases, untold>>

\* The binary is in place.  With a restart the agent exits; otherwise a
\* download is done, and a build is told to restart all the same.
Placed(q) ==
  /\ job[q].at = "placed"
  /\ IF setting.restart
     THEN /\ job' = [job EXCEPT ![q].at = "exit"] /\ UNCHANGED <<lock, untold>>
          /\ Report(q, << "installing", "restarting" >>)
     ELSE /\ Over(q)
          /\ Report(q, IF setting.how = "binary" THEN << "installing", "done" >>
                       ELSE << "installing", "restarting" >>)
          /\ untold' = (untold \/ setting.how # "binary")
  /\ UNCHANGED <<setting, handlers, conn, queue, running, disk, scripts, releases, faults, spoilt>>

\* The process ends and its supervisor starts what is at the path.  Reports
\* that have not left by then are lost.
Respawn(p) ==
  /\ conn' = FALSE /\ queue' = << >> /\ ups' = << >>
  /\ running' = IF IsWhole(p) THEN p.v ELSE None
  /\ job' = [q \in Requests |-> IF job[q].at = "none" THEN job[q] ELSE [NoUpdate EXCEPT !.at = "over"]]
  /\ lock' = {}

\* FlushAndExit
Exit(q) ==
  /\ job[q].at = "exit"
  /\ Respawn(path)
  /\ untold' = (untold \/ queue # << >> \/ \E i \in DOMAIN ups : ups[i].v # job[q].v)
  /\ UNCHANGED <<setting, handlers, disk, scripts, releases, faults, spoilt>>

\* update.sh has rebuilt the stack and restarts it, the control plane too,
\* or has failed, of which it tells nobody.
ScriptEnds(v) ==
  /\ v \in scripts /\ scripts' = scripts \ {v}
  /\ \/ /\ path' = Whole(v) /\ Respawn(path')
        /\ prog' = None
        /\ trigger' = [q \in Requests |-> IF trigger[q].at \in {"send", "offer"}
                                          THEN [trigger[q] EXCEPT !.at = "done"] ELSE trigger[q]]
        /\ untold' = (untold \/ queue # << >>)
     \/ untold' = TRUE /\ UNCHANGED <<path, prog, trigger, wire, agent>>
  /\ UNCHANGED <<setting, policy, row, spare, releases, faults, spoilt>>

\* The agent connects and its Hello says what runs.
Connect ==
  /\ ~conn /\ running # None
  /\ conn' = TRUE /\ row' = running
  /\ UNCHANGED <<setting, policy, prog, trigger, queue, ups, agent, disk, scripts, releases, faults, history>>

\* The stream ends with what is on it, and with it the fetch.
Drop ==
  /\ Fault
  /\ conn /\ conn' = FALSE /\ queue' = << >>
  /\ \E n \in 0..Len(ups) : ups' = SubSeq(ups, n + 1, Len(ups))
  /\ job' = [q \in Requests |-> [job[q] EXCEPT !.cut = job[q].at = "fetch"]]
  /\ untold' = TRUE
  /\ UNCHANGED <<setting, handlers, running, lock, disk, scripts, releases, spoilt>>

AgentCrash ==
  /\ Fault /\ running # None
  /\ Respawn(path) /\ untold' = TRUE
  /\ UNCHANGED <<setting, handlers, disk, scripts, releases, spoilt>>

System ==
  \/ Record \/ Arrive \/ Connect
  \/ \E q \in Requests :
       \/ Send(q) \/ Offer(q) \/ Fetch(q) \/ Unlink(q) \/ SetAside(q) \/ Swap(q) \/ RenameFails(q)
       \/ CopyAway(q) \/ Truncate(q) \/ WriteOver(q) \/ OverwriteFails(q) \/ Placed(q) \/ Exit(q)
  \/ \E v \in Versions : ScriptEnds(v)

Next ==
  \/ System
  \/ \E v \in Versions : Refresh(v)
  \/ \E q \in Requests : Trigger(q)
  \/ Drop \/ AgentCrash

Spec == Init /\ [][Next]_vars

-----------------------------------------------------------------------------
(***************************************************************************)
(* Properties.                                                             *)
(***************************************************************************)
\* Whenever the agent or its host dies in the middle of an update, a whole
\* binary is at the path or beside it ("the previous binary is kept as a .old
\* backup", selfupdate.go).  The exception is an overwriting whose restore has
\* failed: the next attempt begins by removing the backup.
BinaryKept == spoilt \/ IsWhole(path) \/ IsWhole(spare)

\* What the operator is shown comes to an end that is true: done on the
\* version, or with it in place where nothing restarts, or failed; an agent
\* that exits for an update comes back.  Unless the stage got lost, or the
\* agent reports none.
Told ==
  \/ untold
  \/ ServerStatus.phase \in {"none", "failed"}
  \/ ServerStatus.phase = "done" /\ (row = prog.v \/ (~setting.restart /\ IsWhole(path) /\ path.v = prog.v))

Finished == Told /\ lock = {} /\ (IsWhole(path) => conn /\ row = running)

UpdateEnds == <>[]Finished
=============================================================================
