------------------------------- MODULE JobSync -------------------------------
(***************************************************************************)
(* How a job edited over the API reaches the agents that run it: the       *)
(* handlers of control-plane/internal/jobs and servers, the tables they    *)
(* write, the snapshots of agentgw/sync.go, the registry of streams, and   *)
(* applySync of the agent.                                                 *)
(*                                                                         *)
(* A request is a thread of the API server.  Each of its database          *)
(* statements and each message it pushes is a step, so two requests, or a  *)
(* request and a stream that is just being opened, interleave.  Some       *)
(* properties hold whatever interleaves, others only as long as one thread *)
(* runs at a time: the variable overlap says which of the two a behaviour  *)
(* is.                                                                     *)
(***************************************************************************)
EXTENDS Integers, Sequences, FiniteSets

CONSTANTS
  Jobs,       \* job ids
  Servers,    \* servers, each with one agent
  Labels,     \* labels a server may carry and a job may select
  Reqs,       \* API requests; each is made once
  Ops,        \* the operations of requests that come one at a time
  OverlapOps, \* the operations of requests that overlap
  MaxDrops,   \* bound: broken streams and agent restarts
  None,       \* no job row yet, no definition
  Deleted     \* a row that was deleted

Targets == Servers \cup Labels       \* one server, or a label selector
Rows    == [target : Targets, enabled : BOOLEAN, ver : Nat]
Defs    == [enabled : BOOLEAN, ver : Nat]

ASSUME JobSyncAssumption ==
  /\ Servers \cap Labels = {}
  /\ MaxDrops \in Nat
  /\ \A mark \in {None, Deleted} : mark \notin Rows /\ mark \notin Defs

NoRow   == {None, Deleted}
NoDefs  == [j \in Jobs |-> None]

VARIABLES
  jobs,      \* table jobs: row, None before Insert, Deleted after Delete
  versions,  \* table job_versions: version numbers of each job
  labels,    \* table servers: labels
  req,       \* per request: its thread
  link,      \* per server: the agent's stream, seen from the registry
  initial,   \* per server: the snapshot AgentStream has built and not sent
  out,       \* per server: messages pushed and not yet received
  agent,     \* per agent: Runtime.jobs
  disk,      \* per agent: jobs.json
  drops,     \* bound counter
  overlap,   \* may threads run at the same time: fixed in Init
  settled    \* history: servers whose stream opened when no request ran

vars == <<jobs, versions, labels, req, link, initial, out, agent, disk, drops,
          overlap, settled>>
db        == <<jobs, versions, labels>>
agentVars == <<agent, disk>>
linkVars  == <<link, initial, drops>>

-----------------------------------------------------------------------------
(***************************************************************************)
(* A thread: the operation and its input, where it is, the rows it has     *)
(* read, the jobs whose targets it has still to resolve (plan), the        *)
(* servers it has still to push to and those it has, and its snapshot.     *)
(***************************************************************************)
PCs == {"new", "get", "load", "write", "reload", "match", "push", "send", "done"}

NewReq == [op |-> "none", pc |-> "new", job |-> None, input |-> None,
           before |-> None, row |-> None, plan |-> << >>,
           todo |-> {}, seen |-> {}, to |-> None, snap |-> None]

Active(q)  == req[q].pc \notin {"new", "done"}
Joining(s) == link[s] \in {"joining", "built"}
Quiet      == /\ \A q \in Reqs : ~Active(q)
              /\ \A s \in Servers : ~Joining(s)

\* A thread or a stream may begin.
MayStart == overlap \/ Quiet

Exists(j) == jobs[j] \notin NoRow

\* The where clause of BuildFullSync, and MatchingServerIDs.
Matches(row, s) == row \notin NoRow /\ (row.target = s \/ row.target \in labels[s])
MatchingServerIDs(row) == { s \in Servers : Matches(row, s) }

BuildFullSync(s) ==
  [j \in Jobs |-> IF Matches(jobs[j], s)
                  THEN [enabled |-> jobs[j].enabled, ver |-> jobs[j].ver]
                  ELSE None]

Receiving(s) == link[s] \in {"joining", "built", "up"}

-----------------------------------------------------------------------------
\* A database with some jobs at their first version, agents never connected.
Init ==
  /\ jobs \in [Jobs -> [target : Targets, enabled : BOOLEAN, ver : {1}] \cup {None}]
  /\ versions = [j \in Jobs |-> IF jobs[j] = None THEN {} ELSE {1}]
  /\ labels \in [Servers -> SUBSET Labels]
  /\ req = [q \in Reqs |-> NewReq]
  /\ link = [s \in Servers |-> "down"]
  /\ initial = [s \in Servers |-> None]
  /\ out = [s \in Servers |-> << >>]
  /\ agent = [s \in Servers |-> NoDefs]
  /\ disk = [s \in Servers |-> NoDefs]
  /\ drops = 0
  /\ overlap \in BOOLEAN
  /\ settled = {}

\* What a patch may set: a target, the enabled flag, the script.
Inputs == [field : {"target"}, val : Targets] \cup [field : {"enabled"}, val : BOOLEAN]
            \cup [field : {"script"}, val : {None}]

Begin(q, op, pc, j, in) ==
  /\ op \in IF overlap THEN OverlapOps ELSE Ops
  /\ MayStart
  /\ req[q].pc = "new"
  /\ req' = [req EXCEPT ![q] = [@ EXCEPT !.op = op, !.pc = pc, !.job = j, !.input = in]]
  /\ settled' = {}
  /\ UNCHANGED <<db, linkVars, out, agentVars>>

\* create goes straight to Insert, enable and disable to SetEnabled; patch,
\* delete and run read the row first; a server patch writes the labels.
Start(q) ==
  \/ \E j \in Jobs, t \in Targets, e \in BOOLEAN :
       jobs[j] = None /\ Begin(q, "create", "write", j, [target |-> t, enabled |-> e, ver |-> 1])
  \/ \E j \in Jobs, in \in Inputs :
       jobs[j] # None /\ Begin(q, "patch", "get", j, in)
  \/ \E j \in Jobs, e \in BOOLEAN :
       jobs[j] # None /\ Begin(q, "setEnabled", "write", j, e)
  \/ \E j \in Jobs, op \in {"delete", "runNow"} :
       jobs[j] # None /\ Begin(q, op, "get", j, None)
  \/ \E s \in Servers, L \in SUBSET Labels :
       Begin(q, "labels", "write", None, [server |-> s, labels |-> L])

Set(q, fields) == req' = [req EXCEPT ![q] = fields]
Done(q) == Set(q, [NewReq EXCEPT !.pc = "done"])

\* Store.Get, before anything is written.  patch ignores an error here and
\* calls Store.Patch, which reads the row once more.
Get(q) ==
  /\ req[q].pc = "get"
  /\ LET row == jobs[req[q].job]
         r   == [req[q] EXCEPT !.before = row]
         gone == row \in NoRow
     IN  \/ r.op = "patch" /\ Set(q, [r EXCEPT !.pc = "load"])
         \/ r.op # "patch" /\ gone /\ Done(q)
         \/ r.op = "delete" /\ ~gone /\ Set(q, [r EXCEPT !.pc = "write", !.plan = <<row>>])
         \/ r.op = "runNow" /\ ~gone /\ Set(q, [r EXCEPT !.pc = "match", !.row = row, !.plan = <<row>>])
  /\ UNCHANGED <<db, linkVars, out, agentVars, settled>>

Load(q) ==
  /\ req[q].pc = "load"
  /\ IF Exists(req[q].job)
     THEN Set(q, [req[q] EXCEPT !.row = jobs[req[q].job], !.pc = "write"])
     ELSE Done(q)
  /\ UNCHANGED <<db, linkVars, out, agentVars, settled>>

-----------------------------------------------------------------------------
(***************************************************************************)
(* The writes.                                                             *)
(***************************************************************************)
\* Insert: the row and version 1 in one transaction.
Insert(q) ==
  /\ req[q].op = "create"
  /\ IF jobs[req[q].job] = None
     THEN /\ jobs' = [jobs EXCEPT ![req[q].job] = req[q].input]
          /\ versions' = [versions EXCEPT ![req[q].job] = {1}]
          /\ Set(q, [req[q] EXCEPT !.pc = "reload"])
     ELSE UNCHANGED <<jobs, versions>> /\ Done(q)   \* another request's id
  /\ UNCHANGED labels

\* The row the transaction of Patch writes: every column, from the row it
\* loaded and the input.
Patched(row, in) ==
  CASE in.field = "target"  -> [row EXCEPT !.target = in.val]
    [] in.field = "enabled" -> [row EXCEPT !.enabled = in.val]
    [] in.field = "script"  -> [row EXCEPT !.ver = @ + 1]

\* Patch's transaction.  A version number that is taken, or a job that is
\* gone, fails it; without a script a gone job is found by the final Get.
Patch(q) ==
  LET r   == req[q]
      row == Patched(r.row, r.input)
      new == r.input.field = "script"
  IN  /\ r.op = "patch"
      /\ IF Exists(r.job) /\ ~(new /\ row.ver \in versions[r.job])
         THEN /\ jobs' = [jobs EXCEPT ![r.job] = row]
              /\ versions' = [versions EXCEPT ![r.job] = IF new THEN @ \cup {row.ver} ELSE @]
              /\ Set(q, [r EXCEPT !.pc = "reload"])
         ELSE UNCHANGED <<jobs, versions>> /\ Done(q)
      /\ UNCHANGED labels

SetEnabled(q) ==
  /\ req[q].op = "setEnabled"
  /\ IF Exists(req[q].job)
     THEN /\ jobs' = [jobs EXCEPT ![req[q].job].enabled = req[q].input]
          /\ Set(q, [req[q] EXCEPT !.pc = "reload"])
     ELSE UNCHANGED jobs /\ Done(q)
  /\ UNCHANGED <<versions, labels>>

\* Delete takes the versions with it.
Delete(q) ==
  /\ req[q].op = "delete"
  /\ IF Exists(req[q].job)
     THEN /\ jobs' = [jobs EXCEPT ![req[q].job] = Deleted]
          /\ versions' = [versions EXCEPT ![req[q].job] = {}]
          /\ Set(q, [req[q] EXCEPT !.pc = "match"])
     ELSE UNCHANGED <<jobs, versions>> /\ Done(q)
  /\ UNCHANGED labels

\* The servers handler: new labels, then a push to that server.
PatchServer(q) ==
  /\ req[q].op = "labels"
  /\ labels' = [labels EXCEPT ![req[q].input.server] = req[q].input.labels]
  /\ Set(q, [req[q] EXCEPT !.pc = "push", !.todo = {req[q].input.server}])
  /\ UNCHANGED <<jobs, versions>>

Write(q) ==
  /\ req[q].pc = "write"
  /\ Insert(q) \/ Patch(q) \/ SetEnabled(q) \/ Delete(q) \/ PatchServer(q)
  /\ UNCHANGED <<linkVars, out, agentVars, settled>>

-----------------------------------------------------------------------------
(***************************************************************************)
(* The fan-out.                                                            *)
(***************************************************************************)
\* The jobs whose servers a patch syncs again: fanoutSyncBoth takes the row
\* from before and the row from after.  (Mutant: only the new one.)
SyncAfterOnly(before, after) == <<after>>
SyncBoth(before, after) == <<before, after>>

\* The Get that ends Insert and Patch, and the one of setEnabled.
Reload(q) ==
  /\ req[q].pc = "reload"
  /\ LET r   == req[q]
         row == jobs[r.job]
     IN  IF r.op = "patch" /\ ~Exists(r.job)
         THEN Done(q)
         ELSE Set(q, [r EXCEPT !.pc = "match",
                               !.plan = IF r.op = "patch" THEN SyncBoth(r.before, row)
                                                          ELSE <<row>>])
  /\ UNCHANGED <<db, linkVars, out, agentVars, settled>>

\* MatchingServerIDs for the next job of the plan.
Match(q) ==
  /\ req[q].pc = "match"
  /\ LET r == req[q]
     IN  IF r.plan = << >>
         THEN Done(q)
         ELSE Set(q, [r EXCEPT !.pc = "push", !.plan = Tail(@),
                               !.todo = MatchingServerIDs(Head(r.plan)) \ r.seen])
  /\ UNCHANGED <<db, linkVars, out, agentVars, settled>>

\* PushFullSync reads the database ...  When there is nobody left the thread
\* goes on to the next job of its plan.
Build(q) ==
  /\ req[q].pc = "push"
  /\ \/ /\ req[q].todo = {}
        /\ Set(q, [req[q] EXCEPT !.pc = "match"])
     \/ \E s \in req[q].todo :
          Set(q, [req[q] EXCEPT !.pc = "send", !.to = s,
                   !.snap = IF req[q].op = "runNow"
                            THEN [kind |-> "run", job |-> req[q].job, ver |-> req[q].row.ver]
                            ELSE [kind |-> "sync", jobs |-> BuildFullSync(s)],
                   !.todo = @ \ {s}, !.seen = @ \cup {s}])
  /\ UNCHANGED <<db, linkVars, out, agentVars, settled>>

\* ... and hands the message to the registered stream.  Without one the
\* agent is offline and skipped; a stream the agent has left swallows it.
\* (Mutant: commands overtake snapshots.)
PushUrgent(s, msg) ==
  IF Receiving(s)
  THEN out' = [out EXCEPT ![s] = IF msg.kind = "run" THEN <<msg>> \o @ ELSE Append(@, msg)]
  ELSE UNCHANGED out

Push(s, msg) ==
  IF Receiving(s) THEN out' = [out EXCEPT ![s] = Append(@, msg)] ELSE UNCHANGED out

SendNow(q) ==
  /\ req[q].pc = "send"
  /\ Push(req[q].to, req[q].snap)
  /\ Set(q, [req[q] EXCEPT !.pc = "push", !.to = None, !.snap = None])
  /\ UNCHANGED <<db, linkVars, agentVars, settled>>

-----------------------------------------------------------------------------
(***************************************************************************)
(* The streams.                                                            *)
(***************************************************************************)
\* The agent opens a stream; AgentStream registers it in place of any old
\* one, whose messages are not delivered any more.  (Mutant: the agent does
\* not dial again after a broken stream.)
ConnectOnce(s) ==
  /\ MayStart
  /\ link[s] = "down" /\ drops = 0
  /\ link' = [link EXCEPT ![s] = "joining"]
  /\ settled' = settled \cup {s}
  /\ UNCHANGED <<db, req, initial, out, agentVars, drops>>

Connect(s) ==
  /\ MayStart
  /\ link[s] \in {"down", "stale"}
  /\ link' = [link EXCEPT ![s] = "joining"]
  /\ settled' = IF Quiet THEN settled \cup {s} ELSE settled \ {s}
  /\ UNCHANGED <<db, req, initial, out, agentVars, drops>>

\* sendFullSync: the initial snapshot.
BuildInitial(s) ==
  /\ link[s] = "joining"
  /\ link' = [link EXCEPT ![s] = "built"]
  /\ initial' = [initial EXCEPT ![s] = [kind |-> "sync", jobs |-> BuildFullSync(s)]]
  /\ UNCHANGED <<db, req, out, agentVars, drops, settled>>

SendInitial(s) ==
  /\ link[s] = "built"
  /\ link' = [link EXCEPT ![s] = "up"]
  /\ out' = [out EXCEPT ![s] = Append(@, initial[s])]
  /\ initial' = [initial EXCEPT ![s] = None]
  /\ UNCHANGED <<db, req, agentVars, drops, settled>>

\* The stream breaks.  The registry does not know yet ...
Drop(s) ==
  /\ drops < MaxDrops
  /\ Receiving(s)
  /\ drops' = drops + 1
  /\ link' = [link EXCEPT ![s] = "stale"]
  /\ initial' = [initial EXCEPT ![s] = None]
  /\ out' = [out EXCEPT ![s] = << >>]
  /\ UNCHANGED <<db, req, agentVars, settled>>

\* ... until Recv returns and Remove takes the stream out.
Remove(s) ==
  /\ link[s] = "stale"
  /\ link' = [link EXCEPT ![s] = "down"]
  /\ UNCHANGED <<db, req, initial, out, agentVars, drops, settled>>

-----------------------------------------------------------------------------
(***************************************************************************)
(* The agent.                                                              *)
(***************************************************************************)
\* A full snapshot replaces the cached set.  (Mutant: it is merged into it.)
AppliedMerge(have, got) == [j \in Jobs |-> IF got[j] = None THEN have[j] ELSE got[j]]
Applied(have, got) == got

\* handleServerMessage: applySync replaces the set in memory and saves it,
\* which may fail; a RunNow starts a run (module AgentRuns).
Receive(s) ==
  /\ Receiving(s)
  /\ out[s] # << >>
  /\ out' = [out EXCEPT ![s] = Tail(@)]
  /\ LET msg == Head(out[s])
     IN  \/ /\ msg.kind = "sync"
            /\ agent' = [agent EXCEPT ![s] = Applied(@, msg.jobs)]
            /\ \/ disk' = [disk EXCEPT ![s] = agent'[s]]
               \/ UNCHANGED disk
         \/ msg.kind = "run" /\ UNCHANGED agentVars
  /\ UNCHANGED <<db, req, linkVars, settled>>

\* The agent process restarts and loads its cached jobs.
Restart(s) ==
  /\ drops < MaxDrops
  /\ drops' = drops + 1
  /\ agent' = [agent EXCEPT ![s] = disk[s]]
  /\ link' = [link EXCEPT ![s] = IF Receiving(s) THEN "stale" ELSE @]
  /\ initial' = [initial EXCEPT ![s] = None]
  /\ out' = [out EXCEPT ![s] = << >>]
  /\ UNCHANGED <<db, req, disk, settled>>

Next ==
  /\ \/ \E q \in Reqs : \/ Start(q) \/ Get(q) \/ Load(q) \/ Write(q) \/ Reload(q)
                       \/ Match(q) \/ Build(q) \/ SendNow(q)
     \/ \E s \in Servers : \/ Connect(s) \/ BuildInitial(s) \/ SendInitial(s)
                          \/ Drop(s) \/ Remove(s) \/ Receive(s) \/ Restart(s)
  /\ UNCHANGED overlap

Spec == Init /\ [][Next]_vars

(***************************************************************************)
(* A request runs to its end, the agent redials for ever, the gateway      *)
(* serves an open stream and the agent's receive loop takes what arrives.  *)
(***************************************************************************)
Fairness ==
  /\ \A q \in Reqs :
       WF_vars((Get(q) \/ Load(q) \/ Write(q) \/ Reload(q) \/ Match(q) \/ Build(q)
                  \/ SendNow(q)) /\ UNCHANGED overlap)
  /\ \A s \in Servers :
       /\ SF_vars(Connect(s) /\ UNCHANGED overlap)
       /\ WF_vars((BuildInitial(s) \/ SendInitial(s)) /\ UNCHANGED overlap)
       /\ WF_vars(Receive(s) /\ UNCHANGED overlap)

FairSpec == Spec /\ Fairness

-----------------------------------------------------------------------------
(***************************************************************************)
(* Properties.                                                             *)
(***************************************************************************)
\* The agent of s has received all there is and holds what the tables say.
UpToDate(s) == link[s] = "up" /\ out[s] = << >> => agent[s] = BuildFullSync(s)

\* A run-now command that is received meets the version its request read.
RunsVersionAsked(s) ==
  (out[s] # << >> /\ Head(out[s]).kind = "run") =>
    LET msg == Head(out[s])
    IN  agent[s][msg.job] # None /\ agent[s][msg.job].ver = msg.ver

\* "The control plane pushes ... to the relevant connected agent immediately"
\* (agent-protocol.md): as long as requests come one at a time, when none is
\* under way every connected agent holds exactly the jobs the tables assign
\* to its server, in their current version, whatever jobs were retargeted,
\* deleted or relabelled before; and the run-now button runs the version its
\* request read, for the command follows the snapshot on the same stream.
InSync ==
  ~overlap => \A s \in Servers : (Quiet => UpToDate(s)) /\ RunsVersionAsked(s)

\* "Offline agents pick it up on next connect": a stream opened while no
\* request runs puts the agent right, whatever overlapping requests pushed
\* out of order, lost, or an agent did not save before.
HealedByConnect == \A s \in settled : UpToDate(s)

\* Every agent ends up with the jobs its server is assigned, when requests
\* come one at a time; what overlapping ones leave is healed by the next
\* connect, which nothing forces.
EventuallyInSync ==
  ~overlap => \A s \in Servers : <>[](agent[s] = BuildFullSync(s))
=============================================================================
