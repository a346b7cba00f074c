--------------------------- MODULE ConnectorsProofs --------------------------
(***************************************************************************)
(* Connectors keeps its history true and its file right, for any number of *)
(* requests, hosts, contents, snapshots and faults; and web terminals      *)
(* neither outlive their browsers nor lose output, for any number of them. *)
(***************************************************************************)
EXTENDS MCConnectors, SequenceTheorems, FiniteSetTheorems, TLAPS

-----------------------------------------------------------------------------
(***************************************************************************)
(* Types.                                                                  *)
(***************************************************************************)
Statuses == {"failed", "succeeded", "invalid", "unauthorized", "unsupported"}
Values   == Contents \cup {None}
Entries  == [by : Requests \cup {0}, over : Values, new : Values, base : Values]
JobFields == {"at", "op", "content", "base", "dry", "action", "ctx", "before", "over", "status"}

\* A command k at the agent, where it is and what it is for.
TypedJob(k, j) ==
  /\ DOMAIN j = JobFields
  /\ j.at \in {"begin", "write", "check", "activate", "health", "restore", "reactivate", "reply"}
  /\ j.status \in Statuses \cup {None}
  /\ j.at \in {"restore", "reactivate", "reply"} => j.status \in Statuses
  /\ j.content \in Values /\ j.base \in Values /\ j.before \in Values /\ j.over \in Values
  /\ k[2] = "snap" => j.op = "read" /\ j.action = "none"
  /\ k[2] = "snap" /\ j.at = "reply" => j.content \in Contents
  /\ j.op \in {"apply", "rollback"} /\ j.at # "reply" => j.content \in Contents
  /\ j.at \notin {"begin", "reply"} => j.before \in Contents
  /\ j.at \notin {"begin", "reply"} => j.op \in {"apply", "rollback"} /\ ~j.dry

TypedReq(r) ==
  /\ DOMAIN r = {"at", "cmd", "seen"}
  /\ r.at \in {"idle", "snap", "snapwait", "start", "send", "wait", "done", "lost"}
  /\ r.cmd.content \in Values /\ r.cmd.base \in Values /\ r.seen \in Values
  /\ r.cmd.op \in {"apply", "rollback"} => r.cmd.content \in Contents

TypedReply(m) ==
  /\ m.id \in Ids /\ m.status \in Statuses /\ m.content \in Values
  /\ m.id[2] = "snap" => m.content \in Contents

ConnTypes ==
  /\ host \in Hosts /\ disk \in Contents
  /\ DOMAIN req = Requests /\ \A i \in Requests : TypedReq(req[i])
  /\ DOMAIN row = Requests /\ DOMAIN verdict = Requests
  /\ saved \in [Requests -> Values]
  /\ DOMAIN box \subseteq Ids /\ down \subseteq Ids /\ DOMAIN job \subseteq Ids
  /\ \A k \in DOMAIN job : TypedJob(k, job[k])
  /\ \A m \in back : TypedReply(m)
  /\ \A k \in DOMAIN box : box[k] # None => TypedReply(box[k]) /\ box[k].id = k
  /\ snaps \in Seq(Contents)
  /\ log \in Seq(Entries) /\ Len(log) > 0

\* What With and Without make of a function.
LEMMA WithIs ==
  ASSUME NEW f, NEW k, NEW v
  PROVE  /\ DOMAIN With(f, k, v) = DOMAIN f \cup {k} /\ With(f, k, v)[k] = v
         /\ \A x \in DOMAIN f \ {k} : With(f, k, v)[x] = f[x]
BY DEF With

LEMMA WithoutIs ==
  ASSUME NEW f, NEW k
  PROVE  /\ DOMAIN Without(f, {k}) = DOMAIN f \ {k}
         /\ \A x \in DOMAIN f \ {k} : Without(f, {k})[x] = f[x]
BY DEF Without

\* The ids of commands.
LEMMA IdsAre ==
  /\ \A i \in Requests : Cmd(i) \in Ids /\ Snap(i) \in Ids
  /\ \A i \in Requests : Cmd(i)[1] = i /\ Snap(i)[1] = i /\ Snap(i)[2] = "snap"
                             /\ Cmd(i)[2] = "cmd" /\ Snap(i) # Cmd(i)
  /\ \A k \in Ids : k[1] \in Requests /\ (k = Cmd(k[1]) \/ k = Snap(k[1]))
BY DEF Ids, Cmd, Snap

-----------------------------------------------------------------------------
(***************************************************************************)
(* What a step of a command does.                                          *)
(***************************************************************************)
others == <<conn, box, down, back, req, row, snaps, verdict, saved>>

\* Command k is now u, for the same change.
Goes(k, u) ==
  /\ k \in DOMAIN job /\ job' = With(job, k, u) /\ UNCHANGED <<host, others>>
  /\ TypedJob(k, u)
  /\ u.op = job[k].op /\ u.dry = job[k].dry /\ u.action = job[k].action

\* Command k has come to its end with status s and what it read.
Ends(k, s, c) ==
  \E u : Goes(k, u) /\ u.at = "reply" /\ u.status = s /\ u.content = c

LEMMA EndGoes ==
  ASSUME ConnTypes, NEW k \in DOMAIN job, NEW s \in Statuses, NEW c \in Values,
         c \in Contents \/ job[k].op # "read", End(k, s, c), UNCHANGED <<host, others>>
  PROVE  Ends(k, s, c)
<1> DEFINE u == [job[k] EXCEPT !.at = "reply", !.status = s, !.content = c, !.base = None,
                               !.before = None, !.over = None]
<1>1. TypedJob(k, job[k])
  BY DEF ConnTypes
<1>2. /\ DOMAIN u = JobFields /\ u.at = "reply" /\ u.status = s /\ u.content = c
      /\ u.base = None /\ u.before = None /\ u.over = None
      /\ u.op = job[k].op /\ u.dry = job[k].dry /\ u.action = job[k].action
  BY <1>1 DEF TypedJob, JobFields
<1>3. job' = With(job, k, u)
  BY DEF End, Set
<1> HIDE DEF u
<1>4. TypedJob(k, u)
  BY <1>1, <1>2 DEF TypedJob, Values
<1> QED BY <1>2, <1>3, <1>4 DEF Ends, Goes

LEMMA StepGoes ==
  ASSUME ConnTypes, NEW k \in DOMAIN job, NEW u,
         Set(k, u), UNCHANGED <<host, others>>, TypedJob(k, u),
         u.op = job[k].op, u.dry = job[k].dry, u.action = job[k].action
  PROVE  Goes(k, u)
BY DEF Goes, Set

\* Activating, starting and stopping end in one of the agent's statuses.
LEMMA OutcomeStatus ==
  ASSUME host \in Hosts, NEW ctx, NEW action
  PROVE  /\ \A o \in Activate(ctx) : o.status \in Statuses
         /\ \A o \in Lifecycle(action, ctx) : o.status \in Statuses
<1>1. host.kind \in {"nginx", "systemd", "pm2"}
  BY ConnectorsAssumption DEF ConnectorsAssumption
<1>2. /\ \A o \in NginxActivate(ctx) : o.status \in Statuses
      /\ \A o \in SystemdActivate(ctx) : o.status \in Statuses
      /\ \A o \in Pm2Activate(ctx) : o.status \in Statuses
  BY DEF NginxActivate, SystemdActivate, Pm2Activate, Same, Outcome, Statuses
<1>3. /\ \A o \in NginxLifecycle(action, ctx) : o.status \in Statuses
      /\ \A o \in Pm2Lifecycle(action, ctx) : o.status \in Statuses
  BY DEF NginxLifecycle, Pm2Lifecycle, Same, Outcome, Statuses
<1> QED BY <1>1, <1>2, <1>3 DEF Activate, Lifecycle, SystemdLifecycle

\* The file, its history, and what excuses them stay as they are.
books == <<disk, log, torn, overlap>>

\* The command goes on with what it carries.
Carries(k, u) ==
  /\ u.content = job[k].content /\ u.base = job[k].base
  /\ u.before = job[k].before /\ u.over = job[k].over

ReadMove(k) ==
  \E s \in Statuses : Ends(k, s, disk) \/ (job[k].op = "look" /\ Ends(k, s, None))

\* pm2's save writes the file.
SaveMove(k) ==
  /\ Writes(job[k]) /\ job[k].at = "begin" /\ \E s \in Statuses : Ends(k, s, None)
  /\ \E c \in Contents :
       /\ disk' = c
       /\ log' = Append(log, [by |-> k[1], over |-> disk, new |-> c, base |-> None])
  /\ torn' = torn /\ overlap' = overlap

\* A command ends and leaves the file alone.
QuietEnd(k) == (\E s \in Statuses : Ends(k, s, None)) /\ UNCHANGED books

BeginMove(k) ==
  \E u : /\ Goes(k, u) /\ u.at = "write" /\ u.before = disk /\ u.base = job[k].base
         /\ u.base \in {None, disk} /\ job[k].at = "begin" /\ UNCHANGED books

WriteMove(k) ==
  \E u : /\ Goes(k, u) /\ u.at = "check" /\ u.before = job[k].before /\ u.base = job[k].base
         /\ u.content = job[k].content /\ u.over = disk /\ job[k].at = "write"
         /\ disk' = job[k].content /\ UNCHANGED <<log, torn, overlap>>

OnMove(k, from, to) ==
  \E u : /\ Goes(k, u) /\ Carries(k, u) /\ u.at = to /\ job[k].at = from /\ UNCHANGED books

StaysMove(k) ==
  /\ \E s \in Statuses : Ends(k, s, None)
  /\ job[k].at = "health" /\ disk' = disk /\ torn' = torn /\ overlap' = overlap
  /\ log' = Append(log, [by |-> k[1], over |-> job[k].over, new |-> job[k].content,
                         base |-> job[k].base])

RestoreMove(k) ==
  \E u : /\ Goes(k, u) /\ Carries(k, u) /\ u.at = "reactivate" /\ job[k].at = "restore"
         /\ disk' = job[k].before /\ UNCHANGED <<log, torn, overlap>>

\* A command gives up in mid-change: this is torn.
TornMove(k) ==
  /\ \E u : Goes(k, u) /\ u.at = "reply"
  /\ torn' = TRUE /\ disk' \in {disk, job[k].content} /\ UNCHANGED <<log, overlap>>
  /\ job[k].at \in {"write", "restore"}

\* Every step of a command is one of these.
Moves(k) ==
  \/ ReadMove(k) /\ UNCHANGED books /\ job[k].at = "begin" /\ job[k].op \in {"read", "look"}
  \/ SaveMove(k)
  \/ QuietEnd(k) /\ job[k].at \in {"begin", "write", "reactivate"} /\ job[k].op \notin {"read", "look"}
  \/ BeginMove(k) \/ WriteMove(k)
  \/ OnMove(k, "check", "activate") \/ OnMove(k, "check", "restore")
  \/ OnMove(k, "activate", "health") \/ OnMove(k, "activate", "restore")
  \/ OnMove(k, "health", "restore") \/ StaysMove(k)
  \/ RestoreMove(k) \/ TornMove(k)
  \/ \E at : at # "reply" /\ OnMove(k, at, at)

\* A step to another place.
LEMMA FieldOn ==
  ASSUME ConnTypes, NEW k \in DOMAIN job, NEW to \in {"activate", "health"},
         Set(k, [job[k] EXCEPT !.at = to]),
         UNCHANGED <<host, others>>, UNCHANGED books, job[k].at \in {"check", "activate"}
  PROVE  OnMove(k, job[k].at, to)
<1> DEFINE u == [job[k] EXCEPT !.at = to]
<1>1. TypedJob(k, job[k])
  BY DEF ConnTypes
<1>2. /\ DOMAIN u = JobFields /\ u.at = to /\ u.status = job[k].status /\ u.content = job[k].content
      /\ u.base = job[k].base /\ u.before = job[k].before /\ u.over = job[k].over
      /\ u.op = job[k].op /\ u.dry = job[k].dry /\ u.action = job[k].action
  BY <1>1 DEF TypedJob, JobFields
<1>3. Set(k, u)
  OBVIOUS
<1> HIDE DEF u
<1>4. TypedJob(k, u)
  BY <1>1, <1>2 DEF TypedJob
<1> QED BY <1>2, <1>3, <1>4 DEF OnMove, Carries, Goes, Set

\* A step to the restore.
LEMMA UndoOn ==
  ASSUME ConnTypes, NEW k \in DOMAIN job, NEW s \in Statuses, Set(k, Undo(job[k], s)),
         UNCHANGED <<host, others>>, UNCHANGED books, job[k].at \in {"check", "activate", "health"}
  PROVE  OnMove(k, job[k].at, "restore")
<1> DEFINE u == Undo(job[k], s)
<1>1. TypedJob(k, job[k])
  BY DEF ConnTypes
<1>2. /\ DOMAIN u = JobFields /\ u.at = "restore" /\ u.status = s /\ u.content = job[k].content
      /\ u.base = job[k].base /\ u.before = job[k].before /\ u.over = job[k].over
      /\ u.op = job[k].op /\ u.dry = job[k].dry /\ u.action = job[k].action
  BY <1>1 DEF TypedJob, JobFields, Undo
<1>3. Set(k, u)
  OBVIOUS
<1> HIDE DEF u
<1>4. TypedJob(k, u)
  BY <1>1, <1>2 DEF TypedJob
<1> QED BY <1>2, <1>3, <1>4 DEF OnMove, Carries, Goes, Set

\* The steps of Command but for Reply, and those of Faults that concern one command.
LEMMA CommandMoves ==
  ASSUME ConnTypes, NEW k \in DOMAIN job,
         \/ ExecuteRead(k) \/ ExecuteLifecycle(k) \/ BeginApply(k)
         \/ WriteFileAtomic(k) \/ CheckLive(k) \/ ActivateNew(k) \/ HealthGate(k)
         \/ Restore(k) \/ Reactivate(k) \/ WriteCutOff(k) \/ Expire(k)
  PROVE  Moves(k)
<1>0. TypedJob(k, job[k]) /\ disk \in Contents /\ disk \in Values /\ None \in Values /\ host \in Hosts
  BY DEF ConnTypes, Values
<1>j. PICK j : j = job[k]
  OBVIOUS
<1>r. j.at \notin {"begin", "reply"} => j.op \notin {"read", "look"}
  BY <1>0, <1>j DEF TypedJob
<1>1. CASE ExecuteRead(k)
  <2>1. /\ job[k].at = "begin" /\ job[k].op \in {"read", "look"} /\ UNCHANGED <<host, others>> /\ UNCHANGED books
    BY <1>1 DEF ExecuteRead, hostv, wire, history, others, books
  <2>2. \/ End(k, "succeeded", disk)
        \/ job[k].op = "look" /\ End(k, "unsupported", None)
    BY <1>1 DEF ExecuteRead
  <2>3. ReadMove(k)
    BY <1>0, <2>1, <2>2, EndGoes DEF ReadMove, Statuses
  <2> QED BY <2>1, <2>3 DEF Moves
<1>2. CASE ExecuteLifecycle(k)
  <2>1. PICK o \in Lifecycle(job[k].action, job[k].ctx) :
          /\ job[k].at = "begin" /\ job[k].op \in {"lifecycle", "process"}
          /\ End(k, o.status, None)
          /\ IF job[k].action = "save" /\ o.status = "succeeded"
             THEN \E c \in Boots : disk' = c /\ Note(k, c, None)
             ELSE UNCHANGED <<disk, log>>
          /\ UNCHANGED <<host, others>> /\ torn' = torn /\ overlap' = overlap
    BY <1>2 DEF ExecuteLifecycle, wire, others
  <2>2. o.status \in Statuses
    BY <1>0, OutcomeStatus
  <2>3. Ends(k, o.status, None)
    BY <1>0, <2>1, <2>2, EndGoes
  <2>4. CASE UNCHANGED <<disk, log>>
    BY <2>1, <2>2, <2>3, <2>4 DEF Moves, QuietEnd, books
  <2>5. CASE ~UNCHANGED <<disk, log>>
    <3>1. PICK c \in Boots : disk' = c /\ Note(k, c, None)
      BY <2>1, <2>5
    <3>2. c \in Contents /\ job[k].action = "save"
      BY ConnectorsAssumption, <2>1, <2>5 DEF ConnectorsAssumption, Values
    <3>3. log' = Append(log, [by |-> k[1], over |-> disk, new |-> c, base |-> None])
      BY <3>1 DEF Note
    <3> QED BY <2>1, <2>2, <2>3, <3>1, <3>2, <3>3 DEF Moves, SaveMove, Writes
  <2> QED BY <2>4, <2>5
<1>3. CASE BeginApply(k)
  <2>1. /\ j.at = "begin" /\ j.op \in {"apply", "rollback"} /\ UNCHANGED <<host, others>> /\ UNCHANGED books
    BY <1>3, <1>j DEF BeginApply, hostv, wire, history, others, books
  <2>2. \/ \E s \in Statuses : End(k, s, None)
        \/ ~j.dry /\ j.base \in {None, disk} /\ Set(k, [j EXCEPT !.at = "write", !.before = disk])
    BY <1>3, <1>j DEF BeginApply, Statuses
  <2>3. CASE \E s \in Statuses : End(k, s, None)
    BY <1>0, <1>j, <2>1, <2>3, EndGoes DEF Moves, QuietEnd
  <2>4. CASE ~j.dry /\ j.base \in {None, disk} /\ Set(k, [j EXCEPT !.at = "write", !.before = disk])
    <3> DEFINE u == [j EXCEPT !.at = "write", !.before = disk]
    <3>1. /\ DOMAIN u = JobFields /\ u.at = "write" /\ u.before = disk
          /\ u.op = j.op /\ u.dry = j.dry /\ u.action = j.action /\ u.content = j.content
          /\ u.base = j.base /\ u.over = j.over /\ u.status = j.status
      BY <1>0, <1>j DEF TypedJob, JobFields
    <3>2. Set(k, u)
      BY <2>4
    <3> HIDE DEF u
    <3>3. TypedJob(k, u)
      BY <1>0, <1>j, <2>1, <2>4, <3>1 DEF TypedJob
    <3>4. Goes(k, u)
      BY <1>j, <2>1, <3>1, <3>2, <3>3 DEF Goes, Set
    <3> QED BY <1>j, <2>1, <2>4, <3>1, <3>4 DEF Moves, BeginMove
  <2> QED BY <2>2, <2>3, <2>4
<1>4. CASE WriteFileAtomic(k)
  <2>1. /\ j.at = "write" /\ UNCHANGED <<host, others>> /\ log' = log /\ torn' = torn /\ overlap' = overlap
    BY <1>4, <1>j DEF WriteFileAtomic, wire, history, others
  <2>2. \/ disk' = j.content /\ Set(k, [j EXCEPT !.at = "check", !.over = disk])
        \/ disk' = disk /\ End(k, "unauthorized", None)
    BY <1>4, <1>j DEF WriteFileAtomic
  <2>3. CASE disk' = disk /\ End(k, "unauthorized", None)
    <3>1. Ends(k, "unauthorized", None)
      BY <1>0, <1>j, <1>r, <2>1, <2>3, EndGoes DEF Statuses
    <3>2. job[k].op \notin {"read", "look"}
      BY <1>0, <1>j, <2>1 DEF TypedJob
    <3> QED BY <1>j, <2>1, <2>3, <3>1, <3>2 DEF Moves, QuietEnd, books, Statuses
  <2>4. CASE disk' = j.content /\ Set(k, [j EXCEPT !.at = "check", !.over = disk])
    <3> DEFINE u == [j EXCEPT !.at = "check", !.over = disk]
    <3>1. /\ DOMAIN u = JobFields /\ u.at = "check" /\ u.over = disk
          /\ u.op = j.op /\ u.dry = j.dry /\ u.action = j.action /\ u.content = j.content
          /\ u.base = j.base /\ u.before = j.before /\ u.status = j.status
      BY <1>0, <1>j DEF TypedJob, JobFields
    <3>2. Set(k, u)
      BY <2>4
    <3> HIDE DEF u
    <3>3. TypedJob(k, u)
      BY <1>0, <1>j, <2>1, <3>1 DEF TypedJob
    <3>4. Goes(k, u)
      BY <1>j, <2>1, <3>1, <3>2, <3>3 DEF Goes, Set
    <3> QED BY <1>j, <2>1, <2>4, <3>1, <3>4 DEF Moves, WriteMove
  <2> QED BY <2>2, <2>3, <2>4
<1>5. CASE CheckLive(k)
  <2>1. /\ j.at = "check" /\ UNCHANGED <<host, others>> /\ UNCHANGED books
    BY <1>5, <1>j DEF CheckLive, hostv, wire, history, others, books
  <2>2. Set(k, [j EXCEPT !.at = "activate"]) \/ Set(k, Undo(j, "invalid"))
    BY <1>5, <1>j DEF CheckLive
  <2>3. CASE Set(k, [j EXCEPT !.at = "activate"])
    <3>1. OnMove(k, "check", "activate")
      BY <1>0, <1>j, <2>1, <2>3, FieldOn
    <3> QED BY <3>1 DEF Moves
  <2>4. CASE Set(k, Undo(j, "invalid"))
    <3>1. OnMove(k, "check", "restore")
      BY <1>0, <1>j, <2>1, <2>4, UndoOn DEF Statuses
    <3> QED BY <3>1 DEF Moves
  <2> QED BY <2>2, <2>3, <2>4
<1>6. CASE ActivateNew(k)
  <2>1. PICK o \in Activate(j.ctx) :
          Set(k, IF o.status = "succeeded" THEN [j EXCEPT !.at = "health"] ELSE Undo(j, o.status))
    BY <1>6, <1>j DEF ActivateNew
  <2>2. /\ j.at = "activate" /\ UNCHANGED <<host, others>> /\ UNCHANGED books
    BY <1>6, <1>j DEF ActivateNew, wire, history, others, books
  <2>3. o.status \in Statuses
    BY <1>0, OutcomeStatus
  <2>4. CASE Set(k, [j EXCEPT !.at = "health"])
    <3>1. OnMove(k, "activate", "health")
      BY <1>0, <1>j, <2>2, <2>4, FieldOn
    <3> QED BY <3>1 DEF Moves
  <2>5. CASE Set(k, Undo(j, o.status))
    <3>1. OnMove(k, "activate", "restore")
      BY <1>0, <1>j, <2>2, <2>3, <2>5, UndoOn
    <3> QED BY <3>1 DEF Moves
  <2> QED BY <2>1, <2>4, <2>5
<1>7. CASE HealthGate(k)
  <2>1. /\ j.at = "health" /\ UNCHANGED <<host, others>> /\ disk' = disk /\ torn' = torn /\ overlap' = overlap
    BY <1>7, <1>j DEF HealthGate, hostv, wire, others
  <2>2. \/ /\ End(k, "succeeded", None)
           /\ log' = Append(log, [by |-> k[1], over |-> j.over, new |-> j.content, base |-> j.base])
        \/ Set(k, Undo(j, "failed")) /\ log' = log
    BY <1>7, <1>j DEF HealthGate
  <2>3. CASE Set(k, Undo(j, "failed")) /\ log' = log
    <3>1. OnMove(k, "health", "restore")
      BY <1>0, <1>j, <2>1, <2>3, UndoOn DEF Statuses, books
    <3> QED BY <3>1 DEF Moves
  <2>4. CASE /\ End(k, "succeeded", None)
             /\ log' = Append(log, [by |-> k[1], over |-> j.over, new |-> j.content, base |-> j.base])
    <3>1. Ends(k, "succeeded", None)
      BY <1>0, <1>j, <1>r, <2>1, <2>4, EndGoes DEF Statuses
    <3> QED BY <1>j, <2>1, <2>4, <3>1 DEF Moves, StaysMove, Statuses
  <2> QED BY <2>2, <2>3, <2>4
<1>8. CASE Restore(k)
  <2>1. /\ j.at = "restore" /\ UNCHANGED <<host, others>> /\ log' = log /\ overlap' = overlap
    BY <1>8, <1>j DEF Restore, wire, others
  <2>2. \/ disk' = j.before /\ Set(k, [j EXCEPT !.at = "reactivate"]) /\ torn' = torn
        \/ disk' = disk /\ End(k, "failed", None) /\ torn' = TRUE
    BY <1>8, <1>j DEF Restore
  <2>3. CASE disk' = j.before /\ Set(k, [j EXCEPT !.at = "reactivate"]) /\ torn' = torn
    <3> DEFINE u == [j EXCEPT !.at = "reactivate"]
    <3>1. /\ DOMAIN u = JobFields /\ u.at = "reactivate" /\ u.before = j.before
          /\ u.op = j.op /\ u.dry = j.dry /\ u.action = j.action /\ u.content = j.content
          /\ u.base = j.base /\ u.over = j.over /\ u.status = j.status
      BY <1>0, <1>j DEF TypedJob, JobFields
    <3>2. Set(k, u)
      BY <2>3
    <3> HIDE DEF u
    <3>3. TypedJob(k, u)
      BY <1>0, <1>j, <2>1, <3>1 DEF TypedJob
    <3>4. Goes(k, u)
      BY <1>j, <2>1, <3>1, <3>2, <3>3 DEF Goes, Set
    <3> QED BY <1>j, <2>1, <2>3, <3>1, <3>4 DEF Moves, RestoreMove, Carries
  <2>4. CASE disk' = disk /\ End(k, "failed", None) /\ torn' = TRUE
    <3>1. Ends(k, "failed", None)
      BY <1>0, <1>j, <1>r, <2>1, <2>4, EndGoes DEF Statuses
    <3> QED BY <1>j, <2>1, <2>4, <3>1 DEF Moves, TornMove, Ends
  <2> QED BY <2>2, <2>3, <2>4
<1>9. CASE Reactivate(k)
  <2>1. /\ j.at = "reactivate" /\ UNCHANGED <<host, others>> /\ UNCHANGED books
        /\ End(k, j.status, None) /\ j.status \in Statuses /\ j.op \notin {"read", "look"}
    BY <1>0, <1>9, <1>j DEF Reactivate, wire, history, others, books, TypedJob
  <2>2. Ends(k, j.status, None)
    BY <1>0, <1>j, <2>1, EndGoes
  <2> QED BY <1>j, <2>1, <2>2 DEF Moves, QuietEnd
<1>10. CASE WriteCutOff(k)
  <2> DEFINE u == [j EXCEPT !.at = "reply", !.status = "failed", !.content = None,
                            !.base = None, !.before = None, !.ctx = "cut"]
  <2>1. /\ j.at = "write" /\ disk' \in {disk, j.content} /\ torn' = TRUE /\ job' = With(job, k, u)
        /\ UNCHANGED <<host, others>> /\ log' = log /\ overlap' = overlap
    BY <1>10, <1>j DEF WriteCutOff, wire, others
  <2>2. /\ DOMAIN u = JobFields /\ u.at = "reply" /\ u.status = "failed" /\ u.content = None
        /\ u.base = None /\ u.before = None /\ u.over = j.over
        /\ u.op = j.op /\ u.dry = j.dry /\ u.action = j.action
    BY <1>0, <1>j DEF TypedJob, JobFields
  <2> HIDE DEF u
  <2>3. TypedJob(k, u)
    BY <1>0, <1>j, <1>r, <2>1, <2>2 DEF TypedJob, Statuses
  <2>4. Goes(k, u)
    BY <1>j, <2>1, <2>2, <2>3 DEF Goes
  <2> QED BY <1>j, <2>1, <2>2, <2>4 DEF Moves, TornMove
<1>11. CASE Expire(k)
  <2> DEFINE u == [j EXCEPT !.ctx = "cut"]
  <2>1. /\ j.at # "reply" /\ Set(k, u) /\ UNCHANGED <<host, others>> /\ UNCHANGED books
    BY <1>11, <1>j DEF Expire, hostv, wire, history, others, books
  <2>2. /\ DOMAIN u = JobFields /\ u.at = j.at /\ u.status = j.status /\ u.content = j.content
        /\ u.base = j.base /\ u.before = j.before /\ u.over = j.over
        /\ u.op = j.op /\ u.dry = j.dry /\ u.action = j.action
    BY <1>0, <1>j DEF TypedJob, JobFields
  <2> HIDE DEF u
  <2>3. TypedJob(k, u)
    BY <1>0, <1>j, <2>2 DEF TypedJob
  <2>4. Goes(k, u)
    BY <1>j, <2>1, <2>2, <2>3 DEF Goes, Set
  <2>5. OnMove(k, j.at, j.at)
    BY <1>j, <2>1, <2>2, <2>4 DEF OnMove, Carries
  <2> QED BY <2>1, <2>5 DEF Moves
<1> QED BY <1>1, <1>2, <1>3, <1>4, <1>5, <1>6, <1>7, <1>8, <1>9, <1>10, <1>11

-----------------------------------------------------------------------------
\* Request i begins with q, nothing else happens but for the bound counter
\* and what is noted of a change that is asked for in the middle of something.
Asks(i) ==
  /\ req[i].at = "idle" /\ \A l \in 1..(i - 1) : req[l].at # "idle"
  /\ \E q : /\ TypedReq(q) /\ q.at \in {"snap", "start", "send"} /\ q.seen = None
            /\ req' = [req EXCEPT ![i] = q]
  /\ overlap' = overlap \cup {"asked"} \/ (overlap' = overlap /\ Quiet)
  /\ UNCHANGED <<host, disk, conn, box, down, back, row, job, snaps, log, verdict, saved, torn>>

LEMMA IssueAsks ==
  ASSUME NEW i \in Requests, NEW c, NEW at \in {"snap", "start", "send"},
         Issue(i, c, at), c.content \in Values, c.base \in Values,
         c.op \in {"apply", "rollback"} => c.content \in Contents
  PROVE  Asks(i)
<1> DEFINE q == [at |-> at, cmd |-> c, seen |-> None]
<1>1. /\ req' = [req EXCEPT ![i] = q] /\ req[i].at = "idle" /\ \A l \in 1..(i - 1) : req[l].at # "idle"
      /\ UNCHANGED <<host, disk, conn, box, down, back, row, job, snaps, log, verdict, saved, torn>>
  BY DEF Issue, hostv, wire
<1>2. overlap' = overlap \cup {"asked"} \/ (overlap' = overlap /\ Quiet)
  BY DEF Issue, Midway
<1>3. TypedReq(q) /\ q.at = at /\ q.seen = None
  BY DEF TypedReq, Values
<1> HIDE DEF q
<1> QED BY <1>1, <1>2, <1>3 DEF Asks

LEMMA AsksTypes ==
  ASSUME ConnTypes, NEW i \in Requests, Asks(i)
  PROVE  ConnTypes'
<1>1. PICK q : TypedReq(q) /\ req' = [req EXCEPT ![i] = q]
  BY DEF Asks
<1>2. DOMAIN req' = Requests /\ \A l \in Requests : TypedReq(req'[l])
  BY <1>1 DEF ConnTypes
<1>3. UNCHANGED <<host, disk, box, down, back, row, job, snaps, log, verdict, saved>>
  BY DEF Asks
<1> QED BY <1>2, <1>3 DEF ConnTypes

\* What users ask for.
LEMMA UsersAsk ==
  ASSUME ConnTypes, Users
  PROVE  \E i \in Requests : Asks(i)
<1>0. PICK i \in Requests :
        \/ ReadConfig(i) \/ Look(i) \/ ListPorts(i) \/ InspectObject(i)
        \/ \E a \in Actions : Action(i, a) \/ ProcessAction(i, a)
        \/ \E c \in Contents, b \in Contents \cup {None}, dry \in BOOLEAN : WriteConfig(i, c, b, dry)
        \/ \E n \in DOMAIN snaps : Rollback(i, n)
  BY DEF Users
<1>1. CASE ReadConfig(i) \/ Look(i) \/ ListPorts(i) \/ InspectObject(i)
  <2>1. PICK op \in {"read", "look"}, at \in {"start", "send"} :
          Issue(i, [Idle EXCEPT !.op = op], at)
    BY <1>1 DEF ReadConfig, Look, ListPorts, InspectObject
  <2> DEFINE c == [Idle EXCEPT !.op = op]
  <2>2. Issue(i, c, at) /\ c.content \in Values /\ c.base \in Values
        /\ c.op \notin {"apply", "rollback"}
    BY <2>1 DEF Idle, Values
  <2> HIDE DEF c
  <2> QED BY <2>2, IssueAsks
<1>2. ASSUME NEW a, Action(i, a) \/ ProcessAction(i, a)
      PROVE  Asks(i)
  <2>1. PICK op \in {"lifecycle", "process"}, at \in {"start", "send"} :
          Issue(i, [Idle EXCEPT !.op = op, !.action = a], at)
    BY <1>2 DEF Action, ProcessAction
  <2> DEFINE c == [Idle EXCEPT !.op = op, !.action = a]
  <2>2. Issue(i, c, at) /\ c.content \in Values /\ c.base \in Values
        /\ c.op \notin {"apply", "rollback"}
    BY <2>1 DEF Idle, Values
  <2> HIDE DEF c
  <2> QED BY <2>2, IssueAsks
<1>3. ASSUME NEW n \in Contents, NEW b \in Contents \cup {None}, NEW dry \in BOOLEAN,
             WriteConfig(i, n, b, dry)
      PROVE  Asks(i)
  <2> DEFINE c == [Idle EXCEPT !.op = "apply", !.content = n, !.base = b, !.dry = dry]
             at == IF dry THEN "start" ELSE "snap"
  <2>1. Issue(i, c, at) /\ at \in {"snap", "start", "send"}
    BY <1>3 DEF WriteConfig
  <2>2. c.content \in Values /\ c.base \in Values /\ c.content \in Contents
    BY DEF Idle, Values
  <2> HIDE DEF c, at
  <2> QED BY <2>1, <2>2, IssueAsks
<1>4. ASSUME NEW n \in DOMAIN snaps, Rollback(i, n)
      PROVE  Asks(i)
  <2> DEFINE c == [Idle EXCEPT !.op = "rollback", !.content = snaps[n]]
  <2>1. Issue(i, c, "snap")
    BY <1>4 DEF Rollback
  <2>2. snaps[n] \in Contents
    BY ElementOfSeq, LenProperties DEF ConnTypes
  <2>3. c.content \in Values /\ c.base \in Values /\ c.content \in Contents
    BY <2>2 DEF Idle, Values
  <2> HIDE DEF c
  <2> QED BY <2>1, <2>3, IssueAsks
<1> QED BY <1>0, <1>1, <1>2, <1>3, <1>4

\* A command is queued on the stream, or there is none.
LEMMA SendTypes ==
  ASSUME ConnTypes, NEW k \in Ids, SendConnectorCommand(k[1], k)
  PROVE  /\ DOMAIN box' \subseteq Ids /\ down' \subseteq Ids
         /\ \A x \in DOMAIN box' : box'[x] # None => TypedReply(box'[x]) /\ box'[x].id = x
<1>1. CASE conn
  <2>1. down' = down \cup {k} /\ box' = With(box, k, None)
    BY <1>1 DEF SendConnectorCommand
  <2>2. /\ DOMAIN box' = DOMAIN box \cup {k} /\ box'[k] = None
        /\ \A x \in DOMAIN box \ {k} : box'[x] = box[x]
    BY <2>1 DEF With
  <2>3. /\ DOMAIN box \subseteq Ids /\ down \subseteq Ids
        /\ \A x \in DOMAIN box : box[x] # None => TypedReply(box[x]) /\ box[x].id = x
    BY DEF ConnTypes
  <2> QED BY <2>1, <2>2, <2>3
<1>2. CASE ~conn
  BY <1>2 DEF SendConnectorCommand, ConnTypes
<1> QED BY <1>1, <1>2

\* A mailbox is closed.
LEMMA CloseTypes ==
  ASSUME ConnTypes, NEW k, box' = Without(box, {k})
  PROVE  /\ DOMAIN box' \subseteq Ids
         /\ \A x \in DOMAIN box' : box'[x] # None => TypedReply(box'[x]) /\ box'[x].id = x
<1>1. DOMAIN box' = DOMAIN box \ {k} /\ \A x \in DOMAIN box \ {k} : box'[x] = box[x]
  BY DEF Without
<1>2. DOMAIN box \subseteq Ids /\ \A x \in DOMAIN box : box[x] # None => TypedReply(box[x]) /\ box[x].id = x
  BY DEF ConnTypes
<1> QED BY <1>1, <1>2

LEMMA Advance ==
  ASSUME ConnTypes, NEW i \in Requests,
         NEW at \in {"idle", "snap", "snapwait", "start", "send", "wait", "done", "lost"},
         req' = [req EXCEPT ![i].at = at]
  PROVE  /\ DOMAIN req' = Requests /\ \A l \in Requests : TypedReq(req'[l])
         /\ req'[i].at = at /\ req'[i].cmd = req[i].cmd /\ \A l \in Requests : l # i => req'[l] = req[l]
<1>1. DOMAIN req = Requests /\ \A l \in Requests : TypedReq(req[l])
  BY DEF ConnTypes
<1>2. req'[i] = [req[i] EXCEPT !.at = at] /\ \A l \in Requests : l # i => req'[l] = req[l]
  BY <1>1
<1>3. TypedReq(req'[i]) /\ req'[i].at = at /\ req'[i].cmd = req[i].cmd
  BY <1>1, <1>2 DEF TypedReq
<1> QED BY <1>1, <1>2, <1>3

\* The handlers of the control plane.
LEMMA HandlerTypes ==
  ASSUME ConnTypes, NEW i \in Requests, Handler(i)
  PROVE  ConnTypes'
<1>i. Cmd(i) \in Ids /\ Snap(i) \in Ids /\ Cmd(i)[1] = i /\ Snap(i)[1] = i
  BY IdsAre
<1>r. ASSUME NEW s, FinishOperation(i, s) PROVE DOMAIN row' = Requests
  BY <1>r DEF FinishOperation, ConnTypes
<1>1. CASE SnapshotBefore(i)
  <2>1. /\ SendConnectorCommand(i, Snap(i))
        /\ UNCHANGED <<host, disk, back, row, job, snaps, log, verdict, saved>>
    BY <1>1 DEF SnapshotBefore, hostv, history
  <2>2. PICK at \in {"snapwait", "start"} : req' = [req EXCEPT ![i].at = at]
    BY <1>1 DEF SnapshotBefore
  <2>3. /\ DOMAIN req' = Requests /\ \A l \in Requests : TypedReq(req'[l])
    BY <2>2, Advance
  <2>4. /\ DOMAIN box' \subseteq Ids /\ down' \subseteq Ids
        /\ \A x \in DOMAIN box' : box'[x] # None => TypedReply(box'[x]) /\ box'[x].id = x
    BY <1>i, <2>1, SendTypes
  <2> QED BY <2>1, <2>3, <2>4 DEF ConnTypes
<1>2. CASE SnapshotReply(i)
  <2> DEFINE k == Snap(i)
  <2>1. /\ Replied(i, k) /\ box' = Without(box, {k}) /\ req' = [req EXCEPT ![i].at = "start"]
        /\ UNCHANGED <<host, disk, down, back, row, job, log, verdict>>
    BY <1>2 DEF SnapshotReply, hostv
  <2>2. \/ SaveSnapshot(box[k].content) /\ saved' = [saved EXCEPT ![i] = box[k].content]
        \/ UNCHANGED <<snaps, saved>>
    BY <1>2 DEF SnapshotReply
  <2>3. box[k].content \in Contents /\ box[k].content \in Values
    <3>1. TypedReply(box[k]) /\ box[k].id = k
      BY <2>1 DEF Replied, ConnTypes
    <3>2. k[2] = "snap"
      BY IdsAre
    <3> QED BY <3>1, <3>2 DEF TypedReply
  <2>4. snaps' \in Seq(Contents) /\ saved' \in [Requests -> Values]
    <3>1. CASE UNCHANGED <<snaps, saved>>
      BY <3>1 DEF ConnTypes
    <3>2. CASE SaveSnapshot(box[k].content) /\ saved' = [saved EXCEPT ![i] = box[k].content]
      <4>1. PICK c \in Contents : c = box[k].content
        BY <2>3
      <4>2. PICK s : s = Append(snaps, c)
        OBVIOUS
      <4>3. s \in Seq(Contents) /\ s # << >>
        BY <4>2, AppendProperties DEF ConnTypes
      <4>4. snaps' \in {s, Tail(s)}
        BY <3>2, <4>1, <4>2 DEF SaveSnapshot
      <4>5. Tail(s) \in Seq(Contents)
        BY <4>3, HeadTailProperties
      <4>6. saved' \in [Requests -> Values]
        BY <2>3, <3>2 DEF ConnTypes
      <4> QED BY <4>3, <4>4, <4>5, <4>6
    <3> QED BY <2>2, <3>1, <3>2
  <2>5. DOMAIN req' = Requests /\ \A l \in Requests : TypedReq(req'[l])
    BY <2>1, Advance
  <2>6. /\ DOMAIN box' \subseteq Ids
        /\ \A x \in DOMAIN box' : box'[x] # None => TypedReply(box'[x]) /\ box'[x].id = x
    BY <2>1, CloseTypes
  <2> QED BY <2>1, <2>4, <2>5, <2>6 DEF ConnTypes
<1>3. CASE SnapshotTimeout(i)
  <2>1. /\ box' = Without(box, {Snap(i)}) /\ req' = [req EXCEPT ![i].at = "start"]
        /\ UNCHANGED <<host, disk, down, back, row, job, snaps, log, verdict, saved>>
    BY <1>3 DEF SnapshotTimeout, hostv, history
  <2>2. DOMAIN req' = Requests /\ \A l \in Requests : TypedReq(req'[l])
    BY <2>1, Advance
  <2>3. /\ DOMAIN box' \subseteq Ids
        /\ \A x \in DOMAIN box' : box'[x] # None => TypedReply(box'[x]) /\ box'[x].id = x
    BY <2>1, CloseTypes
  <2> QED BY <2>1, <2>2, <2>3 DEF ConnTypes
<1>4. CASE StartOperation(i)
  <2>1. /\ row' = [row EXCEPT ![i] = "pending"] /\ req' = [req EXCEPT ![i].at = "send"]
        /\ UNCHANGED <<host, disk, box, down, back, job, snaps, log, verdict, saved>>
    BY <1>4 DEF StartOperation, hostv, wire, history
  <2>2. DOMAIN req' = Requests /\ \A l \in Requests : TypedReq(req'[l])
    BY <2>1, Advance
  <2> QED BY <2>1, <2>2 DEF ConnTypes
<1>5. CASE Dispatch(i)
  <2>1. /\ SendConnectorCommand(i, Cmd(i))
        /\ UNCHANGED <<host, disk, back, job, snaps, log, verdict, saved>>
    BY <1>5 DEF Dispatch, hostv, history
  <2>2. PICK at \in {"wait", "done"} : req' = [req EXCEPT ![i].at = at]
    BY <1>5 DEF Dispatch
  <2>3. /\ DOMAIN req' = Requests /\ \A l \in Requests : TypedReq(req'[l])
    BY <2>2, Advance
  <2>4. /\ DOMAIN box' \subseteq Ids /\ down' \subseteq Ids
        /\ \A x \in DOMAIN box' : box'[x] # None => TypedReply(box'[x]) /\ box'[x].id = x
    BY <1>i, <2>1, SendTypes
  <2>5. row' = row \/ FinishOperation(i, "offline")
    BY <1>5 DEF Dispatch
  <2>6. DOMAIN row' = Requests
    BY <1>r, <2>5 DEF ConnTypes
  <2> QED BY <2>1, <2>3, <2>4, <2>6 DEF ConnTypes
<1>6. CASE DispatchReply(i)
  <2> DEFINE k == Cmd(i)
             q == [req[i] EXCEPT !.at = "done", !.cmd = Idle,
                                 !.seen = IF req[i].cmd.op = "read" THEN box[k].content ELSE None]
  <2>1. /\ Replied(i, k) /\ FinishOperation(i, box[k].status) /\ box' = Without(box, {k})
        /\ UNCHANGED <<host, disk, down, back, job, snaps, log, verdict, saved>>
    BY <1>6 DEF DispatchReply, hostv, history
  <2>2. req' = [req EXCEPT ![i] = q]
    BY <1>6 DEF DispatchReply, ConnTypes, TypedReq
  <2>3. box[k].content \in Values
    BY <2>1 DEF Replied, ConnTypes, TypedReply
  <2>4. TypedReq(q)
    <3>1. TypedReq(req[i]) /\ Idle.content = None /\ Idle.base = None /\ Idle.op = "none"
      BY DEF ConnTypes, Idle
    <3> QED BY <2>3, <3>1 DEF TypedReq, Values
  <2> HIDE DEF q
  <2>5. DOMAIN req' = Requests /\ \A l \in Requests : TypedReq(req'[l])
    BY <2>2, <2>4 DEF ConnTypes
  <2>6. /\ DOMAIN box' \subseteq Ids
        /\ \A x \in DOMAIN box' : box'[x] # None => TypedReply(box'[x]) /\ box'[x].id = x
    BY <2>1, CloseTypes
  <2>7. DOMAIN row' = Requests
    BY <1>r, <2>1
  <2> QED BY <2>1, <2>5, <2>6, <2>7 DEF ConnTypes
<1>7. CASE DispatchTimeout(i)
  <2>1. /\ box' = Without(box, {Cmd(i)}) /\ req' = [req EXCEPT ![i].at = "done"]
        /\ UNCHANGED <<host, disk, down, back, job, snaps, log, verdict, saved>>
        /\ FinishOperation(i, "timeout")
    BY <1>7 DEF DispatchTimeout, hostv, history
  <2>2. DOMAIN req' = Requests /\ \A l \in Requests : TypedReq(req'[l])
    BY <2>1, Advance
  <2>3. /\ DOMAIN box' \subseteq Ids
        /\ \A x \in DOMAIN box' : box'[x] # None => TypedReply(box'[x]) /\ box'[x].id = x
    BY <2>1, CloseTypes
  <2>4. DOMAIN row' = Requests
    BY <1>r, <2>1
  <2> QED BY <2>1, <2>2, <2>3, <2>4 DEF ConnTypes
<1> QED BY <1>1, <1>2, <1>3, <1>4, <1>5, <1>6, <1>7 DEF Handler

\* Every step of a command leaves the file, its history and the other
\* commands of their types.
LEMMA MoveTypes ==
  ASSUME ConnTypes, NEW k \in DOMAIN job, Moves(k)
  PROVE  ConnTypes'
<1>0. k \in Ids /\ k[1] \in Requests /\ TypedJob(k, job[k]) /\ disk \in Contents
  BY IdsAre DEF ConnTypes
<1>1. PICK u : Goes(k, u)
  BY DEF Moves, ReadMove, SaveMove, QuietEnd, BeginMove, WriteMove, OnMove, StaysMove, RestoreMove,
         TornMove, Ends
<1>2. /\ DOMAIN job' = DOMAIN job /\ job'[k] = u
      /\ \A x \in DOMAIN job \ {k} : job'[x] = job[x]
  BY <1>1 DEF Goes, With
<1>3. DOMAIN job' \subseteq Ids /\ \A x \in DOMAIN job' : TypedJob(x, job'[x])
  BY <1>1, <1>2 DEF Goes, ConnTypes
<1>4. disk' \in Contents
  BY <1>0 DEF Moves, ReadMove, SaveMove, QuietEnd, BeginMove, WriteMove, OnMove, StaysMove,
         RestoreMove, TornMove, books, TypedJob
<1>5. log' = log \/ \E e \in Entries : log' = Append(log, e)
  <2>1. CASE log' = log
    BY <2>1
  <2>2. CASE SaveMove(k)
    <3>1. PICK c \in Contents : log' = Append(log, [by |-> k[1], over |-> disk, new |-> c, base |-> None])
      BY <2>2 DEF SaveMove
    <3>2. [by |-> k[1], over |-> disk, new |-> c, base |-> None] \in Entries
      BY <1>0 DEF Entries, Values
    <3> QED BY <3>1, <3>2
  <2>3. CASE StaysMove(k)
    <3>1. log' = Append(log, [by |-> k[1], over |-> job[k].over, new |-> job[k].content,
                              base |-> job[k].base])
      BY <2>3 DEF StaysMove
    <3>2. [by |-> k[1], over |-> job[k].over, new |-> job[k].content, base |-> job[k].base] \in Entries
      BY <1>0 DEF Entries, TypedJob
    <3> QED BY <3>1, <3>2
  <2> QED BY <2>1, <2>2, <2>3 DEF Moves, QuietEnd, BeginMove, WriteMove, OnMove,
             RestoreMove, TornMove, books
<1>6. log' \in Seq(Entries) /\ Len(log') > 0
  <2>1. log \in Seq(Entries) /\ Len(log) > 0 /\ Len(log) \in Nat
    BY LenProperties DEF ConnTypes
  <2>2. ASSUME NEW e \in Entries, log' = Append(log, e)
        PROVE  log' \in Seq(Entries) /\ Len(log') > 0
    BY <2>1, <2>2, AppendProperties
  <2> QED BY <1>5, <2>1, <2>2
<1>7. UNCHANGED <<host, others>>
  BY <1>1 DEF Goes
<1> QED BY <1>3, <1>4, <1>6, <1>7 DEF ConnTypes, others

\* A new command begins as it was sent.
LEMMA ArriveTypes ==
  ASSUME ConnTypes, NEW k \in Ids, Arrive(k)
  PROVE  ConnTypes'
<1>0. k[1] \in Requests /\ (k[2] = "snap" => k = Snap(k[1])) /\ TypedReq(req[k[1]])
  BY IdsAre DEF ConnTypes
<1>1. PICK c : c = IF k = Snap(k[1]) THEN [Idle EXCEPT !.op = "read"] ELSE req[k[1]].cmd
  OBVIOUS
<1> DEFINE u == [at |-> "begin", op |-> c.op, content |-> c.content, base |-> c.base,
                 dry |-> c.dry, action |-> c.action, ctx |-> "live", before |-> None,
                 over |-> None, status |-> None]
<1>2. job' = With(job, k, u)
  BY <1>1 DEF Arrive, Set
<1>3. /\ c.content \in Values /\ c.base \in Values
      /\ c.op \in {"apply", "rollback"} => c.content \in Contents
  BY <1>0, <1>1 DEF TypedReq, Idle, Values
<1>4. k[2] = "snap" => c.op = "read" /\ c.action = "none"
  BY <1>0, <1>1 DEF Idle
<1>5. TypedJob(k, u)
  BY <1>3, <1>4 DEF TypedJob, JobFields, Values
<1> HIDE DEF u
<1>6. /\ DOMAIN job' = DOMAIN job \cup {k} /\ job'[k] = u
      /\ \A x \in DOMAIN job \ {k} : job'[x] = job[x]
  BY <1>2 DEF With
<1>7. DOMAIN job' \subseteq Ids /\ \A x \in DOMAIN job' : TypedJob(x, job'[x])
  BY <1>5, <1>6 DEF ConnTypes
<1>8. /\ down' \subseteq down
      /\ UNCHANGED <<host, disk, box, back, req, row, snaps, log, verdict, saved>>
  BY DEF Arrive, hostv
<1> QED BY <1>7, <1>8 DEF ConnTypes

\* The contexts of the commands at the agent end.
LEMMA CutTypes ==
  ASSUME ConnTypes, job' = CutAll
  PROVE  /\ DOMAIN job' = DOMAIN job /\ \A k \in DOMAIN job : TypedJob(k, job'[k])
         /\ \A k \in DOMAIN job : /\ job'[k].at = job[k].at /\ job'[k].content = job[k].content
                                  /\ job'[k].base = job[k].base /\ job'[k].before = job[k].before
                                  /\ job'[k].over = job[k].over /\ job'[k].op = job[k].op
                                  /\ job'[k].dry = job[k].dry /\ job'[k].action = job[k].action
                                  /\ job'[k].status = job[k].status
<1>1. DOMAIN job' = DOMAIN job /\ \A k \in DOMAIN job : job'[k] = [job[k] EXCEPT !.ctx = "cut"]
  BY DEF CutAll
<1>2. SUFFICES ASSUME NEW k \in DOMAIN job
               PROVE  /\ TypedJob(k, job'[k])
                      /\ job'[k].at = job[k].at /\ job'[k].content = job[k].content
                      /\ job'[k].base = job[k].base /\ job'[k].before = job[k].before
                      /\ job'[k].over = job[k].over /\ job'[k].op = job[k].op
                      /\ job'[k].dry = job[k].dry /\ job'[k].action = job[k].action
                      /\ job'[k].status = job[k].status
  BY <1>1
<1>3. TypedJob(k, job[k])
  BY DEF ConnTypes
<1>4. PICK j : j = job[k]
  OBVIOUS
<1>5. PICK u : u = job'[k]
  OBVIOUS
<1>6. u = [j EXCEPT !.ctx = "cut"] /\ DOMAIN j = JobFields
  BY <1>1, <1>3, <1>4, <1>5 DEF TypedJob
<1>7. /\ u.at = j.at /\ u.content = j.content /\ u.base = j.base /\ u.before = j.before
      /\ u.over = j.over /\ u.op = j.op /\ u.dry = j.dry /\ u.action = j.action
      /\ u.status = j.status /\ DOMAIN u = JobFields
  BY <1>6 DEF JobFields
<1>8. TypedJob(k, u)
  BY <1>3, <1>4, <1>7 DEF TypedJob
<1> QED BY <1>4, <1>5, <1>7, <1>8

\* The agent's result is left for the drain loop, or waits.
LEMMA ReplyTypes ==
  ASSUME ConnTypes, NEW k \in DOMAIN job, Reply(k)
  PROVE  ConnTypes'
<1>1. /\ job[k].at = "reply" /\ job' = Without(job, {k})
      /\ DOMAIN verdict' = DOMAIN verdict
      /\ UNCHANGED <<host, disk, box, down, req, row, snaps, log, saved>>
  BY DEF Reply, hostv
<1>2. back' \subseteq back \cup {[id |-> k, status |-> job[k].status, content |-> job[k].content]}
  BY DEF Reply
<1>3. TypedJob(k, job[k]) /\ k \in Ids
  BY DEF ConnTypes
<1>4. TypedReply([id |-> k, status |-> job[k].status, content |-> job[k].content])
  BY <1>1, <1>3 DEF TypedJob, TypedReply
<1>5. \A m \in back' : TypedReply(m)
  BY <1>2, <1>4 DEF ConnTypes
<1>6. DOMAIN job' = DOMAIN job \ {k} /\ \A x \in DOMAIN job \ {k} : job'[x] = job[x]
  BY <1>1 DEF Without
<1>7. DOMAIN job' \subseteq Ids /\ \A x \in DOMAIN job' : TypedJob(x, job'[x])
  BY <1>6 DEF ConnTypes
<1> QED BY <1>1, <1>5, <1>7 DEF ConnTypes

\* Nothing that the rows or the file depend on.
Nothing == UNCHANGED <<host, disk, box, down, back, req, row, job, snaps, log, verdict, saved,
                       torn, overlap>>

\* A step is one of these.
LEMMA StepKinds ==
  ASSUME ConnTypes, [Next]_(vars)
  PROVE  \/ \E i \in Requests : Handler(i) \/ Asks(i)
         \/ \E k \in Ids : Arrive(k)
         \/ \E k \in DOMAIN job : Moves(k) \/ Reply(k)
         \/ \E m \in back : Receive(m)
         \/ \E c \in Contents : EditByHand(c)
         \/ Drop \/ AgentCrash \/ GatewayCrash
         \/ Nothing
<1>1. CASE UNCHANGED vars
  BY <1>1 DEF vars, hostv, wire, history, Nothing
<1>2. CASE Users
  BY <1>2, UsersAsk
<1>3. CASE System
  <2>1. ASSUME NEW k \in Ids, Command(k)
        PROVE  k \in DOMAIN job /\ (Moves(k) \/ Reply(k))
    <3>1. k \in DOMAIN job
      BY <2>1 DEF Command
    <3>2. CASE Reply(k)
      BY <3>1, <3>2
    <3>3. CASE ~Reply(k)
      <4>1. \/ ExecuteRead(k) \/ ExecuteLifecycle(k) \/ BeginApply(k)
            \/ WriteFileAtomic(k) \/ CheckLive(k) \/ ActivateNew(k) \/ HealthGate(k)
            \/ Restore(k) \/ Reactivate(k)
        BY <2>1, <3>3 DEF Command
      <4> QED BY <3>1, <4>1, CommandMoves
    <3> QED BY <3>2, <3>3
  <2>2. CASE OnConnectorEvent \/ ConnectorLoop \/ Connect
    BY <2>2 DEF OnConnectorEvent, ConnectorLoop, Connect, hostv, wire,
                history, Nothing
  <2> QED BY <1>3, <2>1, <2>2 DEF System
<1>4. CASE Faults
  <2>1. ASSUME NEW k \in DOMAIN job, WriteCutOff(k) \/ Expire(k)
        PROVE  Moves(k)
    BY <2>1, CommandMoves
  <2> QED BY <1>4, <2>1 DEF Faults
<1> QED BY <1>1, <1>2, <1>3, <1>4 DEF Next

LEMMA ReceiveTypes ==
  ASSUME ConnTypes, NEW m \in back, Receive(m)
  PROVE  ConnTypes'
<1>1. /\ back' = back \ {m}
      /\ UNCHANGED <<host, disk, down, req, row, job, snaps, log, verdict, saved>>
      /\ box' = IF m.id \in DOMAIN box /\ box[m.id] = None THEN [box EXCEPT ![m.id] = m] ELSE box
  BY DEF Receive, Resolve, hostv, history
<1>2. TypedReply(m) /\ DOMAIN box \subseteq Ids
      /\ \A x \in DOMAIN box : box[x] # None => TypedReply(box[x]) /\ box[x].id = x
  BY DEF ConnTypes
<1>3. DOMAIN box' = DOMAIN box /\ \A x \in DOMAIN box : box'[x] = box[x] \/ (box'[x] = m /\ x = m.id)
  BY <1>1
<1>4. \A x \in DOMAIN box' : box'[x] # None => TypedReply(box'[x]) /\ box'[x].id = x
  BY <1>2, <1>3
<1> QED BY <1>1, <1>2, <1>3, <1>4 DEF ConnTypes

LEMMA FaultTypes ==
  ASSUME ConnTypes,
         \/ \E c \in Contents : EditByHand(c)
         \/ Drop \/ AgentCrash \/ GatewayCrash
  PROVE  ConnTypes'
<1>1. ASSUME NEW c \in Contents, EditByHand(c)
      PROVE  ConnTypes'
  <2>1. /\ disk' = c /\ log' = Append(log, [by |-> 0, over |-> disk, new |-> c, base |-> None])
        /\ UNCHANGED <<host, box, down, back, req, row, job, snaps, verdict, saved>>
    BY <1>1 DEF EditByHand, wire
  <2>2. [by |-> 0, over |-> disk, new |-> c, base |-> None] \in Entries /\ disk' \in Contents
    BY <2>1 DEF Entries, Values, ConnTypes
  <2>3. log \in Seq(Entries) /\ Len(log) \in Nat
    BY LenProperties DEF ConnTypes
  <2>4. log' \in Seq(Entries) /\ Len(log') > 0
    BY <2>1, <2>2, <2>3, AppendProperties
  <2> QED BY <2>1, <2>2, <2>4 DEF ConnTypes
<1>2. CASE Drop
  <2>1. /\ down' = {} /\ back' \in SUBSET back /\ job' = CutAll
        /\ UNCHANGED <<host, disk, box, req, row, snaps, log, verdict, saved>>
    BY <1>2 DEF Drop, hostv, history
  <2>2. DOMAIN job' = DOMAIN job /\ \A k \in DOMAIN job' : TypedJob(k, job'[k])
    BY <2>1, CutTypes
  <2> QED BY <2>1, <2>2 DEF ConnTypes
<1>3. CASE AgentCrash
  <2>1. /\ down' = {} /\ back' = {} /\ job' = << >>
        /\ UNCHANGED <<host, disk, box, req, row, snaps, log, verdict, saved>>
    BY <1>3 DEF AgentCrash, hostv
  <2>2. DOMAIN job' = {}
    BY <2>1
  <2> QED BY <2>1, <2>2 DEF ConnTypes
<1>4. CASE GatewayCrash
  <2>1. /\ down' = {} /\ back' \in SUBSET back /\ job' = CutAll /\ box' = << >>
        /\ UNCHANGED <<host, disk, row, snaps, log, verdict, saved>>
    BY <1>4 DEF GatewayCrash, hostv, history
  <2>2. DOMAIN job' = DOMAIN job /\ \A k \in DOMAIN job' : TypedJob(k, job'[k])
    BY <2>1, CutTypes
  <2>3. DOMAIN req' = Requests
        /\ \A i \in Requests : req'[i] = req[i] \/ req'[i] = [req[i] EXCEPT !.at = "lost"]
    BY <1>4 DEF GatewayCrash
  <2>4. \A i \in Requests : TypedReq(req[i]) => TypedReq([req[i] EXCEPT !.at = "lost"])
    BY DEF TypedReq
  <2>5. \A i \in Requests : TypedReq(req'[i])
    BY <2>3, <2>4 DEF ConnTypes
  <2>6. DOMAIN box' = {}
    BY <2>1
  <2> QED BY <2>1, <2>2, <2>3, <2>5, <2>6 DEF ConnTypes
<1> QED BY <1>1, <1>2, <1>3, <1>4

LEMMA ConnTypesStep ==
  ASSUME ConnTypes, [Next]_(vars)
  PROVE  ConnTypes'
<1>1. CASE Nothing
  BY <1>1 DEF Nothing, ConnTypes
<1>2. ASSUME NEW i \in Requests, Handler(i) \/ Asks(i)
      PROVE  ConnTypes'
  BY <1>2, HandlerTypes, AsksTypes
<1>3. ASSUME NEW k \in DOMAIN job, Moves(k) \/ Reply(k)
      PROVE  ConnTypes'
  BY <1>3, MoveTypes, ReplyTypes
<1>4. ASSUME NEW k \in Ids, Arrive(k)
      PROVE  ConnTypes'
  BY <1>4, ArriveTypes
<1>5. ASSUME NEW m \in back, Receive(m)
      PROVE  ConnTypes'
  BY <1>5, ReceiveTypes
<1> QED BY <1>1, <1>2, <1>3, <1>4, <1>5, StepKinds, FaultTypes

LEMMA ConnTypesInit ==
  ASSUME Init
  PROVE  ConnTypes
<1>1. Original \in Contents
  BY ConnectorsAssumption DEF ConnectorsAssumption
<1>2. [by |-> 0, over |-> None, new |-> Original, base |-> None] \in Entries
  BY <1>1 DEF Entries, Values
<1>3. log \in Seq(Entries) /\ Len(log) > 0
  BY <1>2 DEF Init
<1>4. Idle.content = None /\ Idle.base = None /\ Idle.op = "none"
  BY DEF Idle
<1>5. DOMAIN req = Requests /\ \A i \in Requests : TypedReq(req[i])
  BY <1>4 DEF Init, TypedReq, Values
<1>6. DOMAIN box = {} /\ DOMAIN job = {} /\ snaps \in Seq(Contents)
  BY DEF Init
<1>7. saved \in [Requests -> Values] /\ disk \in Contents
  BY <1>1 DEF Init, Values
<1> QED BY <1>3, <1>5, <1>6, <1>7 DEF Init, ConnTypes

-----------------------------------------------------------------------------
(***************************************************************************)
(* The rows.  What there is of a command, from the request to the answer.  *)
(***************************************************************************)
Before == {"idle", "snap", "snapwait", "start", "send"}

Unanswered(i) ==
  /\ verdict[i] = None
  /\ \A m \in back : m.id # Cmd(i)
  /\ Cmd(i) \in DOMAIN box => box[Cmd(i)] = None

\* Before it is sent there is nothing; until the agent is done with it there
\* is no verdict; then the replies and the row carry the verdict.
RowInv(i) ==
  /\ req[i].at \in Before =>
       Cmd(i) \notin down \cup DOMAIN job \cup DOMAIN box /\ Unanswered(i)
  /\ req[i].at \in Before \cup {"wait", "lost"} => row[i] \in {None, "pending"}
  /\ Cmd(i) \in down \cup DOMAIN job => Unanswered(i)
  /\ ~(Cmd(i) \in down /\ Cmd(i) \in DOMAIN job)
  /\ \A m \in back : m.id = Cmd(i) => m.status = verdict[i]
  /\ Cmd(i) \in DOMAIN box /\ box[Cmd(i)] # None =>
       box[Cmd(i)].status = verdict[i] /\ verdict[i] \in Statuses
  /\ \/ row[i] \in {None, "pending", "timeout"}
     \/ row[i] = "offline" /\ verdict[i] = None /\ Cmd(i) \notin down \cup DOMAIN job
     \/ row[i] = verdict[i] /\ verdict[i] \in Statuses

RowsInv == ConnTypes /\ \A i \in Requests : RowInv(i)

\* The step has nothing to do with the command of request i but that it, or
\* an answer to it, may be lost, and that a request before its command may go on.
SameFor(i) ==
  /\ row'[i] = row[i] /\ verdict'[i] = verdict[i]
  /\ Cmd(i) \in down' => Cmd(i) \in down
  /\ Cmd(i) \in DOMAIN job' => Cmd(i) \in DOMAIN job
  /\ \A m \in back' : m.id = Cmd(i) => m \in back
  /\ Cmd(i) \in DOMAIN box' =>
       Cmd(i) \in DOMAIN box /\ box'[Cmd(i)] = box[Cmd(i)]
  /\ \/ req'[i].at = req[i].at
     \/ req[i].at \in Before /\ req'[i].at \in Before
     \/ req[i].at \in Before \cup {"wait"} /\ req'[i].at = "lost"

LEMMA SameRow ==
  ASSUME NEW i \in Requests, RowInv(i), SameFor(i)
  PROVE  RowInv(i)'
<1>1. PICK k : k = Cmd(i)
  OBVIOUS
<1>2. Unanswered(i) => Unanswered(i)'
  BY DEF SameFor, Unanswered
<1>3. req'[i].at \in Before => k \notin down' \cup DOMAIN job' \cup DOMAIN box' /\ Unanswered(i)'
  BY <1>1, <1>2 DEF RowInv, SameFor, Before
<1>4. req'[i].at \in Before \cup {"wait", "lost"} => row'[i] \in {None, "pending"}
  BY DEF RowInv, SameFor
<1>5. /\ k \in down' \cup DOMAIN job' => Unanswered(i)'
      /\ ~(k \in down' /\ k \in DOMAIN job')
      /\ \A m \in back' : m.id = k => m.status = verdict'[i]
      /\ k \in DOMAIN box' /\ box'[k] # None =>
           box'[k].status = verdict'[i] /\ verdict'[i] \in Statuses
  BY <1>1, <1>2 DEF RowInv, SameFor
<1>6. \/ row'[i] \in {None, "pending", "timeout"}
      \/ row'[i] = "offline" /\ verdict'[i] = None /\ k \notin down' \cup DOMAIN job'
      \/ row'[i] = verdict'[i] /\ verdict'[i] \in Statuses
  BY <1>1 DEF RowInv, SameFor
<1>7. k = Cmd(i)'
  BY <1>1 DEF Cmd
<1> QED BY <1>3, <1>4, <1>5, <1>6, <1>7 DEF RowInv

\* Another request, or another command.
LEMMA Apart ==
  ASSUME NEW i \in Requests, NEW l \in Requests
  PROVE  /\ Cmd(i) # Snap(l)
         /\ i # l => Cmd(i) # Cmd(l)
BY DEF Cmd, Snap

\* A command is sent: mailbox and wire.
LEMMA SendIs ==
  ASSUME NEW i, NEW k, SendConnectorCommand(i, k)
  PROVE  /\ \A x \in DOMAIN box' \ {k} : x \in DOMAIN box /\ box'[x] = box[x]
         /\ \A x \in down' \ {k} : x \in down
         /\ conn => k \in DOMAIN box' /\ box'[k] = None
         /\ ~conn => UNCHANGED <<box, down>>
BY DEF SendConnectorCommand, With

\* The handlers keep the rows of all requests but their own.
LEMMA HandlerElsewhere ==
  ASSUME ConnTypes, NEW l \in Requests, Handler(l), NEW i \in Requests,
         i # l \/ SnapshotBefore(l) \/ SnapshotReply(l) \/ SnapshotTimeout(l)
  PROVE  SameFor(i)
<1> DEFINE k == Cmd(i)
<1>0. /\ k # Snap(l) /\ (i # l => k # Cmd(l))
      /\ DOMAIN req = Requests /\ DOMAIN row = Requests
  BY Apart DEF ConnTypes
<1>1. CASE SnapshotBefore(l)
  <2>1. /\ req[l].at = "snap" /\ SendConnectorCommand(l, Snap(l))
        /\ UNCHANGED <<back, row, job, verdict>>
    BY <1>1 DEF SnapshotBefore, history
  <2>2. PICK at \in {"snapwait", "start"} : req' = [req EXCEPT ![l].at = at]
    BY <1>1 DEF SnapshotBefore
  <2>3. /\ i # l => req'[i] = req[i]
        /\ req'[l].at = at
    BY <2>2, Advance
  <2>4. /\ k \in DOMAIN box' => k \in DOMAIN box /\ box'[k] = box[k]
        /\ k \in down' => k \in down
    BY <1>0, <2>1, SendIs
  <2> QED BY <2>1, <2>3, <2>4 DEF SameFor, Before
<1>2. CASE SnapshotReply(l) \/ SnapshotTimeout(l)
  <2>1. /\ req[l].at = "snapwait" /\ req' = [req EXCEPT ![l].at = "start"]
        /\ box' = Without(box, {Snap(l)}) /\ UNCHANGED <<down, back, row, job, verdict>>
    BY <1>2 DEF SnapshotReply, SnapshotTimeout, history
  <2>2. /\ i # l => req'[i] = req[i]
        /\ req'[l].at = "start"
    BY <2>1, Advance
  <2>3. k \in DOMAIN box' => k \in DOMAIN box /\ box'[k] = box[k]
    BY <2>1 DEF Without
  <2> QED BY <2>1, <2>2, <2>3 DEF SameFor, Before
<1>3. CASE i # l /\ StartOperation(l)
  <2>1. /\ req' = [req EXCEPT ![l].at = "send"] /\ row' = [row EXCEPT ![l] = "pending"]
        /\ UNCHANGED <<box, down, back, job, verdict>>
    BY <1>3 DEF StartOperation, wire, history
  <2>2. req'[i] = req[i] /\ row'[i] = row[i]
    BY <1>0, <1>3, <2>1
  <2> QED BY <2>1, <2>2 DEF SameFor
<1>4. CASE i # l /\ Dispatch(l)
  <2>1. /\ SendConnectorCommand(l, Cmd(l))
        /\ req'[i] = req[i] /\ row'[i] = row[i]
        /\ UNCHANGED <<back, job, verdict>>
    BY <1>0, <1>4 DEF Dispatch, history, FinishOperation
  <2>2. /\ k \in DOMAIN box' => k \in DOMAIN box /\ box'[k] = box[k]
        /\ k \in down' => k \in down
    BY <1>0, <1>4, <2>1, SendIs
  <2> QED BY <2>1, <2>2 DEF SameFor
<1>5. CASE i # l /\ (DispatchReply(l) \/ DispatchTimeout(l))
  <2>1. /\ req'[i] = req[i] /\ row'[i] = row[i]
        /\ box' = Without(box, {Cmd(l)}) /\ UNCHANGED <<down, back, job, verdict>>
    BY <1>0, <1>5 DEF DispatchReply, DispatchTimeout, history, FinishOperation
  <2>2. k \in DOMAIN box' => k \in DOMAIN box /\ box'[k] = box[k]
    BY <2>1 DEF Without
  <2> QED BY <2>1, <2>2 DEF SameFor
<1> QED BY <1>1, <1>2, <1>3, <1>4, <1>5 DEF Handler

\* A handler and its own row.
LEMMA HandlerOwn ==
  ASSUME ConnTypes, NEW i \in Requests, RowInv(i),
         \/ StartOperation(i) \/ Dispatch(i) \/ DispatchReply(i)
         \/ DispatchTimeout(i)
  PROVE  RowInv(i)'
<1>k. PICK k : k = Cmd(i) /\ k = Cmd(i)'
  BY DEF Cmd
<1>0. DOMAIN req = Requests /\ DOMAIN row = Requests
  BY DEF ConnTypes
<1>1. CASE StartOperation(i)
  <2>1. /\ req[i].at = "start" /\ req' = [req EXCEPT ![i].at = "send"] /\ row'[i] = "pending"
        /\ UNCHANGED <<box, down, back, job, verdict>>
    BY <1>0, <1>1 DEF StartOperation, wire, history
  <2>2. req'[i].at = "send"
    BY <2>1, Advance
  <2>3. Unanswered(i) /\ k \notin down \cup DOMAIN job \cup DOMAIN box
    BY <1>k, <2>1 DEF RowInv, Before
  <2>4. Unanswered(i)'
    BY <2>1, <2>3, <1>k DEF Unanswered
  <2>5. /\ k \notin down' \cup DOMAIN job' \cup DOMAIN box'
        /\ \A m \in back' : m.id # k
    BY <1>k, <2>1, <2>3 DEF Unanswered
  <2> QED BY <1>k, <2>1, <2>2, <2>4, <2>5 DEF RowInv, Before
<1>2. CASE Dispatch(i)
  <2>1. /\ req[i].at = "send" /\ SendConnectorCommand(i, k)
        /\ req' = [req EXCEPT ![i].at = IF conn THEN "wait" ELSE "done"]
        /\ IF conn THEN row' = row ELSE FinishOperation(i, "offline")
        /\ UNCHANGED <<back, job, verdict>>
    BY <1>k, <1>2 DEF Dispatch, history
  <2>2. /\ Unanswered(i) /\ k \notin down \cup DOMAIN job \cup DOMAIN box
        /\ row[i] \in {None, "pending"}
    BY <1>k, <2>1 DEF RowInv, Before
  <2>3. \A m \in back' : m.id # k
    BY <1>k, <2>1, <2>2 DEF Unanswered
  <2>4. CASE conn
    <3>1. req'[i].at = "wait"
      BY <2>1, <2>4, Advance
    <3>2. k \in DOMAIN box' /\ box'[k] = None /\ row'[i] \in {None, "pending"}
      BY <2>1, <2>2, <2>4, SendIs
    <3>3. Unanswered(i)'
      BY <1>k, <2>1, <2>2, <2>3, <3>2 DEF Unanswered
    <3>4. k \notin DOMAIN job'
      BY <2>1, <2>2
    <3> QED BY <1>k, <2>3, <3>1, <3>2, <3>3, <3>4 DEF RowInv, Before
  <2>5. CASE ~conn
    <3>1. req'[i].at = "done"
      BY <2>1, <2>5, Advance
    <3>2. /\ UNCHANGED <<box, down, back, job, verdict>>
          /\ row'[i] \in {row[i], "offline"}
      BY <1>0, <2>1, <2>5 DEF SendConnectorCommand, FinishOperation
    <3>3. verdict'[i] = None /\ k \notin down' \cup DOMAIN job' \cup DOMAIN box'
      BY <2>2, <3>2 DEF Unanswered
    <3>4. row'[i] \in {None, "pending", "offline"}
      BY <2>2, <3>2
    <3> QED BY <1>k, <2>3, <3>1, <3>3, <3>4 DEF RowInv, Before
  <2> QED BY <2>4, <2>5
<1>3. CASE DispatchReply(i) \/ DispatchTimeout(i)
  <2>1. PICK s : /\ FinishOperation(i, s)
                 /\ s = "timeout" \/ (k \in DOMAIN box /\ box[k] # None /\ s = box[k].status)
    BY <1>k, <1>3 DEF DispatchReply, DispatchTimeout, Replied
  <2>2. /\ req[i].at = "wait" /\ box' = Without(box, {k})
        /\ UNCHANGED <<down, back, job, verdict>>
    BY <1>k, <1>3 DEF DispatchReply, DispatchTimeout, history
  <2>3. req'[i].at = "done"
    <3>1. DOMAIN req[i] = {"at", "cmd", "seen"}
      BY DEF ConnTypes, TypedReq
    <3>2. CASE DispatchTimeout(i)
      <4>1. req' = [req EXCEPT ![i].at = "done"]
        BY <3>2 DEF DispatchTimeout
      <4> QED BY <4>1, Advance
    <3>3. CASE DispatchReply(i)
      BY <1>0, <3>1, <3>3 DEF DispatchReply
    <3> QED BY <1>3, <3>2, <3>3
  <2>4. k \notin DOMAIN box' /\ row[i] \in {None, "pending"}
    BY <1>k, <2>2 DEF RowInv, Without
  <2>5. row'[i] = row[i] \/ row'[i] = s
    BY <1>0, <2>1 DEF FinishOperation
  <2>6. s = "timeout" \/ (s = verdict[i] /\ verdict[i] \in Statuses)
    BY <1>k, <2>1 DEF RowInv
  <2>7. \/ row'[i] \in {None, "pending", "timeout"}
        \/ row'[i] = verdict'[i] /\ verdict'[i] \in Statuses
    BY <2>2, <2>4, <2>5, <2>6
  <2>8. /\ k \in down' \cup DOMAIN job' => Unanswered(i)'
        /\ ~(k \in down' /\ k \in DOMAIN job')
        /\ \A m \in back' : m.id = k => m.status = verdict'[i]
    BY <1>k, <2>2, <2>4 DEF RowInv, Unanswered
  <2> QED BY <1>k, <2>3, <2>4, <2>7, <2>8 DEF RowInv, Before
<1> QED BY <1>1, <1>2, <1>3

\* A reply reaches the mailbox of its command.
LEMMA ReceiveRow ==
  ASSUME ConnTypes, NEW m \in back, Receive(m), NEW i \in Requests, RowInv(i)
  PROVE  RowInv(i)'
<1>k. PICK k : k = Cmd(i) /\ k = Cmd(i)'
  BY DEF Cmd
<1>1. /\ back' = back \ {m} /\ UNCHANGED <<req, row, down, job, verdict>>
      /\ box' = IF m.id \in DOMAIN box /\ box[m.id] = None THEN [box EXCEPT ![m.id] = m] ELSE box
  BY DEF Receive, Resolve, history
<1>2. CASE m.id # k
  <2>1. k \in DOMAIN box' => k \in DOMAIN box /\ box'[k] = box[k]
    BY <1>1, <1>2
  <2>2. SameFor(i)
    BY <1>k, <1>1, <2>1 DEF SameFor
  <2> QED BY <2>2, SameRow
<1>3. CASE m.id = k
  <2>1. m.status = verdict[i] /\ verdict[i] \in Statuses
    BY <1>k, <1>3 DEF RowInv, ConnTypes, TypedReply
  <2>2. ~Unanswered(i)
    BY <1>k, <1>3 DEF Unanswered
  <2>3. k \notin down' \cup DOMAIN job' /\ req'[i].at \notin Before
    BY <1>k, <1>1, <2>2 DEF RowInv
  <2>4. k \in DOMAIN box' => k \in DOMAIN box /\ box'[k] \in {m, box[k]}
    BY <1>1
  <2>5. k \in DOMAIN box' /\ box'[k] # None => box'[k].status = verdict'[i] /\ verdict'[i] \in Statuses
    BY <1>k, <1>1, <2>1, <2>4 DEF RowInv
  <2>6. /\ req'[i].at \in Before \cup {"wait", "lost"} => row'[i] \in {None, "pending"}
        /\ \A n \in back' : n.id = k => n.status = verdict'[i]
        /\ \/ row'[i] \in {None, "pending", "timeout"}
           \/ row'[i] = "offline" /\ verdict'[i] = None /\ k \notin down' \cup DOMAIN job'
           \/ row'[i] = verdict'[i] /\ verdict'[i] \in Statuses
    BY <1>k, <1>1 DEF RowInv
  <2> QED BY <1>k, <2>3, <2>5, <2>6 DEF RowInv
<1> QED BY <1>2, <1>3

\* A command reaches the agent.
LEMMA ArriveRow ==
  ASSUME ConnTypes, NEW c \in Ids, Arrive(c), NEW i \in Requests, RowInv(i)
  PROVE  RowInv(i)'
<1>k. PICK k : k = Cmd(i) /\ k = Cmd(i)'
  BY DEF Cmd
<1>1. /\ c \in down /\ down' = down \ {c} /\ DOMAIN job' = DOMAIN job \cup {c}
      /\ UNCHANGED <<req, row, box, back, verdict>>
  BY DEF Arrive, Set, With
<1>2. CASE c # k
  <2>1. SameFor(i)
    BY <1>k, <1>1, <1>2 DEF SameFor
  <2> QED BY <2>1, SameRow
<1>3. CASE c = k
  <2>1. k \in down /\ k \notin down' /\ Unanswered(i) /\ Unanswered(i)'
    BY <1>k, <1>1, <1>3 DEF RowInv, Unanswered
  <2>2. req'[i].at \notin Before
    BY <1>k, <1>1, <2>1 DEF RowInv
  <2>3. /\ req'[i].at \in Before \cup {"wait", "lost"} => row'[i] \in {None, "pending"}
        /\ \A m \in back' : m.id = k => m.status = verdict'[i]
        /\ k \in DOMAIN box' /\ box'[k] # None => box'[k].status = verdict'[i] /\ verdict'[i] \in Statuses
        /\ row'[i] \in {None, "pending", "timeout"} \/ (row'[i] = verdict'[i] /\ verdict'[i] \in Statuses)
    BY <1>k, <1>1, <2>1 DEF RowInv
  <2> QED BY <1>k, <2>1, <2>2, <2>3 DEF RowInv
<1> QED BY <1>2, <1>3

\* The agent has its verdict.
LEMMA ReplyRow ==
  ASSUME ConnTypes, NEW c \in DOMAIN job, Reply(c), NEW i \in Requests, RowInv(i)
  PROVE  RowInv(i)'
<1>k. PICK k : k = Cmd(i) /\ k = Cmd(i)'
  BY DEF Cmd
<1>f. k[1] = i
  BY <1>k DEF Cmd
<1>0. c \in Ids /\ c[1] \in Requests /\ DOMAIN verdict = Requests /\ TypedJob(c, job[c])
  BY IdsAre DEF ConnTypes
<1>1. /\ job[c].at = "reply" /\ DOMAIN job' = DOMAIN job \ {c}
      /\ UNCHANGED <<req, row, box, down>>
      /\ \/ back' = back \cup {[id |-> c, status |-> job[c].status, content |-> job[c].content]}
         \/ back' = back
      /\ verdict' = IF c = Cmd(c[1]) THEN [verdict EXCEPT ![c[1]] = job[c].status] ELSE verdict
  BY DEF Reply, Without
<1>2. CASE c # k
  <2>1. verdict'[i] = verdict[i]
    BY <1>k, <1>f, <1>0, <1>1, <1>2
  <2>2. \A m \in back' : m.id = k => m \in back
    BY <1>1, <1>2
  <2>3. SameFor(i)
    BY <1>k, <1>1, <2>1, <2>2 DEF SameFor
  <2> QED BY <2>3, SameRow
<1>3. CASE c = k
  <2>1. verdict'[i] = job[c].status /\ job[c].status \in Statuses
    BY <1>k, <1>f, <1>0, <1>1, <1>3 DEF TypedJob
  <2>2. Unanswered(i) /\ k \notin down /\ k \in DOMAIN job
    BY <1>k, <1>3 DEF RowInv
  <2>3. k \notin down' \cup DOMAIN job' /\ req'[i].at \notin Before
    BY <1>k, <1>1, <1>3, <2>2 DEF RowInv
  <2>4. \A m \in back' : m.id = k => m.status = verdict'[i]
    BY <1>k, <1>1, <1>3, <2>1, <2>2 DEF Unanswered
  <2>5. k \in DOMAIN box' => box'[k] = None
    BY <1>k, <1>1, <2>2 DEF Unanswered
  <2>6. row[i] \in {None, "pending", "timeout"} \/ (row[i] = verdict[i] /\ row[i] \in Statuses)
    BY <1>k, <2>2 DEF RowInv
  <2>7. row'[i] \in {None, "pending", "timeout"}
    <3>1. row'[i] = row[i]
      BY <1>1
    <3>2. verdict[i] = None
      BY <2>2 DEF Unanswered
    <3> QED BY <2>6, <3>1, <3>2
  <2> QED BY <1>k, <1>1, <2>3, <2>4, <2>5, <2>7 DEF RowInv
<1> QED BY <1>2, <1>3

\* Nothing else touches a row or a verdict: what is lost is lost.
LEMMA OtherRow ==
  ASSUME ConnTypes, NEW i \in Requests, RowInv(i),
         \/ \E k \in DOMAIN job : Moves(k)
         \/ \E l \in Requests : Asks(l)
         \/ \E c \in Contents : EditByHand(c)
         \/ Drop \/ AgentCrash \/ GatewayCrash \/ Nothing
  PROVE  RowInv(i)'
<1> SUFFICES SameFor(i)
  BY SameRow
<1>0. DOMAIN req = Requests /\ \A l \in Requests : TypedReq(req[l])
  BY DEF ConnTypes
<1>1. ASSUME NEW k \in DOMAIN job, Moves(k)
      PROVE  SameFor(i)
  <2>1. PICK u : Goes(k, u)
    BY <1>1 DEF Moves, ReadMove, SaveMove, QuietEnd, BeginMove, WriteMove, OnMove, StaysMove,
           RestoreMove, TornMove, Ends
  <2>2. DOMAIN job' = DOMAIN job /\ UNCHANGED <<box, down, back, req, row, verdict>>
    BY <2>1 DEF Goes, others, With
  <2> QED BY <2>2 DEF SameFor
<1>2. ASSUME NEW l \in Requests, Asks(l)
      PROVE  SameFor(i)
  <2>1. PICK q : /\ TypedReq(q) /\ q.at \in {"snap", "start", "send"} /\ q.seen = None
                 /\ req' = [req EXCEPT ![l] = q]
    BY <1>2 DEF Asks
  <2>2. req[l].at = "idle" /\ UNCHANGED <<box, down, back, row, job, verdict>>
    BY <1>2 DEF Asks
  <2>3. req'[i] = req[i] \/ (i = l /\ req'[i] = q)
    BY <1>0, <2>1
  <2> QED BY <2>1, <2>2, <2>3 DEF SameFor, Before
<1>3. CASE (\E c \in Contents : EditByHand(c)) \/ Nothing
  <2>1. UNCHANGED <<box, down, back, req, row, job, verdict>>
    BY <1>3 DEF EditByHand, wire, Nothing
  <2> QED BY <2>1 DEF SameFor
<1>4. CASE Drop
  <2>1. DOMAIN job' = DOMAIN job /\ down' = {} /\ back' \in SUBSET back /\ UNCHANGED <<box, req, row, verdict>>
    BY <1>4 DEF Drop, CutAll, history
  <2> QED BY <2>1 DEF SameFor
<1>5. CASE AgentCrash
  <2>1. DOMAIN job' = {} /\ down' = {} /\ back' = {} /\ UNCHANGED <<box, req, row, verdict>>
    BY <1>5 DEF AgentCrash
  <2> QED BY <2>1 DEF SameFor
<1>6. CASE GatewayCrash
  <2>1. /\ DOMAIN job' = DOMAIN job /\ DOMAIN box' = {} /\ down' = {} /\ back' \in SUBSET back
        /\ UNCHANGED <<row, verdict>>
        /\ req'[i] = IF req[i].at \in Over THEN req[i] ELSE [req[i] EXCEPT !.at = "lost"]
    BY <1>6 DEF GatewayCrash, CutAll, history
  <2>2. TypedReq(req[i])
    BY <1>0
  <2>3. \/ req'[i].at = req[i].at
        \/ req[i].at \in Before \cup {"wait"} /\ req'[i].at = "lost"
    BY <2>1, <2>2 DEF TypedReq, Before, Over
  <2> QED BY <2>1, <2>3 DEF SameFor
<1> QED BY <1>1, <1>2, <1>3, <1>4, <1>5, <1>6

LEMMA RowsStep ==
  ASSUME RowsInv, [Next]_(vars)
  PROVE  RowsInv'
<1>1. ConnTypes /\ ConnTypes'
  BY ConnTypesStep DEF RowsInv
<1> SUFFICES ASSUME NEW i \in Requests PROVE RowInv(i)'
  BY <1>1 DEF RowsInv, Requests
<1>0. RowInv(i)
  BY DEF RowsInv
<1>2. ASSUME NEW l \in Requests, Handler(l)
      PROVE  RowInv(i)'
  <2>1. CASE i # l \/ SnapshotBefore(l) \/ SnapshotReply(l) \/ SnapshotTimeout(l)
    BY <1>0, <1>1, <1>2, <2>1, HandlerElsewhere, SameRow
  <2>2. CASE i = l /\ ~(SnapshotBefore(l) \/ SnapshotReply(l) \/ SnapshotTimeout(l))
    <3>1. \/ StartOperation(l) \/ Dispatch(l) \/ DispatchReply(l)
          \/ DispatchTimeout(l)
      BY <1>2, <2>2 DEF Handler
    <3>2. RowInv(l)'
      BY <1>0, <1>1, <2>2, <3>1, HandlerOwn
    <3> QED BY <2>2, <3>2 DEF RowInv, Unanswered, Cmd
  <2> QED BY <2>1, <2>2
<1>3. ASSUME NEW k \in Ids, Arrive(k)
      PROVE  RowInv(i)'
  BY <1>0, <1>1, <1>3, ArriveRow
<1>4. ASSUME NEW k \in DOMAIN job, Reply(k)
      PROVE  RowInv(i)'
  BY <1>0, <1>1, <1>4, ReplyRow
<1>5. ASSUME NEW m \in back, Receive(m)
      PROVE  RowInv(i)'
  BY <1>0, <1>1, <1>5, ReceiveRow
<1>6. CASE \/ \E k \in DOMAIN job : Moves(k)
           \/ \E l \in Requests : Asks(l)
           \/ \E c \in Contents : EditByHand(c)
           \/ Drop \/ AgentCrash \/ GatewayCrash \/ Nothing
  BY <1>0, <1>1, <1>6, OtherRow
<1> QED BY <1>1, <1>2, <1>3, <1>4, <1>5, <1>6, StepKinds

LEMMA RowsInit ==
  ASSUME Init
  PROVE  RowsInv
<1>1. ConnTypes
  BY ConnTypesInit
<1>2. /\ DOMAIN box = {} /\ DOMAIN job = {} /\ down = {} /\ back = {}
      /\ \A i \in Requests : req[i].at = "idle" /\ row[i] = None /\ verdict[i] = None
  BY DEF Init
<1> QED BY <1>1, <1>2 DEF RowsInv, RowInv, Unanswered, Before

\* The history of operations is true: a row that carries a verdict carries
\* the one the agent reached for that very request, whatever was lost, late
\* or ended in between, and what was recorded as offline was never run
\* (dispatch of ops_handler.go, Resolve of pending.go).
THEOREM RowsTrue == Spec => []RowsAreTrue
<1>1. Init => RowsInv
  BY RowsInit
<1>2. RowsInv /\ [Next]_(vars) => RowsInv'
  BY RowsStep
<1>3. RowsInv => RowsAreTrue
  <2> SUFFICES ASSUME RowsInv, NEW i \in Requests
               PROVE  /\ row[i] \notin {None, "pending", "offline", "timeout"} => row[i] = verdict[i]
                      /\ row[i] = "offline" => verdict[i] = None
    BY DEF RowsAreTrue
  <2>1. RowInv(i)
    BY DEF RowsInv
  <2>2. None # "offline"
    BY ConnectorsAssumption DEF ConnectorsAssumption
  <2> QED BY <2>1, <2>2 DEF RowInv, Statuses
<1> QED BY <1>1, <1>2, <1>3, PTL DEF Spec

-----------------------------------------------------------------------------
(***************************************************************************)
(* The file.  While changes do not run at once, there is at most one at    *)
(* the agent, and what is in the file and in its backup follows from how   *)
(* far it is.                                                              *)
(***************************************************************************)
Final == Last(log).new

Progress(j) ==
  /\ j.at = "write" => j.before = disk /\ j.base \in {None, disk}
  /\ j.at \in {"check", "activate", "health"} => disk = j.content /\ j.base \in {None, j.over}
  /\ ~torn /\ j.at \in {"begin", "write", "reactivate"} => disk = Final
  /\ ~torn /\ j.at \in {"check", "activate", "health", "restore"} => j.before = Final

SeenLog == \A n \in DOMAIN log : log[n].base # None => log[n].over = log[n].base

FileSafe ==
  /\ \A k, l \in Changing : k = l
  /\ \A k \in Changing : Progress(job[k])
  /\ SeenLog
  /\ ~torn /\ Changing = {} => disk = Final

FileInv == RowsInv /\ ("ran" \notin overlap => FileSafe)

\* One more entry in the history of the file.
LEMMA LogIs ==
  ASSUME ConnTypes, NEW e \in Entries, log' = Append(log, e)
  PROVE  /\ Len(log) \in Nat /\ DOMAIN log = 1..Len(log) /\ DOMAIN log' = 1..(Len(log) + 1)
         /\ \A n \in 1..Len(log) : log[n] \in Entries /\ log'[n] = log[n]
         /\ Len(log') = Len(log) + 1 /\ log'[Len(log) + 1] = e
<1>1. log \in Seq(Entries) /\ Len(log) \in Nat /\ DOMAIN log = 1..Len(log)
  BY LenProperties DEF ConnTypes
<1>2. /\ Len(log') = Len(log) + 1 /\ log'[Len(log) + 1] = e
      /\ \A n \in 1..Len(log) : log'[n] = log[n]
  BY <1>1, AppendProperties
<1>3. log' \in Seq(Entries)
  BY <1>1, AppendProperties
<1>4. DOMAIN log' = 1..(Len(log) + 1)
  BY <1>2, <1>3, LenProperties
<1>5. \A n \in 1..Len(log) : log[n] \in Entries
  BY <1>1, ElementOfSeq
<1> QED BY <1>1, <1>2, <1>4, <1>5

LEMMA LogGrows ==
  ASSUME ConnTypes, NEW e \in Entries, log' = Append(log, e), SeenLog,
         e.base # None => e.over = e.base
  PROVE  Final' = e.new /\ SeenLog'
<1>1. /\ Len(log) \in Nat /\ DOMAIN log = 1..Len(log) /\ DOMAIN log' = 1..(Len(log) + 1)
      /\ \A n \in 1..Len(log) : log'[n] = log[n]
      /\ Len(log') = Len(log) + 1 /\ log'[Len(log) + 1] = e
  BY LogIs
<1>2. Final' = e.new
  BY <1>1 DEF Final, Last
<1>3. SeenLog'
  BY <1>1 DEF SeenLog
<1> QED BY <1>2, <1>3

\* A step of command k leaves the other changes alone.
LEMMA GoesIs ==
  ASSUME NEW k \in DOMAIN job, NEW u, Goes(k, u)
  PROVE  /\ DOMAIN job' = DOMAIN job /\ job'[k] = u /\ TypedJob(k, u)
         /\ \A x \in DOMAIN job \ {k} : job'[x] = job[x]
         /\ Writes(u) <=> Writes(job[k])
         /\ Changing' = IF u.at = "reply" \/ ~Writes(u) THEN Changing \ {k}
                            ELSE Changing \cup {k}
<1>1. /\ DOMAIN job' = DOMAIN job /\ job'[k] = u /\ TypedJob(k, u)
      /\ \A x \in DOMAIN job \ {k} : job'[x] = job[x]
  BY DEF Goes, With
<1>2. Writes(u) <=> Writes(job[k])
  BY DEF Goes, Writes
<1>3. \A x \in DOMAIN job : x # k => (x \in Changing' <=> x \in Changing)
  BY <1>1 DEF Changing, Writes
<1>4. k \in Changing' <=> ~(u.at = "reply" \/ ~Writes(u))
  BY <1>1 DEF Changing, Writes
<1>5. Changing \subseteq DOMAIN job /\ Changing' \subseteq DOMAIN job
  BY <1>1 DEF Changing
<1> QED BY <1>1, <1>2, <1>3, <1>4, <1>5

\* A command that ends, or that does not change the file, with the file as it was.
LEMMA EndSafe ==
  ASSUME FileSafe, NEW k \in DOMAIN job, NEW u, Goes(k, u), u.at = "reply", UNCHANGED books,
         job[k].at \in {"begin", "write", "reactivate"} \/ k \notin Changing
  PROVE  FileSafe'
<1>1. /\ Changing' = Changing \ {k} /\ \A x \in DOMAIN job \ {k} : job'[x] = job[x]
  BY GoesIs
<1>2. UNCHANGED <<Final, disk, torn, log>>
  BY DEF books, Final
<1>3. \A x \in Changing' : Progress(job[x])' /\ x \in Changing
  <2> SUFFICES ASSUME NEW x \in Changing' PROVE Progress(job[x])' /\ x \in Changing
    OBVIOUS
  <2>1. x \in Changing /\ job'[x] = job[x] /\ Progress(job[x])
    BY <1>1 DEF FileSafe, Changing
  <2> QED BY <1>2, <2>1 DEF Progress
<1>4. ~torn' /\ Changing' = {} => disk' = Final'
  BY <1>1, <1>2 DEF FileSafe, Progress
<1>5. SeenLog'
  BY <1>2 DEF FileSafe, SeenLog
<1> QED BY <1>1, <1>3, <1>4, <1>5 DEF FileSafe

\* A change that goes on: it is the only one.
LEMMA OnSafe ==
  ASSUME FileSafe, NEW k \in Changing, NEW u, Goes(k, u), u.at # "reply",
         UNCHANGED log, Progress(u)'
  PROVE  FileSafe'
<1>1. k \in DOMAIN job /\ Writes(job[k])
  BY DEF Changing
<1>2. Changing' = Changing /\ job'[k] = u
  BY <1>1, GoesIs
<1>3. \A x \in Changing : x = k
  BY DEF FileSafe
<1>4. SeenLog'
  BY DEF FileSafe, SeenLog
<1>5. (\A x \in Changing : Progress(job[x]))'
  BY <1>2, <1>3
<1> QED BY <1>2, <1>3, <1>4, <1>5 DEF FileSafe

\* The change at work comes to its end: nothing is left to be in the middle of.
LEMMA LastEnds ==
  ASSUME FileSafe, NEW k \in Changing, NEW u, Goes(k, u), u.at = "reply",
         SeenLog', ~torn' => disk' = Final'
  PROVE  FileSafe'
<1>1. k \in DOMAIN job /\ Changing' = Changing \ {k}
  BY GoesIs DEF Changing
<1>2. Changing' = {}
  BY <1>1 DEF FileSafe
<1> QED BY <1>2 DEF FileSafe

LEMMA MoveSafe ==
  ASSUME ConnTypes, FileSafe, NEW k \in DOMAIN job, Moves(k)
  PROVE  FileSafe'
<1>j. TypedJob(k, job[k]) /\ k[1] \in Requests /\ disk \in Contents /\ (k \in Changing => Progress(job[k]))
  BY IdsAre DEF ConnTypes, FileSafe
<1>c. /\ k \in Changing <=> job[k].at # "reply" /\ Writes(job[k])
      /\ job[k].at \notin {"begin", "reply"} => k \in Changing
  BY <1>j DEF Changing, Writes, TypedJob
<1>1. CASE /\ ReadMove(k) /\ UNCHANGED books /\ job[k].at = "begin"
  <2>1. PICK u : Goes(k, u) /\ u.at = "reply"
    BY <1>1 DEF ReadMove, Ends
  <2> QED BY <1>1, <2>1, EndSafe
<1>2. CASE QuietEnd(k) /\ job[k].at \in {"begin", "write", "reactivate"}
  <2>1. PICK u : Goes(k, u) /\ u.at = "reply"
    BY <1>2 DEF QuietEnd, Ends
  <2> QED BY <1>2, <2>1, EndSafe DEF QuietEnd
<1>3. CASE SaveMove(k)
  <2>1. PICK u : Goes(k, u) /\ u.at = "reply"
    BY <1>3 DEF SaveMove, Ends
  <2>2. PICK c \in Contents :
          disk' = c /\ log' = Append(log, [by |-> k[1], over |-> disk, new |-> c, base |-> None])
    BY <1>3 DEF SaveMove
  <2> DEFINE e == [by |-> k[1], over |-> disk, new |-> c, base |-> None]
  <2>3. e \in Entries /\ e.base = None /\ e.new = c /\ log' = Append(log, e)
    BY <1>j, <2>2 DEF Entries, Values
  <2> HIDE DEF e
  <2>4. Final' = c /\ SeenLog'
    BY <2>3, LogGrows DEF FileSafe
  <2>5. k \in Changing
    BY <1>3, <1>c DEF SaveMove
  <2> QED BY <2>1, <2>2, <2>4, <2>5, LastEnds
<1>4. CASE BeginMove(k)
  <2>1. PICK u : /\ Goes(k, u) /\ u.at = "write" /\ u.before = disk /\ u.base = job[k].base
                 /\ u.base \in {None, disk} /\ job[k].at = "begin" /\ UNCHANGED books
    BY <1>4 DEF BeginMove
  <2>2. k \in Changing
    <3>1. Writes(u)
      BY <2>1 DEF Goes, TypedJob, Writes
    <3> QED BY <1>c, <2>1, <3>1, GoesIs
  <2>3. UNCHANGED <<Final, disk, torn, log>>
    BY <2>1 DEF books, Final
  <2>4. Progress(u)'
    BY <1>j, <2>1, <2>2, <2>3 DEF Progress
  <2> QED BY <2>1, <2>2, <2>3, <2>4, OnSafe
<1>5. CASE WriteMove(k)
  <2>1. PICK u : /\ Goes(k, u) /\ u.at = "check" /\ u.before = job[k].before /\ u.base = job[k].base
                 /\ u.content = job[k].content /\ u.over = disk /\ job[k].at = "write"
                 /\ disk' = job[k].content /\ UNCHANGED <<log, torn, overlap>>
    BY <1>5 DEF WriteMove
  <2>2. k \in Changing
    BY <1>c, <2>1
  <2>3. UNCHANGED Final
    BY <2>1 DEF Final
  <2>4. Progress(u)'
    BY <1>j, <2>1, <2>2, <2>3 DEF Progress
  <2> QED BY <2>1, <2>2, <2>4, OnSafe
<1>6. ASSUME NEW from, NEW to, OnMove(k, from, to), to # "reply",
             \/ from = to
             \/ from = "check" /\ to \in {"activate", "restore"}
             \/ from = "activate" /\ to \in {"health", "restore"}
             \/ from = "health" /\ to = "restore"
      PROVE  FileSafe'
  <2>1. PICK u : Goes(k, u) /\ Carries(k, u) /\ u.at = to /\ job[k].at = from /\ UNCHANGED books
    BY <1>6 DEF OnMove
  <2>2. UNCHANGED <<Final, disk, torn, log>>
    BY <2>1 DEF books, Final
  <2>3. CASE k \in Changing
    <3>1. Progress(u)'
      BY <1>6, <1>j, <2>1, <2>2, <2>3 DEF Progress, Carries
    <3> QED BY <1>6, <2>1, <2>2, <2>3, <3>1, OnSafe
  <2>4. CASE k \notin Changing
    <3>1. ~Writes(job[k])
      BY <1>6, <1>c, <2>1, <2>4
    <3>2. Changing' = Changing /\ \A x \in Changing : job'[x] = job[x]
      BY <2>1, <2>4, <3>1, GoesIs DEF Changing
    <3>3. (\A x \in Changing : Progress(job[x]))'
      <4>1. \A x \in Changing : Progress(job[x])' 
        <5> SUFFICES ASSUME NEW x \in Changing PROVE Progress(job[x])'
          OBVIOUS
        <5>1. Progress(job[x]) /\ job'[x] = job[x]
          BY <3>2 DEF FileSafe
        <5> QED BY <2>2, <5>1 DEF Progress
      <4> QED BY <3>2, <4>1
    <3>4. SeenLog'
      BY <2>2 DEF FileSafe, SeenLog
    <3> QED BY <2>2, <3>2, <3>3, <3>4 DEF FileSafe
  <2> QED BY <2>3, <2>4
<1>7. CASE StaysMove(k)
  <2>1. PICK u : Goes(k, u) /\ u.at = "reply"
    BY <1>7 DEF StaysMove, Ends
  <2> DEFINE e == [by |-> k[1], over |-> job[k].over, new |-> job[k].content, base |-> job[k].base]
  <2>2. job[k].at = "health" /\ disk' = disk /\ log' = Append(log, e)
    BY <1>7 DEF StaysMove
  <2>3. k \in Changing
    BY <1>c, <2>2
  <2>4. disk = job[k].content /\ job[k].base \in {None, job[k].over}
    BY <1>j, <2>2, <2>3 DEF Progress
  <2>5. e \in Entries /\ (e.base # None => e.over = e.base) /\ e.new = disk
    BY <1>j, <2>4 DEF Entries, TypedJob
  <2> HIDE DEF e
  <2>6. Final' = disk /\ SeenLog'
    BY <2>2, <2>5, LogGrows DEF FileSafe
  <2> QED BY <2>1, <2>2, <2>3, <2>6, LastEnds
<1>8. CASE RestoreMove(k)
  <2>1. PICK u : /\ Goes(k, u) /\ Carries(k, u) /\ u.at = "reactivate" /\ job[k].at = "restore"
                 /\ disk' = job[k].before /\ UNCHANGED <<log, torn, overlap>>
    BY <1>8 DEF RestoreMove
  <2>2. k \in Changing
    BY <1>c, <2>1
  <2>3. UNCHANGED Final
    BY <2>1 DEF Final
  <2>4. Progress(u)'
    BY <1>j, <2>1, <2>2, <2>3 DEF Progress
  <2> QED BY <2>1, <2>2, <2>4, OnSafe
<1>9. CASE TornMove(k)
  <2>1. PICK u : Goes(k, u) /\ u.at = "reply"
    BY <1>9 DEF TornMove
  <2>2. torn' = TRUE /\ UNCHANGED log /\ k \in Changing
    BY <1>9, <1>c DEF TornMove
  <2>3. SeenLog'
    BY <2>2 DEF FileSafe, SeenLog
  <2> QED BY <2>1, <2>2, <2>3, LastEnds
<1> QED BY <1>1, <1>2, <1>3, <1>4, <1>5, <1>6, <1>7, <1>8, <1>9 DEF Moves

\* The changes at the agent, and the file with its history, are the same.
LEMMA SameSafe ==
  ASSUME FileSafe, UNCHANGED <<disk, log, torn>>, Changing' = Changing,
         \A k \in Changing :
           /\ job'[k].at = job[k].at /\ job'[k].content = job[k].content /\ job'[k].base = job[k].base
           /\ job'[k].before = job[k].before /\ job'[k].over = job[k].over
  PROVE  FileSafe'
<1>1. UNCHANGED Final
  BY DEF Final
<1>2. \A k \in Changing : Progress(job[k])'
  <2> SUFFICES ASSUME NEW k \in Changing PROVE Progress(job[k])'
    OBVIOUS
  <2>1. Progress(job[k])
    BY DEF FileSafe
  <2> QED BY <1>1, <2>1 DEF Progress
<1>3. SeenLog'
  BY DEF FileSafe, SeenLog
<1>4. (\A k \in Changing : Progress(job[k]))'
  BY <1>2
<1> QED BY <1>1, <1>3, <1>4 DEF FileSafe

\* No change is at work, and the file is what it should be.
LEMMA RestSafe ==
  ASSUME Changing' = {}, SeenLog', ~torn' => disk' = Final'
  PROVE  FileSafe'
BY DEF FileSafe

\* A command reaches the agent: a change finds no other, or is noted.
LEMMA ArriveSafe ==
  ASSUME RowsInv, FileSafe, NEW k \in Ids, Arrive(k), "ran" \notin overlap'
  PROVE  FileSafe'
<1>0. /\ k[1] \in Requests /\ (k = Cmd(k[1]) \/ k = Snap(k[1]))
      /\ k = Snap(k[1]) => k[2] = "snap"
  BY IdsAre
<1>1. PICK c : c = IF k = Snap(k[1]) THEN [Idle EXCEPT !.op = "read"] ELSE req[k[1]].cmd
  OBVIOUS
<1> DEFINE u == [at |-> "begin", op |-> c.op, content |-> c.content, base |-> c.base,
                 dry |-> c.dry, action |-> c.action, ctx |-> "live", before |-> None,
                 over |-> None, status |-> None]
<1>2. /\ k \in down /\ job' = With(job, k, u) /\ UNCHANGED <<disk, log, torn>>
      /\ NoteOverlap(c)
  BY <1>1 DEF Arrive, Set, hostv
<1>3. Writes(u) <=> Writes(c)
  BY DEF Writes
<1>4. u.at = "begin"
  OBVIOUS
<1> HIDE DEF u
<1>5. /\ DOMAIN job' = DOMAIN job \cup {k} /\ job'[k] = u
      /\ \A x \in DOMAIN job \ {k} : job'[x] = job[x]
  BY <1>2 DEF With
<1>6. k \notin Changing
  <2>1. CASE k = Cmd(k[1])
    <3>1. RowInv(k[1])
      BY <1>0 DEF RowsInv
    <3> QED BY <1>2, <2>1, <3>1 DEF RowInv, Changing
  <2>2. CASE k = Snap(k[1])
    <3>1. k \in DOMAIN job => TypedJob(k, job[k])
      BY DEF RowsInv, ConnTypes
    <3> QED BY <1>0, <2>2, <3>1 DEF TypedJob, Changing, Writes
  <2> QED BY <1>0, <2>1, <2>2
<1>7. \A x \in DOMAIN job \ {k} : x \in Changing' <=> x \in Changing
  BY <1>5 DEF Changing, Writes
<1>8. k \in Changing' <=> Writes(c)
  BY <1>3, <1>4, <1>5 DEF Changing, Writes
<1>9. Changing \subseteq DOMAIN job /\ Changing' \subseteq DOMAIN job \cup {k}
  BY <1>5 DEF Changing
<1>10. CASE Writes(c)
  <2>1. Changing = {}
    BY <1>2, <1>10 DEF NoteOverlap
  <2>2. Changing' = {k}
    BY <1>7, <1>8, <1>9, <1>10, <2>1
  <2>3. UNCHANGED Final
    BY <1>2 DEF Final
  <2>4. Progress(u)'
    BY <1>2, <1>4, <2>1, <2>3 DEF FileSafe, Progress
  <2>5. (\A x \in Changing : Progress(job[x]))'
    BY <1>5, <2>2, <2>4
  <2>6. SeenLog'
    BY <1>2 DEF FileSafe, SeenLog
  <2> QED BY <2>2, <2>5, <2>6 DEF FileSafe
<1>11. CASE ~Writes(c)
  <2>1. Changing' = Changing /\ \A x \in Changing : job'[x] = job[x]
    BY <1>5, <1>6, <1>7, <1>8, <1>9, <1>11
  <2> QED BY <1>2, <2>1, SameSafe
<1> QED BY <1>10, <1>11

LEMMA FileStep ==
  ASSUME FileInv, [Next]_(vars)
  PROVE  FileInv'
<1>1. RowsInv /\ RowsInv' /\ ConnTypes
  BY RowsStep DEF FileInv, RowsInv
<1> SUFFICES ASSUME "ran" \notin overlap' PROVE FileSafe'
  BY <1>1 DEF FileInv
<1>2. ASSUME NEW k \in DOMAIN job, Moves(k)
      PROVE  FileSafe'
  <2>1. overlap' = overlap
    BY <1>2 DEF Moves, ReadMove, SaveMove, QuietEnd, BeginMove, WriteMove, OnMove, StaysMove,
           RestoreMove, TornMove, books
  <2>2. FileSafe
    BY <2>1 DEF FileInv
  <2> QED BY <1>1, <1>2, <2>2, MoveSafe
<1>3. ASSUME NEW k \in Ids, Arrive(k)
      PROVE  FileSafe'
  <2>1. "ran" \notin overlap
    BY <1>3 DEF Arrive, NoteOverlap
  <2>2. FileSafe
    BY <2>1 DEF FileInv
  <2> QED BY <1>1, <1>3, <2>2, ArriveSafe
<1>4. ASSUME NEW k \in DOMAIN job, Reply(k)
      PROVE  FileSafe'
  <2>1. /\ job[k].at = "reply" /\ job' = Without(job, {k}) /\ UNCHANGED <<disk, log, torn, overlap>>
    BY <1>4 DEF Reply, hostv
  <2>2. DOMAIN job' = DOMAIN job \ {k} /\ \A x \in DOMAIN job \ {k} : job'[x] = job[x]
    BY <2>1 DEF Without
  <2>3. Changing' = Changing /\ k \notin Changing
    <3>1. k \notin Changing /\ k \notin Changing'
      BY <2>1, <2>2 DEF Changing
    <3>2. \A x \in DOMAIN job \ {k} : x \in Changing' <=> x \in Changing
      BY <2>2 DEF Changing, Writes
    <3>3. Changing \subseteq DOMAIN job /\ Changing' \subseteq DOMAIN job
      BY <2>2 DEF Changing
    <3> QED BY <3>1, <3>2, <3>3
  <2>4. \A x \in Changing : job'[x] = job[x]
    BY <2>2, <2>3 DEF Changing
  <2>5. FileSafe
    BY <2>1 DEF FileInv
  <2> QED BY <2>1, <2>3, <2>4, <2>5, SameSafe
<1>5. ASSUME NEW c \in Contents, EditByHand(c)
      PROVE  FileSafe'
  <2>1. /\ disk' = c /\ log' = Append(log, [by |-> 0, over |-> disk, new |-> c, base |-> None])
        /\ overlap' = IF Changing # {} THEN overlap \cup {"ran"} ELSE overlap
        /\ job' = job /\ torn' = torn
    BY <1>5 DEF EditByHand
  <2>2. Changing = {} /\ "ran" \notin overlap
    BY <2>1
  <2>3. Changing' = {} /\ FileSafe
    BY <2>1, <2>2 DEF Changing, Writes, FileInv
  <2> DEFINE e == [by |-> 0, over |-> disk, new |-> c, base |-> None]
  <2>4. e \in Entries /\ e.base = None /\ e.new = c /\ log' = Append(log, e)
    BY <1>1, <2>1 DEF Entries, Values, ConnTypes
  <2> HIDE DEF e
  <2>5. Final' = c /\ SeenLog'
    BY <1>1, <2>3, <2>4, LogGrows DEF FileSafe
  <2> QED BY <2>1, <2>3, <2>5, RestSafe
<1>6. CASE Drop \/ GatewayCrash
  <2>1. job' = CutAll /\ UNCHANGED <<disk, log, torn, overlap>>
    BY <1>6 DEF Drop, GatewayCrash, hostv, history
  <2>2. /\ DOMAIN job' = DOMAIN job
        /\ \A k \in DOMAIN job : /\ job'[k].at = job[k].at /\ job'[k].content = job[k].content
                                 /\ job'[k].base = job[k].base /\ job'[k].before = job[k].before
                                 /\ job'[k].over = job[k].over /\ job'[k].op = job[k].op
                                 /\ job'[k].dry = job[k].dry /\ job'[k].action = job[k].action
    BY <1>1, <2>1, CutTypes
  <2>3. Changing' = Changing
    BY <2>2 DEF Changing, Writes
  <2>4. FileSafe /\ Changing \subseteq DOMAIN job
    BY <2>1 DEF FileInv, Changing
  <2> QED BY <2>1, <2>2, <2>3, <2>4, SameSafe
<1>7. CASE AgentCrash
  <2>1. DOMAIN job' = {} /\ torn' = (torn \/ Changing # {}) /\ UNCHANGED <<disk, log, overlap>>
    BY <1>7 DEF AgentCrash, hostv
  <2>2. FileSafe /\ Changing' = {} /\ Final' = Final
    BY <2>1 DEF FileInv, Changing, Final
  <2>3. SeenLog'
    BY <2>1, <2>2 DEF FileSafe, SeenLog
  <2>4. ~torn' => disk' = Final'
    BY <2>1, <2>2 DEF FileSafe
  <2> QED BY <2>2, <2>3, <2>4, RestSafe
<1>8. CASE \/ \E i \in Requests : Handler(i) \/ Asks(i)
           \/ \E m \in back : Receive(m)
           \/ Nothing
  <2>1. UNCHANGED <<disk, log, torn, job>> /\ ("ran" \in overlap => "ran" \in overlap')
    BY <1>8 DEF Handler, SnapshotBefore, SnapshotReply, SnapshotTimeout,
           StartOperation, Dispatch, DispatchReply, DispatchTimeout, Receive,
           hostv, history, Asks, Nothing
  <2>2. FileSafe /\ Changing' = Changing
    BY <2>1 DEF FileInv, Changing, Writes
  <2> QED BY <2>1, <2>2, SameSafe
<1> QED BY <1>1, <1>2, <1>3, <1>4, <1>5, <1>6, <1>7, <1>8, StepKinds

LEMMA FileInit ==
  ASSUME Init
  PROVE  FileInv
<1>1. RowsInv
  BY RowsInit
<1>2. /\ DOMAIN job = {} /\ disk = Original
      /\ log = << [by |-> 0, over |-> None, new |-> Original, base |-> None] >>
  BY DEF Init
<1>3. Final = Original /\ SeenLog
  BY <1>2 DEF Final, Last, SeenLog
<1>4. Changing = {}
  BY <1>2 DEF Changing
<1> QED BY <1>1, <1>2, <1>3, <1>4 DEF FileInv, FileSafe

-----------------------------------------------------------------------------
(***************************************************************************)
(* What can be undone.  Requests are taken up in their order.  While none  *)
(* was made in the middle of something and nobody edited the file by hand, *)
(* the latest request is alone: the file is what its snapshot says until   *)
(* its own command changes it.                                             *)
(***************************************************************************)
Busy == down \cup DOMAIN job \cup {m.id : m \in back}
Latest(i) == \A l \in Requests : l > i => req[l].at = "idle"

Ordered ==
  /\ \A i, l \in Requests : i < l /\ req[i].at = "idle" => req[l].at = "idle"
  /\ \A i \in Requests : req[i].at \in {"idle", "snap"} => Snap(i) \notin Busy \cup DOMAIN box
  /\ \A i \in Requests : saved[i] # None => req[i].at \notin {"idle", "snap", "snapwait"}
  /\ \A n \in DOMAIN log : log[n].by # 0 => req[log[n].by].at \notin Before

Alone ==
  /\ \A k \in Busy : Latest(k[1])
  /\ \A i \in Requests : req[i].at \notin Over => Latest(i)

\* What has been read for the snapshot of request i.
ReadBack(i) ==
  req[i].at = "snapwait" =>
    /\ Snap(i) \in DOMAIN job /\ job[Snap(i)].at = "reply" => job[Snap(i)].content = disk
    /\ \A m \in back : m.id = Snap(i) => m.content = disk
    /\ Snap(i) \in DOMAIN box /\ box[Snap(i)] # None => box[Snap(i)].content = disk

\* The snapshot of request i is of the file that its command replaces.
Intact(i) ==
  saved[i] # None =>
    /\ req[i].at \in {"start", "send"} \/ Cmd(i) \in down => disk = saved[i]
    /\ Cmd(i) \in DOMAIN job =>
         /\ job[Cmd(i)].at \in {"begin", "write"} => disk = saved[i]
         /\ job[Cmd(i)].at \in {"check", "activate", "health"} => job[Cmd(i)].over = saved[i]

Booked(i) == saved[i] # None => \A n \in DOMAIN log : log[n].by = i => log[n].over = saved[i]

\* It is in the table, with no more above it than were taken since.
Tabled(i) ==
  saved[i] # None =>
    \/ Cardinality(Since(i)) > Keep
    \/ \E p \in 1..Len(snaps) :
         snaps[p] = saved[i] /\ Len(snaps) - p + 1 <= Cardinality(Since(i))

Calm == overlap = {} /\ ~ByHand

Undoable == Alone /\ \A i \in Requests : ReadBack(i) /\ Intact(i) /\ Booked(i) /\ Tabled(i)

UndoInv == FileInv /\ Ordered /\ (Calm => Undoable)

LEMMA RequestsAre ==
  Requests \subseteq Nat /\ 0 \notin Requests /\ MaxRequests \in Nat
BY ConnectorsAssumption DEF ConnectorsAssumption, Requests

\* What is under way is of the latest request.
LEMMA OnlyOne ==
  ASSUME RowsInv, Ordered, Alone,
         NEW i \in Requests, req[i].at # "idle", Latest(i), NEW k \in Busy
  PROVE  k[1] = i /\ (k = Cmd(i) \/ k = Snap(i))
<1>1. k \in Ids
  BY DEF Busy, RowsInv, ConnTypes, TypedReply
<1>2. k[1] \in Requests /\ (k = Cmd(k[1]) \/ k = Snap(k[1]))
  BY <1>1, IdsAre
<1>3. PICK l \in Requests : l = k[1]
  BY <1>2
<1>4. req[l].at # "idle"
  <2>1. CASE k = Snap(l)
    BY <2>1 DEF Ordered
  <2>2. CASE k = Cmd(l)
    <3>1. RowInv(l)
      BY DEF RowsInv
    <3>2. req[l].at \in Before => k \notin down \cup DOMAIN job /\ \A m \in back : m.id # k
      BY <2>2, <3>1 DEF RowInv, Unanswered
    <3> QED BY <3>2 DEF Before, Busy
  <2> QED BY <1>2, <1>3, <2>1, <2>2
<1>5. Latest(l)
  BY <1>3 DEF Alone
<1>6. i = l
  BY <1>4, <1>5, RequestsAre DEF Latest
<1> QED BY <1>2, <1>3, <1>6

\* How requests go on once they are made.
AtMove(i) ==
  \/ req'[i].at = req[i].at
  \/ req[i].at = "snap" /\ req'[i].at \in {"snapwait", "start"}
  \/ req[i].at = "snapwait" /\ req'[i].at = "start"
  \/ req[i].at = "start" /\ req'[i].at = "send"
  \/ req[i].at = "send" /\ req'[i].at \in {"wait", "done"}
  \/ req[i].at = "wait" /\ req'[i].at = "done"
  \/ req[i].at \notin Over /\ req'[i].at = "lost"

\* Then their order stays, and what is known of those that go on.
LEMMA OrderStays ==
  ASSUME ConnTypes, Ordered, \A i \in Requests : AtMove(i),
         \A i \in Requests :
           req'[i].at \in {"idle", "snap"} =>
             (Snap(i) \in Busy' \cup DOMAIN box' => Snap(i) \in Busy \cup DOMAIN box),
         \A i \in Requests : saved'[i] = saved[i] \/ req'[i].at = "start",
         log' = log \/ \E e \in Entries : log' = Append(log, e) /\ (e.by # 0 => req[e.by].at \notin Before)
  PROVE  Ordered' /\ \A i \in Requests : Latest(i) => Latest(i)'
<1>1. \A i \in Requests : req'[i].at = "idle" <=> req[i].at = "idle"
  BY DEF AtMove, Over
<1>2. \A i \in Requests : req'[i].at \in {"idle", "snap"} => req'[i].at = req[i].at
  BY DEF AtMove
<1>3. \A i \in Requests : req'[i].at \in Before => req[i].at \in Before
  BY DEF AtMove, Before
<1>4. \A i \in Requests : saved'[i] # None => req'[i].at \notin {"idle", "snap", "snapwait"}
  BY DEF AtMove, Ordered
<1>5. \A n \in DOMAIN log' : log'[n].by # 0 => req'[log'[n].by].at \notin Before
  <2>1. log \in Seq(Entries) /\ Len(log) \in Nat /\ DOMAIN log = 1..Len(log)
    BY LenProperties DEF ConnTypes
  <2>2. \A n \in DOMAIN log : log[n].by # 0 => req'[log[n].by].at \notin Before
    <3> SUFFICES ASSUME NEW n \in DOMAIN log, log[n].by # 0 PROVE req'[log[n].by].at \notin Before
      OBVIOUS
    <3>1. log[n] \in Entries
      BY <2>1, ElementOfSeq
    <3>2. log[n].by \in Requests
      BY <3>1 DEF Entries
    <3>3. req[log[n].by].at \notin Before
      BY DEF Ordered
    <3> QED BY <1>3, <3>2, <3>3
  <2>3. CASE log' = log
    BY <2>2, <2>3
  <2>4. CASE log' # log
    <3>1. PICK e \in Entries : log' = Append(log, e) /\ (e.by # 0 => req[e.by].at \notin Before)
      BY <2>4
    <3>2. e.by # 0 => req'[e.by].at \notin Before
      BY <1>3, <3>1 DEF Entries
    <3>3. /\ DOMAIN log' = 1..(Len(log) + 1) /\ log'[Len(log) + 1] = e
          /\ \A n \in 1..Len(log) : log'[n] = log[n]
      BY <3>1, LogIs
    <3> QED BY <2>1, <2>2, <3>2, <3>3
  <2> QED BY <2>3, <2>4
<1>6. \A i, l \in Requests : i < l /\ req'[i].at = "idle" => req'[l].at = "idle"
  BY <1>1 DEF Ordered
<1>7. \A i \in Requests : req'[i].at \in {"idle", "snap"} => Snap(i) \notin Busy' \cup DOMAIN box'
  BY <1>2 DEF Ordered
<1>8. Ordered'
  BY <1>4, <1>5, <1>6, <1>7 DEF Ordered, Requests, Snap
<1>9. \A i \in Requests : Latest(i) => Latest(i)'
  BY <1>1 DEF Latest, Requests
<1> QED BY <1>8, <1>9

\* Nothing excuses a later state that did not excuse an earlier one.
LEMMA CalmBefore ==
  ASSUME ConnTypes, overlap' = {} => overlap = {},
         log' = log \/ \E e \in Entries : log' = Append(log, e), Calm'
  PROVE  Calm
<1>1. overlap = {} /\ ~ByHand'
  BY DEF Calm
<1>2. CASE log' = log
  BY <1>1, <1>2 DEF Calm, ByHand
<1>3. ASSUME NEW e \in Entries, log' = Append(log, e)
      PROVE  ~ByHand
  <2>1. /\ Len(log) \in Nat /\ DOMAIN log = 1..Len(log) /\ DOMAIN log' = 1..(Len(log) + 1)
        /\ \A n \in 1..Len(log) : log'[n] = log[n]
    BY <1>3, LogIs
  <2> QED BY <1>1, <2>1 DEF ByHand
<1> QED BY <1>1, <1>2, <1>3 DEF Calm

\* The command that reads for a snapshot.
LEMMA SnapMoves ==
  ASSUME ConnTypes, NEW k \in DOMAIN job, k[2] = "snap", Moves(k)
  PROVE  /\ disk' = disk /\ log' = log
         /\ job'[k].at = "reply" => job'[k].content = disk
<1>1. TypedJob(k, job[k]) /\ job[k].op = "read" /\ job[k].at \in {"begin", "reply"}
      /\ ~Writes(job[k])
  BY DEF ConnTypes, TypedJob, Writes
<1>2. CASE ReadMove(k) /\ UNCHANGED books
  <2>1. PICK u : Goes(k, u) /\ u.at = "reply" /\ u.content = disk
    BY <1>1, <1>2 DEF ReadMove, Ends
  <2> QED BY <1>2, <2>1, GoesIs DEF books
<1>3. CASE SaveMove(k)
  BY <1>1, <1>3 DEF SaveMove
<1>4. CASE BeginMove(k)
  <2>1. PICK u : Goes(k, u) /\ u.at = "write"
    BY <1>4 DEF BeginMove
  <2> QED BY <1>1, <2>1 DEF Goes, TypedJob
<1>5. CASE \E at : at # "reply" /\ OnMove(k, at, at)
  <2>1. PICK at : at # "reply" /\ OnMove(k, at, at)
    BY <1>5
  <2>2. PICK u : Goes(k, u) /\ Carries(k, u) /\ u.at = at /\ job[k].at = at /\ UNCHANGED books
    BY <2>1 DEF OnMove
  <2> QED BY <2>1, <2>2, GoesIs DEF books
<1>6. CASE WriteMove(k) \/ StaysMove(k) \/ RestoreMove(k) \/ TornMove(k)
  BY <1>1, <1>6 DEF WriteMove, StaysMove, RestoreMove, TornMove
<1>7. CASE \/ OnMove(k, "check", "activate") \/ OnMove(k, "check", "restore")
           \/ OnMove(k, "activate", "health") \/ OnMove(k, "activate", "restore")
           \/ OnMove(k, "health", "restore")
  BY <1>1, <1>7 DEF OnMove
<1> QED BY <1>1, <1>2, <1>3, <1>4, <1>5, <1>6, <1>7 DEF Moves

\* What a step of a command does to the file, what it has noted, and the history.
LEMMA CmdMoves ==
  ASSUME ConnTypes, NEW k \in DOMAIN job, Moves(k)
  PROVE  /\ job'[k].at \in {"begin", "write"} => job[k].at \in {"begin", "write"} /\ disk' = disk
         /\ job'[k].at \in {"check", "activate", "health"} =>
              \/ job[k].at \in {"check", "activate", "health"} /\ job'[k].over = job[k].over
              \/ job[k].at = "write" /\ job'[k].over = disk
         /\ \/ log' = log
            \/ \E e \in Entries :
                 /\ log' = Append(log, e) /\ e.by = k[1]
                 /\ \/ job[k].at = "begin" /\ e.over = disk
                    \/ job[k].at = "health" /\ e.over = job[k].over
         /\ overlap' = overlap
<1>0. TypedJob(k, job[k]) /\ k[1] \in Requests /\ disk \in Contents
  BY IdsAre DEF ConnTypes
<1> DEFINE Conc ==
  /\ job'[k].at \in {"begin", "write"} => job[k].at \in {"begin", "write"} /\ disk' = disk
  /\ job'[k].at \in {"check", "activate", "health"} =>
       \/ job[k].at \in {"check", "activate", "health"} /\ job'[k].over = job[k].over
       \/ job[k].at = "write" /\ job'[k].over = disk
<1>1. ASSUME ReadMove(k) \/ QuietEnd(k) \/ SaveMove(k) \/ StaysMove(k) \/ TornMove(k) PROVE Conc
  <2>1. PICK u : Goes(k, u) /\ u.at = "reply"
    BY <1>1 DEF ReadMove, QuietEnd, SaveMove, StaysMove, TornMove, Ends
  <2>2. job'[k].at = "reply"
    BY <2>1, GoesIs
  <2> QED BY <2>2
<1>2. ASSUME BeginMove(k) PROVE Conc
  <2>1. PICK u : /\ Goes(k, u) /\ u.at = "write" /\ u.before = disk /\ u.base = job[k].base
                 /\ u.base \in {None, disk} /\ job[k].at = "begin" /\ UNCHANGED books
    BY <1>2 DEF BeginMove
  <2>2. job'[k] = u
    BY <2>1, GoesIs
  <2> QED BY <2>1, <2>2 DEF books
<1>3. ASSUME WriteMove(k) PROVE Conc
  <2>1. PICK u : /\ Goes(k, u) /\ u.at = "check" /\ u.before = job[k].before /\ u.base = job[k].base
                 /\ u.content = job[k].content /\ u.over = disk /\ job[k].at = "write"
                 /\ disk' = job[k].content /\ UNCHANGED <<log, torn, overlap>>
    BY <1>3 DEF WriteMove
  <2>2. job'[k] = u
    BY <2>1, GoesIs
  <2> QED BY <2>1, <2>2
<1>4. ASSUME RestoreMove(k) PROVE Conc
  <2>1. PICK u : /\ Goes(k, u) /\ Carries(k, u) /\ u.at = "reactivate" /\ job[k].at = "restore"
                 /\ disk' = job[k].before /\ UNCHANGED <<log, torn, overlap>>
    BY <1>4 DEF RestoreMove
  <2>2. job'[k] = u
    BY <2>1, GoesIs
  <2> QED BY <2>1, <2>2
<1>5. ASSUME NEW from, NEW to, OnMove(k, from, to),
             \/ from = to
             \/ from = "check" /\ to \in {"activate", "restore"}
             \/ from = "activate" /\ to \in {"health", "restore"}
             \/ from = "health" /\ to = "restore"
      PROVE  Conc
  <2>1. PICK u : Goes(k, u) /\ Carries(k, u) /\ u.at = to /\ job[k].at = from /\ UNCHANGED books
    BY <1>5 DEF OnMove
  <2>2. job'[k] = u
    BY <2>1, GoesIs
  <2> QED BY <1>5, <2>1, <2>2 DEF books, Carries
<1>6. Conc
  BY <1>1, <1>2, <1>3, <1>4, <1>5 DEF Moves
<1>7. \/ log' = log
      \/ \E e \in Entries :
           /\ log' = Append(log, e) /\ e.by = k[1]
           /\ \/ job[k].at = "begin" /\ e.over = disk
              \/ job[k].at = "health" /\ e.over = job[k].over
  <2>1. CASE SaveMove(k)
    <3>1. PICK c \in Contents : log' = Append(log, [by |-> k[1], over |-> disk, new |-> c, base |-> None])
      BY <2>1 DEF SaveMove
    <3> DEFINE e == [by |-> k[1], over |-> disk, new |-> c, base |-> None]
    <3>2. e \in Entries /\ e.by = k[1] /\ e.over = disk /\ log' = Append(log, e) /\ job[k].at = "begin"
      BY <1>0, <2>1, <3>1 DEF Entries, Values, SaveMove
    <3> HIDE DEF e
    <3> QED BY <3>2
  <2>2. CASE StaysMove(k)
    <3> DEFINE e == [by |-> k[1], over |-> job[k].over, new |-> job[k].content, base |-> job[k].base]
    <3>1. log' = Append(log, e) /\ job[k].at = "health"
      BY <2>2 DEF StaysMove
    <3>2. e \in Entries /\ e.by = k[1] /\ e.over = job[k].over
      BY <1>0 DEF Entries, TypedJob
    <3> HIDE DEF e
    <3> QED BY <3>1, <3>2
  <2>3. CASE ~SaveMove(k) /\ ~StaysMove(k)
    BY <2>3 DEF Moves, QuietEnd, BeginMove, WriteMove, OnMove, RestoreMove, TornMove, books
  <2> QED BY <2>1, <2>2, <2>3
<1>8. overlap' = overlap
  BY DEF Moves, ReadMove, SaveMove, QuietEnd, BeginMove, WriteMove, OnMove, StaysMove,
         RestoreMove, TornMove, books
<1> QED BY <1>6, <1>7, <1>8

\* The table and what it is compared with are the same.
LEMMA TableStays ==
  ASSUME NEW i, UNCHANGED <<snaps, saved>>, Tabled(i)
  PROVE  Tabled(i)'
BY DEF Tabled, Since

\* So is the history, or it has one more entry.
LEMMA BookStays ==
  ASSUME ConnTypes, NEW i \in Requests, Booked(i), saved'[i] = saved[i],
         \/ log' = log
         \/ \E e \in Entries : log' = Append(log, e) /\ (e.by = i /\ saved[i] # None => e.over = saved[i])
  PROVE  Booked(i)'
<1>1. CASE log' = log
  BY <1>1 DEF Booked
<1>2. ASSUME NEW e \in Entries, log' = Append(log, e), e.by = i /\ saved[i] # None => e.over = saved[i]
      PROVE  Booked(i)'
  <2>1. /\ Len(log) \in Nat /\ DOMAIN log = 1..Len(log) /\ DOMAIN log' = 1..(Len(log) + 1)
        /\ \A n \in 1..Len(log) : log'[n] = log[n]
        /\ log'[Len(log) + 1] = e
    BY <1>2, LogIs
  <2>2. SUFFICES ASSUME saved[i] # None, NEW n \in 1..(Len(log) + 1), log'[n].by = i
                 PROVE  log'[n].over = saved[i]
    BY <2>1 DEF Booked
  <2>3. CASE n = Len(log) + 1
    BY <1>2, <2>1, <2>2, <2>3
  <2>4. CASE n # Len(log) + 1
    <3>1. n \in DOMAIN log /\ log'[n] = log[n]
      BY <2>1, <2>4
    <3> QED BY <2>2, <3>1 DEF Booked
  <2> QED BY <2>3, <2>4
<1> QED BY <1>1, <1>2

\* Who is alone stays alone.
LEMMA AloneStays ==
  ASSUME Alone, \A k \in Busy' : \E l \in Busy : l[1] = k[1],
         \A i \in Requests : Latest(i) => Latest(i)',
         \A k \in Busy' : k[1] \in Requests,
         \A i \in Requests : req'[i].at \notin Over => req[i].at \notin Over
  PROVE  Alone'
<1>1. \A k \in Busy' : Latest(k[1])'
  BY DEF Alone
<1>2. \A i \in Requests : req'[i].at \notin Over => Latest(i)'
  BY DEF Alone
<1> QED BY <1>1, <1>2 DEF Alone, Requests, Over

\* What is under way has an id.
LEMMA BusyIds ==
  ASSUME ConnTypes
  PROVE  Busy \subseteq Ids /\ \A k \in Busy : k[1] \in Requests
<1>1. Busy \subseteq Ids
  BY DEF Busy, ConnTypes, TypedReply
<1> QED BY <1>1, IdsAre

LEMMA UndoMove ==
  ASSUME UndoInv, NEW k \in DOMAIN job, Moves(k)
  PROVE  Ordered' /\ (Calm' => Undoable')
<1>0. RowsInv /\ ConnTypes /\ Ordered /\ k \in Busy /\ k \in Ids
      /\ k[1] \in Requests /\ (k = Cmd(k[1]) \/ k = Snap(k[1]))
  BY IdsAre DEF UndoInv, FileInv, RowsInv, Busy, ConnTypes
<1>1. PICK u : Goes(k, u)
  BY DEF Moves, ReadMove, SaveMove, QuietEnd, BeginMove, WriteMove, OnMove, StaysMove, RestoreMove,
         TornMove, Ends
<1>2. /\ UNCHANGED <<box, down, back, req, snaps, saved>> /\ DOMAIN job' = DOMAIN job
      /\ \A x \in DOMAIN job \ {k} : job'[x] = job[x]
  BY <1>1, GoesIs DEF Goes, others
<1>3. Busy' = Busy
  BY <1>2 DEF Busy
<1>4. k[2] = "snap" => disk' = disk /\ log' = log /\ (job'[k].at = "reply" => job'[k].content = disk)
  BY <1>0, SnapMoves
<1>5. /\ job'[k].at \in {"begin", "write"} => job[k].at \in {"begin", "write"} /\ disk' = disk
      /\ job'[k].at \in {"check", "activate", "health"} =>
           \/ job[k].at \in {"check", "activate", "health"} /\ job'[k].over = job[k].over
           \/ job[k].at = "write" /\ job'[k].over = disk
      /\ \/ log' = log
         \/ \E e \in Entries :
              /\ log' = Append(log, e) /\ e.by = k[1]
              /\ \/ job[k].at = "begin" /\ e.over = disk
                 \/ job[k].at = "health" /\ e.over = job[k].over
      /\ overlap' = overlap
  BY <1>0, CmdMoves
<1>6. /\ k = Snap(k[1]) => k[2] = "snap"
      /\ k = Cmd(k[1]) => req[k[1]].at \notin Before /\ k \notin down
  <2>1. RowInv(k[1])
    BY <1>0 DEF RowsInv
  <2> QED BY <1>0, <2>1, IdsAre DEF RowInv
<1>7. log' = log \/ \E e \in Entries : log' = Append(log, e) /\ (e.by # 0 => req[e.by].at \notin Before)
  BY <1>0, <1>4, <1>5, <1>6
<1>8. Ordered' /\ \A i \in Requests : Latest(i) => Latest(i)'
  <2>1. \A i \in Requests : AtMove(i)
    BY <1>2 DEF AtMove
  <2> QED BY <1>0, <1>2, <1>3, <1>7, <2>1, OrderStays
<1>9. ASSUME Calm'
      PROVE  Undoable'
  <2>1. Undoable
    BY <1>0, <1>5, <1>7, <1>9, CalmBefore DEF UndoInv
  <2>2. Alone'
    BY <1>0, <1>2, <1>3, <1>8, <2>1, AloneStays, BusyIds DEF Undoable
  <2>3. ASSUME NEW i \in Requests
        PROVE  (ReadBack(i) /\ Intact(i) /\ Booked(i) /\ Tabled(i))'
    <3>1. Alone /\ ReadBack(i) /\ Intact(i) /\ Booked(i) /\ Tabled(i) /\ RowInv(i)
      BY <1>0, <2>1 DEF Undoable, RowsInv
    <3>2. Cmd(i) # Snap(i) /\ Snap(i)[2] = "snap"
      BY IdsAre
    <3>3. req[i].at \notin Over \/ Cmd(i) \in Busy => k \in {Cmd(i), Snap(i)}
      <4>1. CASE req[i].at \notin Over
        BY <1>0, <3>1, <4>1, OnlyOne DEF Alone, Over
      <4>2. CASE Cmd(i) \in Busy
        <5>1. req[i].at # "idle"
          BY <3>1, <4>2 DEF RowInv, Before, Unanswered, Busy
        <5>2. Latest(i)
          BY <3>1, <4>2, IdsAre DEF Alone
        <5> QED BY <1>0, <3>1, <5>1, <5>2, OnlyOne
      <4> QED BY <4>1, <4>2
    <3>4. req[i].at \in Before => Cmd(i) \notin DOMAIN job /\ Cmd(i) \notin down
      BY <3>1 DEF RowInv
    <3>5. ReadBack(i)'
      <4>1. CASE req[i].at = "snapwait"
        <5>1. k = Snap(i)
          BY <3>3, <3>4, <4>1 DEF Before, Over
        <5> QED BY <1>2, <1>4, <3>1, <3>2, <5>1 DEF ReadBack, Snap
      <4>2. CASE req[i].at # "snapwait"
        BY <1>2, <4>2 DEF ReadBack
      <4> QED BY <4>1, <4>2
    <3>6. Intact(i)'
      <4>1. CASE k = Snap(i)
        <5>1. disk' = disk /\ (Cmd(i) \in DOMAIN job => job'[Cmd(i)] = job[Cmd(i)])
          BY <1>2, <1>4, <3>2, <4>1
        <5> QED BY <1>2, <1>4, <3>1, <3>2, <4>1, <5>1 DEF Intact, Cmd
      <4>2. CASE k = Cmd(i)
        <5>1. req[i].at \notin Before /\ k \notin down
          BY <1>6, <4>2, IdsAre
        <5>2. ~(req[i].at \in {"start", "send"})
          BY <5>1 DEF Before
        <5> QED BY <1>2, <1>5, <3>1, <4>2, <5>1, <5>2 DEF Intact, Cmd
      <4>3. CASE k \notin {Cmd(i), Snap(i)}
        <5>1. Cmd(i) \notin down /\ Cmd(i) \notin DOMAIN job /\ req[i].at \notin {"start", "send"}
          BY <3>3, <4>3 DEF Busy, Over
        <5> QED BY <1>2, <5>1 DEF Intact, Cmd
      <4> QED BY <4>1, <4>2, <4>3
    <3>7. Booked(i)'
      <4>1. \/ log' = log
            \/ \E e \in Entries : log' = Append(log, e) /\ (e.by = i /\ saved[i] # None => e.over = saved[i])
        <5>1. CASE k = Cmd(i)
          BY <1>5, <3>1, <5>1 DEF Intact
        <5>2. CASE k = Snap(i)
          BY <1>4, <3>2, <5>2
        <5>3. CASE k[1] # i
          BY <1>5, <5>3
        <5> QED BY <1>0, <5>1, <5>2, <5>3
      <4> QED BY <1>0, <1>2, <3>1, <4>1, BookStays
    <3>8. Tabled(i)'
      BY <1>2, <3>1, TableStays
    <3> QED BY <3>5, <3>6, <3>7, <3>8
  <2> QED BY <2>2, <2>3 DEF Undoable, Requests
<1> QED BY <1>8, <1>9

\* Something ends or is lost, and requests go on; nothing new is under way.
Fades ==
  /\ down' \subseteq down /\ back' \subseteq back
  /\ \A x \in DOMAIN job' :
       /\ x \in DOMAIN job /\ job'[x].at = job[x].at /\ job'[x].content = job[x].content
       /\ job'[x].over = job[x].over
  /\ \A x \in DOMAIN box' : x \in DOMAIN box /\ box'[x] = box[x]
  /\ UNCHANGED <<disk, log, snaps, saved>> /\ overlap' = overlap
  /\ \A i \in Requests : AtMove(i) /\ (req'[i].at = "snapwait" => req[i].at = "snapwait")

LEMMA UndoFades ==
  ASSUME UndoInv, Fades
  PROVE  Ordered' /\ (Calm' => Undoable')
<1>0. RowsInv /\ ConnTypes /\ Ordered
  BY DEF UndoInv, FileInv, RowsInv
<1>1. Busy' \subseteq Busy
  BY DEF Busy, Fades
<1>2. Ordered' /\ \A i \in Requests : Latest(i) => Latest(i)'
  <2>1. \A x \in Busy' \cup DOMAIN box' : x \in Busy \cup DOMAIN box
    BY <1>1 DEF Fades
  <2>2. /\ \A i \in Requests : AtMove(i) /\ saved'[i] = saved[i]
        /\ log' = log
    BY DEF Fades
  <2> QED BY <1>0, <2>1, <2>2, OrderStays
<1>3. ASSUME Calm'
      PROVE  Undoable'
  <2>1. Undoable
    <3>1. log' = log /\ (overlap' = {} => overlap = {})
      BY DEF Fades
    <3> QED BY <1>0, <1>3, <3>1, CalmBefore DEF UndoInv
  <2>2. Alone'
    <3>1. \A i \in Requests : req'[i].at \notin Over => req[i].at \notin Over
      BY DEF Fades, AtMove, Over
    <3>2. \A k \in Busy' : k[1] \in Requests
      BY <1>0, <1>1, BusyIds
    <3> QED BY <1>1, <1>2, <2>1, <3>1, <3>2, AloneStays DEF Undoable
  <2>3. ASSUME NEW i \in Requests
        PROVE  (ReadBack(i) /\ Intact(i) /\ Booked(i) /\ Tabled(i))'
    <3>1. ReadBack(i) /\ Intact(i) /\ Booked(i) /\ Tabled(i)
      BY <2>1 DEF Undoable
    <3>2. ReadBack(i)'
      BY <3>1 DEF ReadBack, Fades, Snap
    <3>3. saved[i] # None /\ req'[i].at \in {"start", "send"} => req[i].at \in {"start", "send"}
      BY <1>0 DEF Fades, AtMove, Ordered
    <3>4. Intact(i)'
      BY <3>1, <3>3 DEF Intact, Fades, Cmd
    <3>5. Booked(i)' /\ Tabled(i)'
      BY <3>1, TableStays DEF Booked, Fades
    <3> QED BY <3>2, <3>4, <3>5
  <2> QED BY <2>2, <2>3 DEF Undoable, Requests
<1> QED BY <1>2, <1>3

\* The command of request i is sent, the one for its snapshot or its own.
LEMMA UndoSend ==
  ASSUME UndoInv, NEW i \in Requests, NEW k,
         \/ k = Snap(i) /\ req[i].at = "snap" /\ req'[i].at = "snapwait"
         \/ k = Cmd(i) /\ req[i].at = "send" /\ req'[i].at = "wait",
         \A l \in Requests : l # i => req'[l] = req[l],
         \A x \in down' : x \in down \/ x = k,
         \A x \in DOMAIN box' \ {k} : x \in DOMAIN box /\ box'[x] = box[x],
         box'[k] = None,
         UNCHANGED <<disk, log, snaps, saved, job, back, overlap>>
  PROVE  Ordered' /\ (Calm' => Undoable')
<1>0. RowsInv /\ ConnTypes /\ Ordered
  BY DEF UndoInv, FileInv, RowsInv
<1>1. /\ Busy' \subseteq Busy \cup {k} /\ k[1] = i /\ Cmd(i) # Snap(i)
      /\ \A l \in Requests : l # i => k # Snap(l) /\ k # Cmd(l)
  BY IdsAre, Apart DEF Busy
<1>2. Ordered' /\ \A l \in Requests : Latest(l) => Latest(l)'
  <2>1. \A l \in Requests : AtMove(l) /\ saved'[l] = saved[l]
    BY DEF AtMove
  <2>2. \A l \in Requests : req'[l].at \in {"idle", "snap"} =>
          (Snap(l) \in Busy' \cup DOMAIN box' => Snap(l) \in Busy \cup DOMAIN box)
    BY <1>1
  <2> QED BY <1>0, <2>1, <2>2, OrderStays
<1>3. ASSUME Calm'
      PROVE  Undoable'
  <2>1. Undoable
    BY <1>0, <1>3, CalmBefore DEF UndoInv
  <2>2. Alone'
    <3>1. req[i].at \notin Over /\ Latest(i)'
      BY <1>2, <2>1 DEF Over, Undoable, Alone
    <3>2. \A x \in Busy' : Latest(x[1])'
      BY <1>0, <1>1, <1>2, <2>1, <3>1, BusyIds DEF Undoable, Alone
    <3>3. \A l \in Requests : req'[l].at \notin Over => Latest(l)'
      BY <1>2, <2>1, <3>1 DEF Undoable, Alone
    <3> QED BY <3>2, <3>3 DEF Alone, Requests, Over
  <2>3. ASSUME NEW l \in Requests
        PROVE  (ReadBack(l) /\ Intact(l) /\ Booked(l) /\ Tabled(l))'
    <3>1. ReadBack(l) /\ Intact(l) /\ Booked(l) /\ Tabled(l)
      BY <2>1 DEF Undoable
    <3>2. ReadBack(l)'
      <4>1. CASE l # i
        BY <1>1, <3>1, <4>1 DEF ReadBack, Snap
      <4>2. CASE l = i /\ k = Snap(i)
        <5>1. k \notin Busy
          BY <1>0, <4>2 DEF Ordered, Snap, Cmd
        <5> QED BY <4>2, <5>1 DEF ReadBack, Busy, Snap
      <4>3. CASE l = i /\ k = Cmd(i)
        BY <1>1, <4>3 DEF ReadBack
      <4> QED BY <4>1, <4>2, <4>3
    <3>3. Intact(l)'
      <4>1. CASE l # i
        BY <1>1, <3>1, <4>1 DEF Intact, Cmd
      <4>2. CASE l = i /\ k = Snap(i)
        BY <1>0, <1>1, <4>2 DEF Ordered, Intact
      <4>3. CASE l = i /\ k = Cmd(i)
        <5>1. k \notin DOMAIN job
          BY <1>0, <1>1, <4>3 DEF RowsInv, RowInv, Before
        <5>2. saved[i] # None => disk = saved[i]
          BY <1>1, <3>1, <4>3 DEF Intact
        <5> QED BY <4>3, <5>1, <5>2 DEF Intact, Cmd
      <4> QED BY <4>1, <4>2, <4>3
    <3>4. Booked(l)' /\ Tabled(l)'
      BY <3>1, TableStays DEF Booked
    <3> QED BY <3>2, <3>3, <3>4
  <2> QED BY <2>2, <2>3 DEF Undoable, Requests
<1> QED BY <1>2, <1>3

\* The oldest snapshot makes room for the newest.
LEMMA SaveIs ==
  ASSUME snaps \in Seq(Contents), NEW c \in Contents, SaveSnapshot(c)
  PROVE  \/ /\ Len(snaps') = Len(snaps) + 1 /\ snaps'[Len(snaps')] = c
            /\ \A p \in 1..Len(snaps) : snaps'[p] = snaps[p]
         \/ /\ Len(snaps) + 1 > Keep
            /\ Len(snaps') = Len(snaps) /\ Len(snaps) >= 1 /\ snaps'[Len(snaps')] = c
            /\ \A p \in 2..Len(snaps) : snaps'[p - 1] = snaps[p]
<1> DEFINE s == Append(snaps, c)
<1>1. Len(snaps) \in Nat /\ Keep \in Nat /\ Keep >= 1
  BY ConnectorsAssumption, LenProperties DEF ConnectorsAssumption
<1>2. /\ s \in Seq(Contents) /\ Len(s) = Len(snaps) + 1 /\ s[Len(snaps) + 1] = c
      /\ \A p \in 1..Len(snaps) : s[p] = snaps[p]
  BY AppendProperties
<1>3. snaps' = IF Len(s) > Keep THEN Tail(s) ELSE s
  BY DEF SaveSnapshot
<1> HIDE DEF s
<1>4. CASE ~(Len(s) > Keep)
  BY <1>1, <1>2, <1>3, <1>4
<1>5. CASE Len(s) > Keep
  <2>1. s # << >> /\ Len(snaps) >= 1
    BY <1>1, <1>2, <1>5
  <2>2. /\ Len(Tail(s)) = Len(s) - 1
        /\ \A p \in 1..(Len(s) - 1) : Tail(s)[p] = s[p + 1]
    BY <1>1, <1>2, <2>1, HeadTailProperties
  <2>3. Len(snaps') = Len(snaps) /\ \A p \in 1..Len(snaps) : snaps'[p] = s[p + 1]
    BY <1>1, <1>2, <1>3, <1>5, <2>2
  <2>4. snaps'[Len(snaps')] = c
    BY <1>1, <1>2, <2>1, <2>3
  <2>5. \A p \in 2..Len(snaps) : snaps'[p - 1] = snaps[p]
    <3> SUFFICES ASSUME NEW p \in 2..Len(snaps) PROVE snaps'[p - 1] = snaps[p]
      OBVIOUS
    <3>1. p - 1 \in 1..Len(snaps) /\ (p - 1) + 1 = p /\ p \in 1..Len(snaps)
      BY <1>1
    <3> QED BY <1>2, <2>3, <3>1
  <2> QED BY <1>2, <1>5, <2>1, <2>3, <2>4, <2>5
<1> QED BY <1>4, <1>5

\* The requests with a snapshot, from one on.
LEMMA SinceIs ==
  ASSUME NEW i \in Requests
  PROVE  IsFiniteSet(Since(i)) /\ Cardinality(Since(i)) \in Nat
<1>1. Since(i) \subseteq i..MaxRequests
  BY DEF Since
<1>2. IsFiniteSet(i..MaxRequests)
  <2>1. i \in Int /\ MaxRequests \in Int
    BY RequestsAre
  <2> QED BY <2>1, FS_Interval
<1>3. IsFiniteSet(Since(i))
  BY <1>1, <1>2, FS_Subset
<1> QED BY <1>3, FS_CardinalityType

\* One more snapshot: every older one is one further down.
LEMMA TableGrows ==
  ASSUME snaps \in Seq(Contents), NEW c \in Contents, SaveSnapshot(c),
         NEW i \in Requests, saved \in [Requests -> Values], saved[i] = None,
         saved' = [saved EXCEPT ![i] = c],
         NEW l \in Requests, Tabled(l), saved[l] # None => l < i
  PROVE  Tabled(l)'
<1>0. /\ Requests = 1..MaxRequests /\ MaxRequests \in Nat /\ None \notin Contents
      /\ Keep \in Nat /\ Keep >= 1
  BY ConnectorsAssumption DEF Requests, ConnectorsAssumption
<1>s. Len(snaps) \in Nat
  BY LenProperties
<1>t. PICK n \in Nat : n = Cardinality(Since(l))
  BY SinceIs
<1>1. CASE l = i
  <2>1. saved'[i] = c /\ i \in Since(i)'
    BY <1>0 DEF Since
  <2>2. Since(i)' = Since(i) \cup {i}
    BY <1>0 DEF Since
  <2>3. i \notin Since(i)
    BY DEF Since
  <2>4. Cardinality(Since(i) \cup {i}) = n + 1
    BY <1>1, <1>t, <2>3, SinceIs, FS_AddElement
  <2>5. Cardinality(Since(i)') >= 1
    BY <2>2, <2>4
  <2>6. Len(snaps') \in Nat /\ Len(snaps') >= 1 /\ snaps'[Len(snaps')] = c
    BY <1>s, SaveIs
  <2>7. Len(snaps') \in 1..Len(snaps') /\ Len(snaps') - Len(snaps') + 1 <= Cardinality(Since(i)')
    BY <2>2, <2>4, <2>6
  <2> QED BY <1>1, <2>1, <2>6, <2>7 DEF Tabled
<1>2. CASE l # i /\ saved[l] # None
  <2>1. saved'[l] = saved[l] /\ l < i
    BY <1>2
  <2>2. Since(l)' = Since(l) \cup {i} /\ i \notin Since(l)
    BY <1>0, <2>1 DEF Since
  <2>3. Cardinality(Since(l) \cup {i}) = n + 1
    BY <1>t, <2>2, SinceIs, FS_AddElement
  <2>4. Cardinality(Since(l)') = n + 1
    BY <2>2, <2>3
  <2>5. CASE n + 1 > Keep
    BY <2>4, <2>5 DEF Tabled
  <2>6. CASE ~(n + 1 > Keep)
    <3>1. PICK p \in 1..Len(snaps) : snaps[p] = saved[l] /\ Len(snaps) - p + 1 <= n
      BY <1>0, <1>2, <1>t, <2>6 DEF Tabled
    <3>2. CASE /\ Len(snaps') = Len(snaps) + 1
               /\ \A q \in 1..Len(snaps) : snaps'[q] = snaps[q]
      <4>1. p \in 1..Len(snaps') /\ snaps'[p] = saved'[l] /\ Len(snaps') - p + 1 <= n + 1
        BY <1>s, <2>1, <3>1, <3>2
      <4> QED BY <2>4, <4>1 DEF Tabled
    <3>3. CASE /\ Len(snaps) + 1 > Keep /\ Len(snaps') = Len(snaps)
               /\ \A q \in 2..Len(snaps) : snaps'[q - 1] = snaps[q]
      <4>1. p \in 2..Len(snaps)
        BY <1>0, <1>s, <2>6, <3>1, <3>3
      <4>2. p - 1 \in 1..Len(snaps') /\ snaps'[p - 1] = saved'[l] /\ Len(snaps') - (p - 1) + 1 <= n + 1
        BY <1>s, <2>1, <3>1, <3>3, <4>1
      <4> QED BY <2>4, <4>2 DEF Tabled
    <3> QED BY <3>2, <3>3, SaveIs
  <2> QED BY <2>5, <2>6
<1>3. CASE l # i /\ saved[l] = None
  <2>1. saved'[l] = None
    BY <1>3
  <2> QED BY <2>1 DEF Tabled
<1> QED BY <1>1, <1>2, <1>3

\* What has been read for a request is put into the table.
LEMMA UndoSaves ==
  ASSUME UndoInv, NEW i \in Requests, SnapshotReply(i),
         saved' # saved \/ snaps' # snaps
  PROVE  Ordered' /\ (Calm' => Undoable')
<1>0. RowsInv /\ ConnTypes /\ Ordered /\ RowInv(i)
  BY DEF UndoInv, FileInv, RowsInv
<1> DEFINE k == Snap(i)
<1>1. /\ req[i].at = "snapwait" /\ k \in DOMAIN box /\ box[k] # None
      /\ box' = Without(box, {k}) /\ req' = [req EXCEPT ![i].at = "start"]
      /\ UNCHANGED <<disk, down, back, job, log>> /\ overlap' = overlap
  BY DEF SnapshotReply, Replied, hostv
<1>2. SaveSnapshot(box[k].content) /\ saved' = [saved EXCEPT ![i] = box[k].content]
  BY DEF SnapshotReply
<1>3. req'[i].at = "start" /\ \A l \in Requests : l # i => req'[l] = req[l]
  BY <1>0, <1>1, Advance
<1>4. \A x \in DOMAIN box' : x \in DOMAIN box /\ box'[x] = box[x]
  BY <1>1 DEF Without
<1>5. saved \in [Requests -> Values] /\ snaps \in Seq(Contents)
  BY <1>0 DEF ConnTypes
<1>6. Busy' = Busy
  BY <1>1 DEF Busy
<1>7. Ordered' /\ \A l \in Requests : Latest(l) => Latest(l)'
  <2>1. \A l \in Requests : AtMove(l)
    BY <1>1, <1>3 DEF AtMove
  <2>2. \A l \in Requests : saved'[l] = saved[l] \/ req'[l].at = "start"
    BY <1>2, <1>3, <1>5
  <2>3. \A x \in Busy' \cup DOMAIN box' : x \in Busy \cup DOMAIN box
    BY <1>4, <1>6
  <2>4. log' = log
    BY <1>1
  <2> QED BY <1>0, <2>1, <2>2, <2>3, <2>4, OrderStays
<1>8. ASSUME Calm'
      PROVE  Undoable'
  <2>1. Undoable
    BY <1>0, <1>1, <1>8, CalmBefore DEF UndoInv
  <2>2. Alone'
    <3>1. \A l \in Requests : req'[l].at \notin Over => req[l].at \notin Over
      BY <1>1, <1>3 DEF Over
    <3> QED BY <1>0, <1>6, <1>7, <2>1, <3>1, AloneStays, BusyIds DEF Undoable
  <2>3. box[k].content = disk /\ disk \in Contents /\ saved[i] = None
    BY <1>0, <1>1, <2>1 DEF Undoable, ReadBack, ConnTypes, Ordered
  <2>4. Latest(i) /\ req[i].at # "idle"
    BY <1>1, <2>1 DEF Undoable, Alone, Over
  <2>5. \A l \in Requests : saved[l] # None => l < i
    <3> SUFFICES ASSUME NEW l \in Requests, saved[l] # None PROVE l < i
      OBVIOUS
    <3>1. ~(l > i) /\ l # i
      BY <1>0, <2>3, <2>4 DEF Latest, Ordered
    <3> QED BY <3>1, RequestsAre
  <2>6. ASSUME NEW l \in Requests
        PROVE  (ReadBack(l) /\ Intact(l) /\ Booked(l) /\ Tabled(l))'
    <3>1. ReadBack(l) /\ Intact(l) /\ Booked(l) /\ Tabled(l)
      BY <2>1 DEF Undoable
    <3>2. ReadBack(l)'
      BY <1>1, <1>3, <1>4, <3>1 DEF ReadBack, Snap
    <3>3. Intact(l)'
      <4>1. CASE l = i
        <5>1. saved'[i] = disk /\ Cmd(i) \notin DOMAIN job
          BY <1>0, <1>1, <1>2, <1>5, <2>3 DEF RowInv, Before
        <5> QED BY <1>1, <4>1, <5>1 DEF Intact, Cmd
      <4>2. CASE l # i
        BY <1>1, <1>2, <1>3, <1>5, <3>1, <4>2 DEF Intact, Cmd
      <4> QED BY <4>1, <4>2
    <3>4. Booked(l)'
      <4>1. CASE l = i
        <5>1. \A n \in DOMAIN log : log[n].by # i
          BY <1>0, <1>1, RequestsAre DEF Ordered, Before
        <5> QED BY <1>1, <4>1, <5>1 DEF Booked
      <4>2. CASE l # i
        BY <1>1, <1>2, <1>5, <3>1, <4>2 DEF Booked
      <4> QED BY <4>1, <4>2
    <3>5. Tabled(l)'
      <4>1. SaveSnapshot(disk) /\ saved' = [saved EXCEPT ![i] = disk]
        BY <1>2, <2>3
      <4> QED BY <1>5, <2>3, <2>5, <3>1, <4>1, TableGrows
    <3> QED BY <3>2, <3>3, <3>4, <3>5
  <2> QED BY <2>2, <2>6 DEF Undoable, Requests
<1> QED BY <1>7, <1>8

\* A command goes from the wire to the agent.
LEMMA UndoArrive ==
  ASSUME UndoInv, NEW k \in Ids, Arrive(k)
  PROVE  Ordered' /\ (Calm' => Undoable')
<1>0. RowsInv /\ ConnTypes /\ Ordered
  BY DEF UndoInv, FileInv, RowsInv
<1>1. /\ k \in down /\ down' = down \ {k}
      /\ DOMAIN job' = DOMAIN job \cup {k} /\ job'[k].at = "begin"
      /\ \A x \in DOMAIN job \ {k} : job'[x] = job[x]
      /\ UNCHANGED <<disk, box, back, req, snaps, saved, log>>
      /\ overlap' = {} => overlap = {}
  BY DEF Arrive, Set, With, NoteOverlap, hostv
<1>2. Busy' = Busy
  BY <1>1 DEF Busy
<1>3. Ordered' /\ \A i \in Requests : Latest(i) => Latest(i)'
  <2>1. /\ \A i \in Requests : AtMove(i) /\ saved'[i] = saved[i]
        /\ Busy' \cup DOMAIN box' = Busy \cup DOMAIN box /\ log' = log
    BY <1>1, <1>2 DEF AtMove
  <2> QED BY <1>0, <2>1, OrderStays
<1>4. ASSUME Calm'
      PROVE  Undoable'
  <2>1. Undoable
    <3>1. log' = log /\ (overlap' = {} => overlap = {})
      BY <1>1
    <3> QED BY <1>0, <1>4, <3>1, CalmBefore DEF UndoInv
  <2>2. Alone'
    BY <1>0, <1>1, <1>2, <1>3, <2>1, AloneStays, BusyIds DEF Undoable
  <2>3. ASSUME NEW i \in Requests
        PROVE  (ReadBack(i) /\ Intact(i) /\ Booked(i) /\ Tabled(i))'
    <3>1. ReadBack(i) /\ Intact(i) /\ Booked(i) /\ Tabled(i)
      BY <2>1 DEF Undoable
    <3>2. ReadBack(i)'
      BY <1>1, <3>1 DEF ReadBack, Snap
    <3>3. Intact(i)'
      <4>1. CASE k = Cmd(i)
        BY <1>1, <3>1, <4>1 DEF Intact, Cmd
      <4>2. CASE k # Cmd(i)
        BY <1>1, <3>1, <4>2 DEF Intact, Cmd
      <4> QED BY <4>1, <4>2
    <3>4. Booked(i)' /\ Tabled(i)'
      BY <1>1, <3>1, TableStays DEF Booked
    <3> QED BY <3>2, <3>3, <3>4
  <2> QED BY <2>2, <2>3 DEF Undoable, Requests
<1> QED BY <1>3, <1>4

\* An answer goes from the agent to the wire, or is dropped.
LEMMA UndoReply ==
  ASSUME UndoInv, NEW k \in DOMAIN job, Reply(k)
  PROVE  Ordered' /\ (Calm' => Undoable')
<1>0. RowsInv /\ ConnTypes /\ Ordered
  BY DEF UndoInv, FileInv, RowsInv
<1> DEFINE m == [id |-> k, status |-> job[k].status, content |-> job[k].content]
<1>1. /\ job[k].at = "reply" /\ back' \subseteq back \cup {m}
      /\ DOMAIN job' = DOMAIN job \ {k} /\ \A x \in DOMAIN job \ {k} : job'[x] = job[x]
      /\ UNCHANGED <<disk, box, down, req, snaps, saved, log, overlap>>
  BY DEF Reply, Without, hostv
<1>m. m.id = k /\ m.content = job[k].content
  OBVIOUS
<1> HIDE DEF m
<1>2. Busy' \subseteq Busy
  BY <1>1, <1>m DEF Busy
<1>3. Ordered' /\ \A i \in Requests : Latest(i) => Latest(i)'
  <2>1. /\ \A i \in Requests : AtMove(i) /\ saved'[i] = saved[i]
        /\ Busy' \cup DOMAIN box' \subseteq Busy \cup DOMAIN box /\ log' = log
    BY <1>1, <1>2 DEF AtMove
  <2> QED BY <1>0, <2>1, OrderStays
<1>4. ASSUME Calm'
      PROVE  Undoable'
  <2>1. Undoable
    <3>1. log' = log /\ (overlap' = {} => overlap = {})
      BY <1>1
    <3> QED BY <1>0, <1>4, <3>1, CalmBefore DEF UndoInv
  <2>2. Alone'
    <3>1. \A x \in Busy' : x[1] \in Requests
      BY <1>0, <1>2, BusyIds
    <3> QED BY <1>1, <1>2, <1>3, <2>1, <3>1, AloneStays DEF Undoable
  <2>3. ASSUME NEW i \in Requests
        PROVE  (ReadBack(i) /\ Intact(i) /\ Booked(i) /\ Tabled(i))'
    <3>1. ReadBack(i) /\ Intact(i) /\ Booked(i) /\ Tabled(i)
      BY <2>1 DEF Undoable
    <3>2. ReadBack(i)'
      BY <1>1, <1>m, <3>1 DEF ReadBack, Snap
    <3>3. Intact(i)'
      BY <1>1, <3>1 DEF Intact, Cmd
    <3>4. Booked(i)' /\ Tabled(i)'
      BY <1>1, <3>1, TableStays DEF Booked
    <3> QED BY <3>2, <3>3, <3>4
  <2> QED BY <2>2, <2>3 DEF Undoable, Requests
<1> QED BY <1>3, <1>4

\* An answer goes into its mailbox.
LEMMA UndoReceive ==
  ASSUME UndoInv, NEW m \in back, Receive(m)
  PROVE  Ordered' /\ (Calm' => Undoable')
<1>0. RowsInv /\ ConnTypes /\ Ordered
  BY DEF UndoInv, FileInv, RowsInv
<1>1. /\ back' = back \ {m} /\ UNCHANGED <<disk, down, req, snaps, saved, log, job, overlap>>
      /\ box' = IF m.id \in DOMAIN box /\ box[m.id] = None THEN [box EXCEPT ![m.id] = m] ELSE box
  BY DEF Receive, Resolve, hostv, history
<1>2. /\ Busy' \subseteq Busy /\ DOMAIN box' = DOMAIN box
      /\ \A x \in DOMAIN box : box'[x] = box[x] \/ (box'[x] = m /\ x = m.id)
  BY <1>1 DEF Busy
<1>3. Ordered' /\ \A i \in Requests : Latest(i) => Latest(i)'
  <2>1. /\ \A i \in Requests : AtMove(i) /\ saved'[i] = saved[i]
        /\ Busy' \cup DOMAIN box' \subseteq Busy \cup DOMAIN box /\ log' = log
    BY <1>1, <1>2 DEF AtMove
  <2> QED BY <1>0, <2>1, OrderStays
<1>4. ASSUME Calm'
      PROVE  Undoable'
  <2>1. Undoable
    <3>1. log' = log /\ (overlap' = {} => overlap = {})
      BY <1>1
    <3> QED BY <1>0, <1>4, <3>1, CalmBefore DEF UndoInv
  <2>2. Alone'
    <3>1. \A x \in Busy' : x[1] \in Requests
      BY <1>0, <1>2, BusyIds
    <3> QED BY <1>1, <1>2, <1>3, <2>1, <3>1, AloneStays DEF Undoable
  <2>3. ASSUME NEW i \in Requests
        PROVE  (ReadBack(i) /\ Intact(i) /\ Booked(i) /\ Tabled(i))'
    <3>1. ReadBack(i) /\ Intact(i) /\ Booked(i) /\ Tabled(i)
      BY <2>1 DEF Undoable
    <3>2. ReadBack(i)'
      BY <1>1, <1>2, <3>1 DEF ReadBack, Snap
    <3>3. Intact(i)'
      BY <1>1, <3>1 DEF Intact, Cmd
    <3>4. Booked(i)' /\ Tabled(i)'
      BY <1>1, <3>1, TableStays DEF Booked
    <3> QED BY <3>2, <3>3, <3>4
  <2> QED BY <2>2, <2>3 DEF Undoable, Requests
<1> QED BY <1>3, <1>4

\* A request is made: while nothing is under way, or this is noted.
LEMMA UndoAsks ==
  ASSUME UndoInv, NEW i \in Requests, Asks(i)
  PROVE  Ordered' /\ (Calm' => Undoable')
<1>0. RowsInv /\ ConnTypes /\ Ordered
  BY DEF UndoInv, FileInv, RowsInv
<1>1. /\ req[i].at = "idle" /\ \A l \in 1..(i - 1) : req[l].at # "idle"
      /\ UNCHANGED <<disk, box, down, back, job, snaps, log, saved>>
      /\ overlap' = overlap \cup {"asked"} \/ (overlap' = overlap /\ Quiet)
  BY DEF Asks
<1>2. PICK q : /\ TypedReq(q) /\ q.at \in {"snap", "start", "send"} /\ q.seen = None
               /\ req' = [req EXCEPT ![i] = q]
  BY DEF Asks
<1>3. /\ req'[i].at \in {"snap", "start", "send"}
      /\ \A l \in Requests : l # i => req'[l] = req[l]
  BY <1>0, <1>2 DEF ConnTypes
<1>4. /\ \A l \in Requests : l < i => req[l].at # "idle"
      /\ \A l \in Requests : l > i => req[l].at = "idle"
      /\ Requests = 1..MaxRequests /\ MaxRequests \in Nat
  <2>1. Requests = 1..MaxRequests /\ MaxRequests \in Nat
    BY ConnectorsAssumption DEF Requests, ConnectorsAssumption
  <2> QED BY <1>0, <1>1, <2>1 DEF Ordered
<1>5. Busy' = Busy
  BY <1>1 DEF Busy
<1>6. Ordered'
  <2>1. \A a, b \in Requests : a < b /\ req'[a].at = "idle" => req'[b].at = "idle"
    BY <1>0, <1>3, <1>4 DEF Ordered
  <2>2. \A a \in Requests : req'[a].at \in {"idle", "snap"} =>
          Snap(a) \notin Busy' \cup DOMAIN box'
    BY <1>0, <1>1, <1>3, <1>5 DEF Ordered
  <2>3. \A a \in Requests : saved'[a] # None => req'[a].at \notin {"idle", "snap", "snapwait"}
    <3>1. saved[i] = None
      BY <1>0, <1>1 DEF Ordered
    <3> QED BY <1>0, <1>1, <1>3, <3>1 DEF Ordered
  <2>4. \A n \in DOMAIN log' : log'[n].by # 0 => req'[log'[n].by].at \notin Before
    <3> SUFFICES ASSUME NEW n \in DOMAIN log, log[n].by # 0 PROVE req'[log[n].by].at \notin Before
      BY <1>1
    <3>1. log[n] \in Entries
      BY <1>0, ElementOfSeq, LenProperties DEF ConnTypes
    <3>2. log[n].by \in Requests
      BY <3>1 DEF Entries
    <3>3. req[log[n].by].at \notin Before
      BY <1>0 DEF Ordered
    <3>4. log[n].by # i
      BY <1>1, <3>3 DEF Before
    <3> QED BY <1>3, <3>2, <3>3, <3>4
  <2> QED BY <2>1, <2>2, <2>3, <2>4 DEF Ordered, Requests, Snap
<1>7. ASSUME Calm'
      PROVE  Undoable'
  <2>1. overlap' = {} /\ overlap' = overlap /\ Quiet
    BY <1>1, <1>7 DEF Calm
  <2>2. Undoable
    BY <1>0, <1>1, <1>7, <2>1, CalmBefore DEF UndoInv
  <2>3. /\ DOMAIN job = {} /\ down = {} /\ back = {}
        /\ \A l \in Requests : req[l].at \in Over
    BY <2>1 DEF Quiet
  <2>4. Busy' = {}
    BY <1>5, <2>3 DEF Busy
  <2>5. Latest(i)'
    BY <1>3, <1>4 DEF Latest, Requests
  <2>6. \A l \in Requests : req'[l].at \notin Over => l = i
    BY <1>3, <2>3
  <2>7. Alone'
    BY <2>4, <2>5, <2>6 DEF Alone, Requests, Over
  <2>8. ASSUME NEW l \in Requests
        PROVE  (ReadBack(l) /\ Intact(l) /\ Booked(l) /\ Tabled(l))'
    <3>1. Booked(l) /\ Tabled(l)
      BY <2>2 DEF Undoable
    <3>2. ReadBack(l)'
      <4>1. req'[l].at # "snapwait"
        BY <1>3, <2>3 DEF Over
      <4> QED BY <4>1 DEF ReadBack
    <3>3. Intact(l)'
      <4>1. Cmd(l) \notin down' /\ Cmd(l) \notin DOMAIN job'
        BY <1>1, <2>3
      <4>2. req'[l].at \in {"start", "send"} => saved'[l] = None
        BY <1>0, <1>1, <1>3, <2>3 DEF Ordered, Over
      <4> QED BY <4>1, <4>2 DEF Intact, Cmd
    <3>4. Booked(l)' /\ Tabled(l)'
      BY <1>1, <3>1, TableStays DEF Booked
    <3> QED BY <3>2, <3>3, <3>4
  <2> QED BY <2>7, <2>8 DEF Undoable, Requests
<1> QED BY <1>6, <1>7

\* Somebody edits the file: this excuses everything after it.
LEMMA UndoByHand ==
  ASSUME UndoInv, NEW c \in Contents, EditByHand(c)
  PROVE  Ordered' /\ (Calm' => Undoable')
<1>0. ConnTypes /\ Ordered
  BY DEF UndoInv, FileInv, RowsInv
<1> DEFINE e == [by |-> 0, over |-> disk, new |-> c, base |-> None]
<1>1. /\ log' = Append(log, e) /\ e \in Entries /\ e.by = 0
      /\ UNCHANGED <<box, down, back, job, req, saved>>
  BY <1>0 DEF EditByHand, wire, Entries, Values, ConnTypes
<1> HIDE DEF e
<1>2. Ordered'
  <2>1. Busy' = Busy /\ \A i \in Requests : AtMove(i) /\ saved'[i] = saved[i]
    BY <1>1 DEF Busy, AtMove
  <2> QED BY <1>0, <1>1, <2>1, OrderStays
<1>3. ByHand'
  <2>1. /\ Len(log) \in Nat /\ DOMAIN log' = 1..(Len(log) + 1) /\ log'[Len(log) + 1] = e
    BY <1>0, <1>1, LogIs
  <2>2. Len(log) > 0
    BY <1>0 DEF ConnTypes
  <2> QED BY <1>1, <2>1, <2>2 DEF ByHand
<1> QED BY <1>2, <1>3 DEF Calm

LEMMA UndoHandler ==
  ASSUME UndoInv, NEW i \in Requests, Handler(i)
  PROVE  Ordered' /\ (Calm' => Undoable')
<1>0. ConnTypes /\ DOMAIN req = Requests
  BY DEF UndoInv, FileInv, RowsInv, ConnTypes
<1>1. /\ UNCHANGED <<disk, log, job, back>> /\ overlap' = overlap
      /\ \A l \in Requests : l # i => req'[l] = req[l]
  BY <1>0 DEF Handler, SnapshotBefore, SnapshotReply, SnapshotTimeout,
         StartOperation, Dispatch, DispatchReply, DispatchTimeout,
         hostv, wire, history
<1>f. ASSUME AtMove(i), req'[i].at # "snapwait", UNCHANGED <<snaps, saved>>, down' \subseteq down,
             \A x \in DOMAIN box' : x \in DOMAIN box /\ box'[x] = box[x]
      PROVE  Ordered' /\ (Calm' => Undoable')
  <2>1. Fades
    BY <1>1, <1>f DEF Fades, AtMove
  <2> QED BY <2>1, UndoFades
<1>2. CASE SnapshotBefore(i)
  <2>1. /\ req[i].at = "snap" /\ SendConnectorCommand(i, Snap(i))
        /\ req' = [req EXCEPT ![i].at = IF conn THEN "snapwait" ELSE "start"]
        /\ UNCHANGED <<snaps, saved>>
    BY <1>2 DEF SnapshotBefore, history
  <2>2. CASE conn
    <3>1. req'[i].at = "snapwait"
      BY <1>0, <2>1, <2>2, Advance
    <3>2. /\ \A x \in DOMAIN box' \ {Snap(i)} : x \in DOMAIN box /\ box'[x] = box[x]
          /\ \A x \in down' : x \in down \/ x = Snap(i)
          /\ box'[Snap(i)] = None
      BY <2>1, <2>2, SendIs
    <3> QED BY <1>1, <2>1, <3>1, <3>2, UndoSend
  <2>3. CASE ~conn
    <3>1. req'[i].at = "start"
      BY <1>0, <2>1, <2>3, Advance
    <3>2. UNCHANGED <<box, down>>
      BY <2>1, <2>3, SendIs
    <3> QED BY <1>f, <2>1, <3>1, <3>2 DEF AtMove
  <2> QED BY <2>2, <2>3
<1>3. CASE SnapshotReply(i)
  <2>1. CASE saved' # saved \/ snaps' # snaps
    BY <1>3, <2>1, UndoSaves
  <2>2. CASE saved' = saved /\ snaps' = snaps
    <3>1. /\ req[i].at = "snapwait" /\ req' = [req EXCEPT ![i].at = "start"]
          /\ box' = Without(box, {Snap(i)}) /\ down' = down
      BY <1>3 DEF SnapshotReply
    <3>2. req'[i].at = "start"
      BY <1>0, <3>1, Advance
    <3>3. \A x \in DOMAIN box' : x \in DOMAIN box /\ box'[x] = box[x]
      BY <3>1 DEF Without
    <3> QED BY <1>f, <2>2, <3>1, <3>2, <3>3 DEF AtMove
  <2> QED BY <2>1, <2>2
<1>4. CASE SnapshotTimeout(i)
  <2>1. /\ req[i].at = "snapwait" /\ req' = [req EXCEPT ![i].at = "start"]
        /\ box' = Without(box, {Snap(i)}) /\ UNCHANGED <<down, snaps, saved>>
    BY <1>4 DEF SnapshotTimeout, history
  <2>2. req'[i].at = "start"
    BY <1>0, <2>1, Advance
  <2>3. \A x \in DOMAIN box' : x \in DOMAIN box /\ box'[x] = box[x]
    BY <2>1 DEF Without
  <2> QED BY <1>f, <2>1, <2>2, <2>3 DEF AtMove
<1>5. CASE StartOperation(i)
  <2>1. /\ req[i].at = "start" /\ req' = [req EXCEPT ![i].at = "send"]
        /\ UNCHANGED <<box, down, snaps, saved>>
    BY <1>5 DEF StartOperation, wire, history
  <2>2. req'[i].at = "send"
    BY <1>0, <2>1, Advance
  <2> QED BY <1>f, <2>1, <2>2 DEF AtMove
<1>6. CASE Dispatch(i)
  <2>1. /\ req[i].at = "send" /\ SendConnectorCommand(i, Cmd(i))
        /\ req' = [req EXCEPT ![i].at = IF conn THEN "wait" ELSE "done"]
        /\ UNCHANGED <<snaps, saved>>
    BY <1>6 DEF Dispatch, history
  <2>2. CASE conn
    <3>1. req'[i].at = "wait"
      BY <1>0, <2>1, <2>2, Advance
    <3>2. /\ \A x \in DOMAIN box' \ {Cmd(i)} : x \in DOMAIN box /\ box'[x] = box[x]
          /\ \A x \in down' : x \in down \/ x = Cmd(i)
          /\ box'[Cmd(i)] = None
      BY <2>1, <2>2, SendIs
    <3> QED BY <1>1, <2>1, <3>1, <3>2, UndoSend
  <2>3. CASE ~conn
    <3>1. req'[i].at = "done"
      BY <1>0, <2>1, <2>3, Advance
    <3>2. UNCHANGED <<box, down>>
      BY <2>1, <2>3, SendIs
    <3> QED BY <1>f, <2>1, <3>1, <3>2 DEF AtMove
  <2> QED BY <2>2, <2>3
<1>7. CASE DispatchReply(i) \/ DispatchTimeout(i)
  <2>1. /\ req[i].at = "wait" /\ box' = Without(box, {Cmd(i)})
        /\ UNCHANGED <<down, snaps, saved>>
    BY <1>7 DEF DispatchReply, DispatchTimeout, history
  <2>2. req'[i].at = "done"
    <3>1. DOMAIN req[i] = {"at", "cmd", "seen"}
      BY <1>0 DEF ConnTypes, TypedReq
    <3>2. CASE DispatchTimeout(i)
      <4>1. req' = [req EXCEPT ![i].at = "done"]
        BY <3>2 DEF DispatchTimeout
      <4> QED BY <1>0, <4>1, Advance
    <3>3. CASE DispatchReply(i)
      BY <1>0, <3>1, <3>3 DEF DispatchReply
    <3> QED BY <1>7, <3>2, <3>3
  <2>3. \A x \in DOMAIN box' : x \in DOMAIN box /\ box'[x] = box[x]
    BY <2>1 DEF Without
  <2> QED BY <1>f, <2>1, <2>2, <2>3 DEF AtMove
<1> QED BY <1>2, <1>3, <1>4, <1>5, <1>6, <1>7 DEF Handler

\* What is lost, and what has nothing to do with it.
LEMMA UndoLost ==
  ASSUME UndoInv,
         Drop \/ AgentCrash \/ GatewayCrash \/ Nothing
  PROVE  Fades
<1>0. ConnTypes
  BY DEF UndoInv, FileInv, RowsInv
<1>1. CASE Nothing
  BY <1>1 DEF Nothing, Fades, AtMove
<1>2. CASE Drop
  <2>1. /\ down' = {} /\ back' \in SUBSET back /\ job' = CutAll
        /\ UNCHANGED <<disk, log, snaps, saved, box, req, overlap>>
    BY <1>2 DEF Drop, hostv, history
  <2>2. \A x \in DOMAIN job' :
          /\ x \in DOMAIN job /\ job'[x].at = job[x].at /\ job'[x].content = job[x].content
          /\ job'[x].over = job[x].over
    BY <1>0, <2>1, CutTypes
  <2> QED BY <2>1, <2>2 DEF Fades, AtMove
<1>3. CASE AgentCrash
  <2>1. /\ down' = {} /\ back' = {} /\ DOMAIN job' = {}
        /\ UNCHANGED <<disk, log, snaps, saved, box, req, overlap>>
    BY <1>3 DEF AgentCrash, hostv
  <2> QED BY <2>1 DEF Fades, AtMove
<1>4. CASE GatewayCrash
  <2>1. /\ down' = {} /\ back' \in SUBSET back /\ job' = CutAll /\ DOMAIN box' = {}
        /\ UNCHANGED <<disk, log, snaps, saved, overlap>>
        /\ \A i \in Requests :
             req'[i] = IF req[i].at \in Over THEN req[i] ELSE [req[i] EXCEPT !.at = "lost"]
    BY <1>4 DEF GatewayCrash, hostv, history
  <2>2. \A x \in DOMAIN job' :
          /\ x \in DOMAIN job /\ job'[x].at = job[x].at /\ job'[x].content = job[x].content
          /\ job'[x].over = job[x].over
    BY <1>0, <2>1, CutTypes
  <2>3. \A i \in Requests : AtMove(i) /\ req'[i].at # "snapwait"
    <3> SUFFICES ASSUME NEW i \in Requests PROVE AtMove(i) /\ req'[i].at # "snapwait"
      OBVIOUS
    <3>1. DOMAIN req[i] = {"at", "cmd", "seen"}
      BY <1>0 DEF ConnTypes, TypedReq
    <3>2. CASE req[i].at \in Over
      <4>1. req'[i] = req[i]
        BY <2>1, <3>2
      <4> QED BY <3>2, <4>1 DEF AtMove, Over
    <3>3. CASE req[i].at \notin Over
      <4>1. req'[i] = [req[i] EXCEPT !.at = "lost"]
        BY <2>1, <3>3
      <4>2. req'[i].at = "lost"
        BY <3>1, <4>1
      <4> QED BY <3>3, <4>2 DEF AtMove, Over
    <3> QED BY <3>2, <3>3
  <2> QED BY <2>1, <2>2, <2>3 DEF Fades
<1> QED BY <1>1, <1>2, <1>3, <1>4

LEMMA UndoStep ==
  ASSUME UndoInv, [Next]_(vars)
  PROVE  UndoInv'
<1>1. FileInv /\ FileInv' /\ ConnTypes
  BY FileStep DEF UndoInv, FileInv, RowsInv
<1> SUFFICES Ordered' /\ (Calm' => Undoable')
  BY <1>1 DEF UndoInv
<1>2. ASSUME NEW i \in Requests, Handler(i) \/ Asks(i)
      PROVE  Ordered' /\ (Calm' => Undoable')
  BY <1>2, UndoHandler, UndoAsks
<1>3. ASSUME NEW k \in Ids, Arrive(k)
      PROVE  Ordered' /\ (Calm' => Undoable')
  BY <1>3, UndoArrive
<1>4. ASSUME NEW k \in DOMAIN job, Moves(k) \/ Reply(k)
      PROVE  Ordered' /\ (Calm' => Undoable')
  BY <1>4, UndoMove, UndoReply
<1>5. ASSUME NEW m \in back, Receive(m)
      PROVE  Ordered' /\ (Calm' => Undoable')
  BY <1>5, UndoReceive
<1>6. ASSUME NEW c \in Contents, EditByHand(c)
      PROVE  Ordered' /\ (Calm' => Undoable')
  BY <1>6, UndoByHand
<1>7. CASE Drop \/ AgentCrash \/ GatewayCrash \/ Nothing
  BY <1>7, UndoLost, UndoFades
<1> QED BY <1>1, <1>2, <1>3, <1>4, <1>5, <1>6, <1>7, StepKinds

LEMMA UndoInit ==
  ASSUME Init
  PROVE  UndoInv
<1>1. FileInv
  BY FileInit
<1>2. /\ DOMAIN box = {} /\ DOMAIN job = {} /\ down = {} /\ back = {}
      /\ \A i \in Requests : req[i].at = "idle" /\ saved[i] = None
      /\ log = << [by |-> 0, over |-> None, new |-> Original, base |-> None] >>
  BY DEF Init
<1>3. Busy = {} /\ \A n \in DOMAIN log : log[n].by = 0
  BY <1>2 DEF Busy
<1>4. Ordered
  BY <1>2, <1>3 DEF Ordered
<1>5. Undoable
  BY <1>2, <1>3 DEF Undoable, Alone, ReadBack, Intact, Booked, Tabled, Over
<1> QED BY <1>1, <1>4, <1>5 DEF UndoInv

\* "A bad config never outlives the request that caused it" (safety.go), an
\* edit replaces only what its author had read, and what was replaced is in
\* the snapshot table until Keep newer ones push it out: for any number of
\* requests, hosts, contents and snapshots, with the exceptions that the three
\* parts of ConfigRight name.
THEOREM ConfigIsRight == Spec => []ConfigRight
<1>1. Init => UndoInv
  BY UndoInit
<1>2. UndoInv /\ [Next]_(vars) => UndoInv'
  BY UndoStep
<1>3. UndoInv => ConfigRight
  <2> SUFFICES ASSUME UndoInv PROVE ConfigRight
    OBVIOUS
  <2>1. RejectedIsGone /\ OnlySeenOverwritten
    BY DEF UndoInv, FileInv, FileSafe, SeenLog, Final, RejectedIsGone, OnlySeenOverwritten
  <2>2. UndoKept
    <3>0. SUFFICES ASSUME Calm, NEW i \in Requests, saved[i] # None
                   PROVE  /\ Overwritten(i) \subseteq {saved[i]}
                          /\ Cardinality(Since(i)) <= Keep => saved[i] \in Range(snaps)
      BY DEF UndoKept, Calm
    <3>1. Booked(i) /\ Tabled(i)
      BY <3>0 DEF UndoInv, Undoable
    <3>2. Overwritten(i) \subseteq {saved[i]}
      BY <3>0, <3>1 DEF Booked, Overwritten
    <3>3. ASSUME Cardinality(Since(i)) <= Keep
          PROVE  saved[i] \in Range(snaps)
      <4>1. Cardinality(Since(i)) \in Nat /\ Keep \in Nat
        BY ConnectorsAssumption, SinceIs DEF ConnectorsAssumption
      <4>2. PICK p \in 1..Len(snaps) : snaps[p] = saved[i]
        BY <3>0, <3>1, <3>3, <4>1 DEF Tabled
      <4>3. DOMAIN snaps = 1..Len(snaps)
        BY LenProperties DEF UndoInv, FileInv, RowsInv, ConnTypes
      <4> QED BY <4>2, <4>3 DEF Range
    <3> QED BY <3>2, <3>3
  <2> QED BY <2>1, <2>2 DEF ConfigRight
<1> QED BY <1>1, <1>2, <1>3, PTL DEF Spec

-----------------------------------------------------------------------------
(***************************************************************************)
(* The other part: web terminals, any number of them, with any bounds on   *)
(* what is printed and typed and on the buffers.                           *)
(***************************************************************************)
\* The shell's outputs, and their ranks among those of their session.
Kinds   == {"started", "error", "data", "exit"}
Outputs == [id : T!Sessions, kind : Kinds, n : Nat]
Inputs  == [id : T!Sessions, kind : {"open", "data", "signal", "close"}]

\* c chunks were printed by a shell whose process is h.
Rank(m, c) == IF m.kind = "data" THEN m.n ELSE IF m.kind = "exit" THEN c + 1 ELSE 0

Valid(m, c, h) ==
  \/ m.kind = "error" /\ m.n = 0 /\ h = "none"
  \/ m.kind = "started" /\ m.n = 0 /\ h # "none"
  \/ m.kind = "data" /\ m.n \in 1..c /\ h # "none"
  \/ m.kind = "exit" /\ m.n = 0 /\ h = "gone"

TermTypes ==
  /\ ws \in [T!Sessions -> {"idle", "open", "closing", "done"}]
  /\ pump \in [T!Sessions -> {"none", "runs", "over", "closed"}]
  /\ sub \in [T!Sessions -> {None} \cup Seq(Outputs)]
  /\ inputs \in Seq(Inputs) /\ direct \in Seq(Outputs)
  /\ sess \subseteq T!Sessions
  /\ shell \in [T!Sessions -> {"none", "runs", "ended", "gone"}]
  /\ printed \in [T!Sessions -> Nat]
  /\ shown \in [T!Sessions -> Seq(Outputs)]
  /\ DOMAIN lost = T!Sessions

\* The open of session s is on its way to the agent.
Opening(s) == \E i \in DOMAIN inputs : inputs[i] = [id |-> s, kind |-> "open"]

\* The end of session s is on its way, behind position i.
Ending(s, i) == \E j \in DOMAIN inputs : j > i /\ inputs[j] = [id |-> s, kind |-> "close"]

\* A working stream is registered and served.  An open is the first that the
\* agent hears of a session, and goes with a browser or before a close.
LinkInv ==
  /\ live => reg /\ serving
  /\ ~live => inputs = << >>
  /\ \A i \in DOMAIN inputs : ws[inputs[i].id] # "idle"
  /\ \A i \in DOMAIN direct : ws[direct[i].id] # "idle"
  /\ \A i \in DOMAIN inputs : inputs[i].kind = "open" =>
       /\ shell[inputs[i].id] = "none"
       /\ ws[inputs[i].id] = "done" => Ending(inputs[i].id, i)
       /\ \A j \in DOMAIN inputs : inputs[j] = inputs[i] => j = i
  /\ \A s \in T!Sessions : ws[s] = "idle" => shell[s] = "none"
  /\ \A s \in T!Sessions : sub[s] # None <=> ws[s] \in {"open", "closing"}
  /\ \A s \in T!Sessions : shell[s] = "runs" => s \in sess /\ serving
  /\ \A s \in T!Sessions : shell[s] = "none" => printed[s] = 0
  /\ \A s \in T!Sessions : ws[s] \in {"idle", "done"} => pump[s] = "none" /\ shown[s] = << >>

\* Nothing was lost on the way to the browser of s.
Spared(s) == lost[s] = {} /\ ws[s] # "done"

\* What came out of the stream for s; whether its shell has yet to begin.
Arrived(s) == Len(shown[s]) + (IF sub[s] = None THEN 0 ELSE Len(sub[s]))
ToBegin(s) == ws[s] = "idle" \/ Opening(s)

\* e outputs of s were sent; those that have not arrived, from the a-th on,
\* are on the stream, in their order and without a gap.
Flow(s, e, on, a, c, h) ==
  /\ a <= e
  /\ \A p \in DOMAIN on : on[p].id = s => Rank(on[p], c) \in a..(e - 1)
  /\ \A p, q \in DOMAIN on :
       p < q /\ on[p].id = s /\ on[q].id = s => Rank(on[p], c) < Rank(on[q], c)
  /\ \A j \in a..(e - 1) : \E p \in DOMAIN on : on[p].id = s /\ Rank(on[p], c) = j
  /\ h \in {"runs", "ended"} => e = c + 1

OnStream(s, on, c, h) == \A p \in DOMAIN on : on[p].id = s => Valid(on[p], c, h)

\* What the browser was sent, and what waits for it, is in order from the
\* first on.
AtBrowser(s, sh, sb, c, h) ==
  /\ \A p \in DOMAIN sh : sh[p].id = s /\ Rank(sh[p], c) = p - 1 /\ Valid(sh[p], c, h)
  /\ sb # None => \A p \in DOMAIN sb :
       sb[p].id = s /\ Rank(sb[p], c) = Len(sh) + p - 1 /\ Valid(sb[p], c, h)

InOrder(s) ==
  /\ AtBrowser(s, shown[s], sub[s], printed[s], shell[s])
  /\ OnStream(s, direct, printed[s], shell[s])
  /\ \E e \in Nat :
       /\ Flow(s, e, direct, Arrived(s), printed[s], shell[s])
       /\ ToBegin(s) => e = 0

TermInv ==
  /\ TermTypes /\ LinkInv /\ T!NoOrphan
  /\ \A s \in T!Sessions : Spared(s) => InOrder(s)

-----------------------------------------------------------------------------
\* Types.
LEMMA ToAgentTyped ==
  ASSUME inputs \in Seq(Inputs), DOMAIN lost = T!Sessions, NEW s \in T!Sessions,
         NEW op \in {"open", "data", "signal", "close"}, T!ToAgent(s, op)
  PROVE  inputs' \in Seq(Inputs) /\ DOMAIN lost' = T!Sessions
<1> DEFINE m == [id |-> s, kind |-> op]
<1>1. m \in Inputs
  BY DEF Inputs
<1>2. CASE live
  <2>1. inputs' = Append(inputs, m) /\ lost' = lost
    BY <1>2 DEF T!ToAgent
  <2> HIDE DEF m
  <2> QED BY <1>1, <2>1, AppendProperties
<1>3. CASE ~live
  BY <1>3 DEF T!ToAgent, T!Lose
<1> QED BY <1>2, <1>3

LEMMA EmitTyped ==
  ASSUME direct \in Seq(Outputs), DOMAIN lost = T!Sessions, NEW m \in Outputs, T!Emit(m)
  PROVE  direct' \in Seq(Outputs) /\ DOMAIN lost' = T!Sessions
<1>1. CASE Len(direct) < DirectCap
  BY <1>1, AppendProperties DEF T!Emit
<1>2. CASE ~(Len(direct) < DirectCap)
  BY <1>2 DEF T!Emit, T!Lose
<1> QED BY <1>1, <1>2

LEMMA OutTyped ==
  ASSUME NEW s \in T!Sessions, NEW k \in Kinds, NEW n \in Nat
  PROVE  T!Out(s, k, n) \in Outputs
BY DEF T!Out, Outputs

\* A part of what is on the stream.
LEMMA SuffixTyped ==
  ASSUME NEW S, NEW q \in Seq(S), NEW n \in 0..Len(q)
  PROVE  /\ SubSeq(q, n + 1, Len(q)) \in Seq(S) /\ Len(SubSeq(q, n + 1, Len(q))) = Len(q) - n
         /\ \A p \in 1..(Len(q) - n) : SubSeq(q, n + 1, Len(q))[p] = q[p + n]
<1>1. Len(q) \in Nat /\ \A p \in 1..Len(q) : q[p] \in S
  BY LenProperties, ElementOfSeq
<1>2. n + 1 \in 1..(Len(q) + 1) /\ Len(q) \in n..Len(q)
  BY <1>1
<1>3. /\ SubSeq(q, n + 1, Len(q)) \in Seq(S)
      /\ Len(SubSeq(q, n + 1, Len(q))) = IF n + 1 <= Len(q) THEN Len(q) - (n + 1) + 1 ELSE 0
      /\ \A p \in 1..(Len(q) - (n + 1) + 1) : SubSeq(q, n + 1, Len(q))[p] = q[n + 1 + p - 1]
  BY <1>1, SubSeqProperties
<1> QED BY <1>1, <1>3

LEMMA TailTyped ==
  ASSUME NEW S, NEW q \in Seq(S), q # << >>
  PROVE  /\ Head(q) = q[1] /\ Head(q) \in S /\ Len(q) >= 1
         /\ Tail(q) \in Seq(S) /\ Len(Tail(q)) = Len(q) - 1
         /\ \A p \in 1..(Len(q) - 1) : Tail(q)[p] = q[p + 1]
BY HeadTailProperties, EmptySeq, LenProperties, ElementOfSeq

LEMMA TypesInit == T!Init => TermTypes
BY EmptySeq DEF T!Init, TermTypes, Outputs, Inputs

LEMMA ElementTyped ==
  ASSUME NEW S, NEW q \in Seq(S), NEW p \in DOMAIN q
  PROVE  q[p] \in S
BY ElementOfSeq, LenProperties

\* Every session has a subscription or none.
LEMMA SubTyped ==
  ASSUME TermTypes, NEW s \in T!Sessions, sub[s] # None
  PROVE  sub[s] \in Seq(Outputs)
BY DEF TermTypes

LEMMA TypesBrowser ==
  ASSUME TermTypes, LinkInv, NEW s \in T!Sessions,
         T!Open(s) \/ (\E op \in {"data", "signal", "close"} : T!Frame(s, op)) \/ T!ReadFails(s) \/ T!Close(s)
         \/ T!PumpOut(s) \/ T!PumpFails(s)
  PROVE  TermTypes'
<1> USE DEF TermTypes
<1>1. CASE T!Open(s)
  <2>1. CASE reg
    <3>1. /\ T!ToAgent(s, "open")
          /\ sub' = [sub EXCEPT ![s] = << >>]
          /\ ws' = [ws EXCEPT ![s] = "open"] /\ pump' = [pump EXCEPT ![s] = "runs"]
          /\ UNCHANGED <<sess, shell, direct, printed, shown>>
      BY <1>1, <2>1 DEF T!Open, T!agent, T!history
    <3>2. inputs' \in Seq(Inputs) /\ DOMAIN lost' = T!Sessions
      BY <3>1, ToAgentTyped
    <3> QED BY <3>1, <3>2, EmptySeq
  <2>2. CASE ~reg
    BY <1>1, <2>2 DEF T!Open, T!agent, T!history
  <2> QED BY <2>1, <2>2
<1>2. ASSUME NEW op \in {"data", "signal", "close"}, T!Frame(s, op)
      PROVE  TermTypes'
  <2>1. inputs' \in Seq(Inputs) /\ DOMAIN lost' = T!Sessions
    <3>1. CASE reg
      BY <1>2, <3>1, ToAgentTyped DEF T!Frame
    <3>2. CASE ~reg
      BY <1>2, <3>2 DEF T!Frame
    <3> QED BY <3>1, <3>2
  <2>2. ws' \in [T!Sessions -> {"idle", "open", "closing", "done"}]
    BY <1>2 DEF T!Frame
  <2> QED BY <1>2, <2>1, <2>2 DEF T!Frame, T!agent, T!history
<1>3. CASE T!ReadFails(s)
  BY <1>3 DEF T!ReadFails, T!agent, T!history
<1>4. CASE T!Close(s)
  <2>1. [id |-> s, kind |-> "close"] \in Inputs
    BY DEF Inputs
  <2>2. inputs' \in Seq(Inputs)
    BY <1>4, <2>1, AppendProperties DEF T!Close
  <2> QED BY <1>4, <2>2, EmptySeq DEF T!Close, T!Forget, T!agent
<1>5. CASE T!PumpOut(s)
  <2>1. /\ sub[s] # << >> /\ shown' = [shown EXCEPT ![s] = Append(@, Head(sub[s]))]
        /\ sub' = [sub EXCEPT ![s] = Tail(@)]
    BY <1>5 DEF T!PumpOut
  <2>2. pump' \in [T!Sessions -> {"none", "runs", "over", "closed"}]
    BY <1>5 DEF T!PumpOut
  <2>3. sub[s] # None
    BY <1>5 DEF T!PumpOut, LinkInv
  <2>4. Head(sub[s]) \in Outputs /\ Tail(sub[s]) \in Seq(Outputs)
    BY <2>1, <2>3, SubTyped, TailTyped
  <2>5. Append(shown[s], Head(sub[s])) \in Seq(Outputs)
    BY <2>4, AppendProperties
  <2> QED BY <1>5, <2>1, <2>2, <2>4, <2>5 DEF T!PumpOut, T!agent
<1>6. CASE T!PumpFails(s)
  BY <1>6 DEF T!PumpFails, T!agent, T!history
<1> QED BY <1>1, <1>2, <1>3, <1>4, <1>5, <1>6

\* Starting a shell, or the failure to.
LEMMA TypesStart ==
  ASSUME TermTypes, NEW s \in T!Sessions, T!Start(s)
  PROVE  /\ direct' \in Seq(Outputs) /\ DOMAIN lost' = T!Sessions /\ sess' \subseteq T!Sessions
         /\ shell' \in [T!Sessions -> {"none", "runs", "ended", "gone"}]
<1>1. T!Out(s, "error", 0) \in Outputs /\ T!Out(s, "started", 0) \in Outputs
  BY OutTyped DEF Kinds
<1>2. CASE T!Emit(T!Out(s, "error", 0)) /\ UNCHANGED <<sess, shell>>
  BY <1>1, <1>2, EmitTyped DEF TermTypes
<1>3. CASE /\ sess' = sess \cup {s} /\ shell' = [shell EXCEPT ![s] = "runs"]
           /\ T!Emit(T!Out(s, "started", 0))
  BY <1>1, <1>3, EmitTyped DEF TermTypes
<1> QED BY <1>2, <1>3 DEF T!Start

LEMMA KillTyped ==
  ASSUME TermTypes, NEW S, T!Kill(S)
  PROVE  /\ shell' \in [T!Sessions -> {"none", "runs", "ended", "gone"}]
         /\ \A s \in T!Sessions : shell'[s] = IF s \in S \cap sess /\ shell[s] = "runs" THEN "ended" ELSE shell[s]
BY DEF T!Kill, TermTypes

\* What Handle does with the first input.
Handled(m) ==
  \/ m.kind = "open" /\ T!Start(m.id) /\ UNCHANGED stuck
  \/ /\ m.kind = "close"
     /\ sess' = sess \ {m.id} /\ T!Kill({m.id})
     /\ UNCHANGED <<stuck, direct, tfaults, lost>>
  \/ /\ m.kind \in {"data", "signal"}
     /\ T!Kill({m.id}) \/ shell' = shell
     /\ UNCHANGED <<sess, direct, lost>>

LEMMA HandleIs ==
  ASSUME TermTypes, T!Handle
  PROVE  /\ live /\ serving /\ inputs # << >> /\ Head(inputs) \in Inputs /\ Handled(Head(inputs))
         /\ inputs' = Tail(inputs)
         /\ UNCHANGED <<T!link, T!browser, T!history>>
<1>1. Head(inputs) \in Inputs
  BY TailTyped DEF TermTypes, T!Handle
<1> QED BY <1>1 DEF T!Handle, Handled, T!agent

LEMMA TypesHandle ==
  ASSUME TermTypes, T!Handle
  PROVE  TermTypes'
<1> DEFINE m == Head(inputs)
<1>1. /\ m \in Inputs /\ Handled(m) /\ inputs # << >> /\ inputs' = Tail(inputs)
      /\ UNCHANGED <<T!link, T!browser, T!history>>
  BY HandleIs
<1>2. m.id \in T!Sessions
  BY <1>1 DEF Inputs
<1>3. inputs' \in Seq(Inputs)
  BY <1>1, TailTyped DEF TermTypes
<1> HIDE DEF m
<1>4. /\ direct' \in Seq(Outputs) /\ DOMAIN lost' = T!Sessions /\ sess' \subseteq T!Sessions
      /\ shell' \in [T!Sessions -> {"none", "runs", "ended", "gone"}]
  <2>1. CASE m.kind = "open" /\ T!Start(m.id) /\ UNCHANGED stuck
    BY <1>2, <2>1, TypesStart
  <2>2. CASE m.kind # "open" /\ (T!Kill({m.id}) \/ shell' = shell) /\ UNCHANGED <<direct, lost>>
             /\ (sess' = sess \/ sess' = sess \ {m.id})
    BY <2>2, KillTyped DEF TermTypes
  <2> QED BY <1>1, <2>1, <2>2 DEF Handled
<1> QED BY <1>1, <1>3, <1>4 DEF TermTypes, T!browser, T!history

LEMMA TypesAgent ==
  ASSUME TermTypes, NEW s \in T!Sessions, T!Output(s) \/ T!Exits(s) \/ T!PumpEnds(s)
  PROVE  TermTypes'
<1>1. CASE T!Output(s)
  <2>1. T!Out(s, "data", printed[s] + 1) \in Outputs
    BY OutTyped DEF Kinds, TermTypes
  <2>2. direct' \in Seq(Outputs) /\ DOMAIN lost' = T!Sessions
    BY <1>1, <2>1, EmitTyped DEF T!Output, TermTypes
  <2> QED BY <1>1, <2>2 DEF T!Output, TermTypes, T!browser, T!agent
<1>2. CASE T!Exits(s)
  BY <1>2 DEF T!Exits, TermTypes, T!browser, T!history
<1>3. CASE T!PumpEnds(s)
  <2>1. T!Out(s, "exit", 0) \in Outputs
    BY OutTyped DEF Kinds
  <2>2. direct' \in Seq(Outputs) /\ DOMAIN lost' = T!Sessions
    BY <1>3, <2>1, EmitTyped DEF T!PumpEnds, TermTypes
  <2> QED BY <1>3, <2>2 DEF T!PumpEnds, TermTypes, T!browser, T!history
<1> QED BY <1>1, <1>2, <1>3

\* Deliver, as it concerns the session of the first output.
LEMMA DeliverIs ==
  ASSUME TermTypes, T!Deliver
  PROVE  /\ live /\ direct # << >> /\ Head(direct) \in Outputs /\ direct' = Tail(direct)
         /\ UNCHANGED <<T!link, ws, pump, inputs, T!agent, T!history>>
         /\ LET m == Head(direct) IN
              \/ sub[m.id] = None /\ UNCHANGED <<sub, lost>>
              \/ sub[m.id] # None /\ sub' = [sub EXCEPT ![m.id] = Append(@, m)] /\ UNCHANGED lost
              \/ sub[m.id] # None /\ T!Lose(<<m>>) /\ UNCHANGED sub
<1>1. Head(direct) \in Outputs
  BY TailTyped DEF TermTypes, T!Deliver
<1> QED BY <1>1 DEF T!Deliver

LEMMA TypesStream ==
  ASSUME TermTypes,
         T!Deliver \/ T!WriteReturns \/ T!Drop \/ T!CloseAll \/ T!RemoveStream \/ T!Connect \/ T!AgentCrash
  PROVE  TermTypes'
<1>1. CASE T!Deliver
  <2> DEFINE m == Head(direct)
  <2>1. m \in Outputs /\ m.id \in T!Sessions /\ Tail(direct) \in Seq(Outputs)
    BY <1>1, DeliverIs, TailTyped DEF TermTypes, Outputs
  <2>2. DOMAIN lost' = T!Sessions
    BY <1>1, DeliverIs DEF TermTypes, T!Lose
  <2>3. sub' \in [T!Sessions -> {None} \cup Seq(Outputs)]
    <3>1. CASE sub' = sub
      BY <3>1 DEF TermTypes
    <3>2. CASE sub[m.id] # None /\ sub' = [sub EXCEPT ![m.id] = Append(@, m)]
      <4>1. Append(sub[m.id], m) \in Seq(Outputs)
        BY <2>1, <3>2, SubTyped, AppendProperties
      <4> QED BY <3>2, <4>1 DEF TermTypes
    <3> QED BY <1>1, <3>1, <3>2, DeliverIs
  <2> QED BY <1>1, <2>1, <2>2, <2>3, DeliverIs DEF TermTypes, T!agent, T!history
<1>2. CASE T!WriteReturns
  BY <1>2 DEF T!WriteReturns, TermTypes, T!browser, T!history
<1>3. CASE T!Drop
  <2>1. PICK n \in 0..Len(direct) : /\ direct' = SubSeq(direct, n + 1, Len(direct))
                                    /\ T!Lose(inputs \o SubSeq(direct, 1, n))
    BY <1>3 DEF T!Drop
  <2>2. direct' \in Seq(Outputs)
    BY <2>1, SuffixTyped DEF TermTypes
  <2>3. DOMAIN lost' = T!Sessions
    BY <2>1 DEF T!Lose
  <2> QED BY <1>3, <2>2, <2>3, EmptySeq DEF T!Drop, TermTypes, T!browser, T!agent, T!history
<1>4. CASE T!CloseAll
  BY <1>4, KillTyped DEF T!CloseAll, TermTypes, T!browser, T!history
<1>5. CASE T!RemoveStream \/ T!Connect
  BY <1>5 DEF T!RemoveStream, T!Connect, TermTypes, T!browser, T!agent, T!history
<1>6. CASE T!AgentCrash
  BY <1>6, EmptySeq DEF T!AgentCrash, TermTypes, T!browser, T!history
<1> QED BY <1>1, <1>2, <1>3, <1>4, <1>5, <1>6

-----------------------------------------------------------------------------
(***************************************************************************)
(* What is on its way to the agent.                                        *)
(***************************************************************************)
\* An open that is on its way, in the words of LinkInv.
OpenRight(i) ==
  inputs[i].kind = "open" =>
    /\ shell[inputs[i].id] = "none"
    /\ ws[inputs[i].id] = "done" => Ending(inputs[i].id, i)
    /\ \A j \in DOMAIN inputs : inputs[j] = inputs[i] => j = i

\* One more input: an open only of a session nothing was said of.
LEMMA OpenAppend ==
  ASSUME TermTypes, NEW m \in Inputs, inputs' = Append(inputs, m), shell' = shell,
         \A i \in DOMAIN inputs : OpenRight(i),
         \A i \in DOMAIN inputs : m.kind = "open" => inputs[i].id # m.id,
         m.kind = "open" => shell[m.id] = "none" /\ ws'[m.id] # "done",
         \A s \in T!Sessions : ws'[s] = "done" => ws[s] = "done" \/ m = [id |-> s, kind |-> "close"]
  PROVE  \A i \in DOMAIN inputs' : OpenRight(i)'
<1> DEFINE n == Len(inputs)
<1>1. /\ n \in Nat /\ DOMAIN inputs = 1..n /\ DOMAIN inputs' = 1..(n + 1)
      /\ \A i \in 1..n : inputs'[i] = inputs[i] /\ inputs[i] \in Inputs
      /\ inputs'[n + 1] = m
  BY AppendProperties, LenProperties, ElementTyped DEF TermTypes
<1> HIDE DEF n
<1>2. ASSUME NEW i \in DOMAIN inputs', inputs'[i].kind = "open"
      PROVE  OpenRight(i)'
  <2>1. CASE i = n + 1
    <3>1. inputs'[i] = m /\ m.kind = "open"
      BY <1>1, <1>2, <2>1
    <3>2. ASSUME NEW j \in DOMAIN inputs', inputs'[j] = m PROVE j = i
      <4>1. CASE j \in 1..n
        BY <1>1, <3>1, <3>2, <4>1
      <4> QED BY <1>1, <2>1, <4>1
    <3> QED BY <3>1, <3>2 DEF OpenRight
  <2>2. CASE i \in 1..n
    <3>1. inputs'[i] = inputs[i] /\ OpenRight(i) /\ inputs[i].id \in T!Sessions /\ inputs[i].kind = "open"
      BY <1>1, <1>2, <2>2 DEF Inputs
    <3>2. ASSUME ws'[inputs[i].id] = "done" PROVE Ending(inputs[i].id, i)'
      <4>1. CASE ws[inputs[i].id] = "done"
        <5>1. PICK j \in DOMAIN inputs : j > i /\ inputs[j] = [id |-> inputs[i].id, kind |-> "close"]
          BY <3>1, <4>1 DEF OpenRight, Ending
        <5> QED BY <1>1, <3>1, <5>1 DEF Ending
      <4>2. CASE m = [id |-> inputs[i].id, kind |-> "close"]
        BY <1>1, <2>2, <3>1, <4>2 DEF Ending
      <4> QED BY <3>1, <3>2, <4>1, <4>2
    <3>3. ASSUME NEW j \in DOMAIN inputs', inputs'[j] = inputs'[i] PROVE j = i
      <4>1. CASE j \in 1..n
        BY <1>1, <3>1, <3>3, <4>1 DEF OpenRight
      <4>2. CASE j = n + 1
        BY <1>1, <2>2, <3>1, <3>3, <4>2
      <4> QED BY <1>1, <4>1, <4>2
    <3> QED BY <3>1, <3>2, <3>3 DEF OpenRight
  <2> QED BY <1>1, <2>1, <2>2
<1> QED BY <1>2 DEF OpenRight

\* The first input is taken, which starts at most the shell it is about.
LEMMA OpenTail ==
  ASSUME TermTypes, inputs # << >>, inputs' = Tail(inputs), ws' = ws,
         \A i \in DOMAIN inputs : OpenRight(i),
         \A s \in T!Sessions : shell[s] = "none" /\ shell'[s] # "none" => Head(inputs) = [id |-> s, kind |-> "open"]
  PROVE  \A i \in DOMAIN inputs' : OpenRight(i)'
<1> DEFINE n == Len(inputs)
<1>1. /\ n \in Nat /\ n >= 1 /\ DOMAIN inputs = 1..n /\ DOMAIN inputs' = 1..(n - 1)
      /\ \A i \in 1..(n - 1) : inputs'[i] = inputs[i + 1]
      /\ \A i \in 1..n : inputs[i] \in Inputs
      /\ Head(inputs) = inputs[1]
  BY TailTyped, LenProperties, ElementTyped DEF TermTypes
<1> HIDE DEF n
<1>2. ASSUME NEW i \in DOMAIN inputs', inputs'[i].kind = "open"
      PROVE  OpenRight(i)'
  <2>1. i + 1 \in 1..n /\ 1 \in 1..n /\ i + 1 # 1 /\ inputs'[i] = inputs[i + 1]
    BY <1>1, <1>2
  <2>2. OpenRight(i + 1) /\ inputs[i + 1].kind = "open" /\ inputs[i + 1] \in Inputs
    BY <1>1, <1>2, <2>1
  <2>3. inputs[i + 1].id \in T!Sessions /\ inputs[i + 1] = [id |-> inputs[i + 1].id, kind |-> "open"]
    BY <2>2 DEF Inputs
  <2>4. Head(inputs) # inputs[i + 1]
    BY <1>1, <2>1, <2>2 DEF OpenRight
  <2>5. shell'[inputs[i + 1].id] = "none"
    BY <2>2, <2>3, <2>4 DEF OpenRight
  <2>6. ASSUME ws'[inputs'[i].id] = "done" PROVE Ending(inputs[i].id, i)'
    <3>1. PICK j \in DOMAIN inputs : j > i + 1 /\ inputs[j] = [id |-> inputs[i + 1].id, kind |-> "close"]
      BY <2>1, <2>2, <2>6 DEF OpenRight, Ending
    <3>2. j \in 1..n /\ j > i + 1 /\ i \in 1..(n - 1)
      BY <1>1, <1>2, <3>1
    <3>3. j - 1 \in 1..(n - 1) /\ j - 1 > i /\ (j - 1) + 1 = j
      BY <1>1, <3>2
    <3>4. inputs'[j - 1] = [id |-> inputs'[i].id, kind |-> "close"]
      BY <1>1, <2>1, <3>1, <3>3
    <3>5. j - 1 \in DOMAIN inputs'
      BY <1>1, <3>3
    <3> QED BY <3>3, <3>4, <3>5 DEF Ending
  <2>7. ASSUME NEW j \in DOMAIN inputs', inputs'[j] = inputs'[i] PROVE j = i
    <3>1. j + 1 \in 1..n /\ inputs[j + 1] = inputs[i + 1]
      BY <1>1, <2>1, <2>7
    <3>2. j + 1 = i + 1
      BY <1>1, <2>2, <3>1 DEF OpenRight
    <3>3. i \in 1..(n - 1) /\ j \in 1..(n - 1)
      BY <1>1, <1>2, <2>7
    <3> QED BY <1>1, <3>2, <3>3
  <2> QED BY <2>1, <2>5, <2>6, <2>7 DEF OpenRight
<1> QED BY <1>2 DEF OpenRight

\* Nothing happens to the inputs, and no shell starts.
LEMMA OpenSame ==
  ASSUME TermTypes, inputs' = inputs, \A s \in T!Sessions : shell[s] = "none" => shell'[s] = "none",
         \A s \in T!Sessions : ws'[s] = "done" => ws[s] = "done" \/ ~Opening(s),
         \A i \in DOMAIN inputs : OpenRight(i)
  PROVE  \A i \in DOMAIN inputs' : OpenRight(i)'
<1> SUFFICES ASSUME NEW i \in DOMAIN inputs, inputs[i].kind = "open" PROVE OpenRight(i)'
  BY DEF OpenRight
<1>1. inputs[i] \in Inputs
  BY ElementTyped DEF TermTypes
<1>2. inputs[i].id \in T!Sessions /\ inputs[i] = [id |-> inputs[i].id, kind |-> "open"]
  BY <1>1 DEF Inputs
<1>3. Opening(inputs[i].id)
  BY <1>2 DEF Opening
<1> QED BY <1>2, <1>3 DEF OpenRight, Ending

LEMMA OpenNone ==
  ASSUME inputs' = << >>
  PROVE  \A i \in DOMAIN inputs' : OpenRight(i)'
OBVIOUS

\* What is in a sequence that grew or lost its first element.
LEMMA AppendedIs ==
  ASSUME NEW S, NEW q \in Seq(S), NEW m \in S
  PROVE  /\ Append(q, m) \in Seq(S) /\ Len(Append(q, m)) = Len(q) + 1
         /\ DOMAIN q = 1..Len(q) /\ DOMAIN Append(q, m) = 1..(Len(q) + 1) /\ Len(q) \in Nat
         /\ \A i \in DOMAIN Append(q, m) : Append(q, m)[i] = m \/ \E j \in DOMAIN q : Append(q, m)[i] = q[j]
         /\ \A i \in DOMAIN q : i \in DOMAIN Append(q, m) /\ Append(q, m)[i] = q[i]
         /\ \E i \in DOMAIN Append(q, m) : Append(q, m)[i] = m
<1>1. /\ Append(q, m) \in Seq(S) /\ Len(Append(q, m)) = Len(q) + 1 /\ Len(q) \in Nat
      /\ \A i \in 1..Len(q) : Append(q, m)[i] = q[i]
      /\ Append(q, m)[Len(q) + 1] = m
      /\ DOMAIN q = 1..Len(q) /\ DOMAIN Append(q, m) = 1..(Len(q) + 1)
  BY AppendProperties, LenProperties
<1> QED BY <1>1

LEMMA TailIs ==
  ASSUME NEW S, NEW q \in Seq(S), q # << >>
  PROVE  /\ Tail(q) \in Seq(S) /\ Head(q) = q[1] /\ 1 \in DOMAIN q
         /\ \A i \in DOMAIN Tail(q) : i + 1 \in DOMAIN q /\ Tail(q)[i] = q[i + 1]
         /\ \A j \in DOMAIN q : j > 1 => j - 1 \in DOMAIN Tail(q) /\ Tail(q)[j - 1] = q[j]
         /\ \A j \in DOMAIN q : j = 1 \/ j > 1
<1>1. /\ Head(q) = q[1] /\ Len(q) >= 1 /\ Len(q) \in Nat
      /\ Tail(q) \in Seq(S) /\ Len(Tail(q)) = Len(q) - 1
      /\ \A p \in 1..(Len(q) - 1) : Tail(q)[p] = q[p + 1]
      /\ DOMAIN q = 1..Len(q) /\ DOMAIN Tail(q) = 1..(Len(q) - 1)
  BY TailTyped, LenProperties
<1> QED BY <1>1

\* Nobody hears of a session that is not open.
Known ==
  /\ \A i \in DOMAIN inputs : ws[inputs[i].id] # "idle"
  /\ \A i \in DOMAIN direct : ws[direct[i].id] # "idle"

\* A stream that works, and what is true of each session.
Sides ==
  /\ live => reg /\ serving
  /\ ~live => inputs = << >>
  /\ \A s \in T!Sessions : ws[s] = "idle" => shell[s] = "none"
  /\ \A s \in T!Sessions : sub[s] # None <=> ws[s] \in {"open", "closing"}
  /\ \A s \in T!Sessions : shell[s] = "runs" => s \in sess /\ serving
  /\ \A s \in T!Sessions : shell[s] = "none" => printed[s] = 0
  /\ \A s \in T!Sessions : ws[s] \in {"idle", "done"} => pump[s] = "none" /\ shown[s] = << >>

LEMMA LinkParts == LinkInv <=> Sides /\ Known /\ \A i \in DOMAIN inputs : OpenRight(i)
BY DEF LinkInv, Sides, Known, OpenRight

LEMMA LinkBack == Sides' /\ Known' /\ (\A i \in DOMAIN inputs' : OpenRight(i)') => LinkInv'
BY DEF LinkInv, Sides, Known, OpenRight

LEMMA IdsTyped ==
  ASSUME TermTypes
  PROVE  /\ \A i \in DOMAIN inputs : inputs[i] \in Inputs /\ inputs[i].id \in T!Sessions
         /\ \A i \in DOMAIN direct : direct[i] \in Outputs /\ direct[i].id \in T!Sessions
<1>1. \A i \in DOMAIN inputs : inputs[i] \in Inputs
  BY ElementTyped DEF TermTypes
<1>2. \A i \in DOMAIN direct : direct[i] \in Outputs
  BY ElementTyped DEF TermTypes
<1> QED BY <1>1, <1>2 DEF Inputs, Outputs

LEMMA DownAppended ==
  ASSUME TermTypes, TermTypes', Known, NEW m \in Inputs, inputs' = Append(inputs, m), direct' = direct,
         ws'[m.id] # "idle", \A s \in T!Sessions : ws[s] # "idle" => ws'[s] # "idle"
  PROVE  Known'
<1>1. \A i \in DOMAIN inputs' : inputs'[i] = m \/ \E j \in DOMAIN inputs : inputs'[i] = inputs[j]
  BY AppendedIs DEF TermTypes
<1>2. /\ \A i \in DOMAIN inputs : inputs[i].id \in T!Sessions
      /\ \A i \in DOMAIN direct : direct[i].id \in T!Sessions
  BY IdsTyped
<1> QED BY <1>1, <1>2 DEF Known

LEMMA KnownSame ==
  ASSUME TermTypes, Known, \A s \in T!Sessions : ws[s] # "idle" => ws'[s] # "idle",
         \A i \in DOMAIN inputs' : \E j \in DOMAIN inputs : inputs'[i] = inputs[j],
         \A i \in DOMAIN direct' : \E j \in DOMAIN direct : direct'[i] = direct[j]
  PROVE  Known'
<1>1. /\ \A i \in DOMAIN inputs : inputs[i].id \in T!Sessions
      /\ \A i \in DOMAIN direct : direct[i].id \in T!Sessions
  BY IdsTyped
<1> QED BY <1>1 DEF Known

LEMMA NullHasNoSequence == None \notin Seq(Outputs)
BY TerminalsAssumption DEF Outputs, Kinds, T!Sessions

LEMMA LinkInit == T!Init => LinkInv
BY DEF T!Init, LinkInv

LEMMA LinkOpen ==
  ASSUME TermTypes, TermTypes', LinkInv, NEW s \in T!Sessions, T!Open(s)
  PROVE  LinkInv'
<1>p. Sides /\ Known /\ \A i \in DOMAIN inputs : OpenRight(i)
  BY LinkParts
<1>0. /\ ws[s] = "idle" /\ shell' = shell /\ direct' = direct /\ live' = live /\ reg' = reg /\ serving' = serving
      /\ sess' = sess /\ printed' = printed /\ shown' = shown
  BY DEF T!Open, T!link, T!agent, T!history, TermTypes
<1>1. \A i \in DOMAIN inputs : inputs[i].id # s
  BY <1>0, <1>p DEF Known, TermTypes
<1>2. CASE reg
  <2>1. /\ T!ToAgent(s, "open") /\ sub' = [sub EXCEPT ![s] = << >>]
        /\ ws' = [ws EXCEPT ![s] = "open"] /\ pump' = [pump EXCEPT ![s] = "runs"]
    BY <1>2 DEF T!Open, TermTypes
  <2>2. Sides'
    <3>1. ~live => inputs' = << >>
      BY <2>1, <1>p DEF T!ToAgent, Sides, TermTypes
    <3>2. << >> # None
      BY NullHasNoSequence, EmptySeq
    <3> QED BY <1>0, <2>1, <3>1, <3>2, <1>p DEF Sides, TermTypes
  <2>3. CASE live
    <3> DEFINE m == [id |-> s, kind |-> "open"]
    <3>1. m \in Inputs /\ m.id = s /\ m.kind = "open" /\ inputs' = Append(inputs, m)
      BY <2>1, <2>3 DEF T!ToAgent, Inputs
    <3> HIDE DEF m
    <3>2. Known'
      <4>1. ws'[m.id] # "idle" /\ \A r \in T!Sessions : ws[r] # "idle" => ws'[r] # "idle"
        BY <2>1, <3>1 DEF TermTypes
      <4> QED BY <1>0, <3>1, <4>1, DownAppended, <1>p
    <3>3. \A i \in DOMAIN inputs' : OpenRight(i)'
      <4>1. shell[m.id] = "none" /\ ws'[m.id] # "done"
        BY <1>0, <2>1, <3>1, <1>p DEF Sides, TermTypes
      <4>2. \A i \in DOMAIN inputs : m.kind = "open" => inputs[i].id # m.id
        BY <1>1, <3>1
      <4>3. \A r \in T!Sessions : ws'[r] = "done" => ws[r] = "done"
        BY <2>1
      <4> QED BY <1>0, <3>1, <4>1, <4>2, <4>3, OpenAppend, <1>p
    <3> QED BY <2>2, <3>2, <3>3, LinkBack
  <2>4. CASE ~live
    <3>1. inputs' = << >> /\ inputs = << >>
      BY <2>1, <2>4, <1>p DEF T!ToAgent, Sides, TermTypes
    <3>2. Known'
      BY <1>0, <2>1, <3>1, KnownSame, <1>p
    <3> QED BY <2>2, <3>1, <3>2, OpenNone, LinkBack
  <2> QED BY <2>3, <2>4
<1>3. CASE ~reg
  <2>1. ws' = [ws EXCEPT ![s] = "done"] /\ UNCHANGED <<sub, pump, inputs, lost>>
    BY <1>3 DEF T!Open, TermTypes
  <2>2. inputs = << >> /\ inputs' = << >>
    BY <1>3, <2>1, <1>p DEF Sides, TermTypes
  <2>3. Sides'
    BY <1>0, <2>1, <1>p DEF Sides, TermTypes
  <2>4. Known'
    BY <1>0, <2>1, <2>2, KnownSame, <1>p
  <2> QED BY <2>2, <2>3, <2>4, OpenNone, LinkBack
<1> QED BY <1>2, <1>3

LEMMA LinkFrame ==
  ASSUME TermTypes, TermTypes', LinkInv, NEW s \in T!Sessions, NEW op \in {"data", "signal", "close"}, T!Frame(s, op)
  PROVE  LinkInv'
<1>p. Sides /\ Known /\ \A i \in DOMAIN inputs : OpenRight(i)
  BY LinkParts
<1>0. /\ ws[s] = "open" /\ ws' = [ws EXCEPT ![s] = IF ~reg \/ op = "close" THEN "closing" ELSE @]
      /\ UNCHANGED <<live, reg, serving, pump, sub, sess, shell, direct, printed, shown>>
  BY DEF T!Frame, T!link, T!agent, T!history, TermTypes
<1>1. /\ \A r \in T!Sessions : ws'[r] = "done" => ws[r] = "done"
      /\ \A r \in T!Sessions : ws[r] # "idle" => ws'[r] # "idle"
      /\ \A r \in T!Sessions : ws'[r] \in {"open", "closing"} <=> ws[r] \in {"open", "closing"}
      /\ \A r \in T!Sessions : ws'[r] = "idle" <=> ws[r] = "idle"
  BY <1>0 DEF TermTypes
<1>2. \/ inputs' = inputs
      \/ live /\ inputs' = Append(inputs, [id |-> s, kind |-> op])
  BY DEF T!Frame, T!ToAgent, TermTypes
<1>3. Sides'
  BY <1>0, <1>1, <1>2, <1>p DEF Sides, TermTypes
<1>4. CASE inputs' = inputs
  <2>1. Known'
    BY <1>0, <1>1, <1>4, KnownSame, <1>p
  <2>2. \A i \in DOMAIN inputs' : OpenRight(i)'
    BY <1>0, <1>1, <1>4, OpenSame, <1>p
  <2> QED BY <1>3, <2>1, <2>2, LinkBack
<1>5. CASE inputs' = Append(inputs, [id |-> s, kind |-> op])
  <2> DEFINE m == [id |-> s, kind |-> op]
  <2>1. m \in Inputs /\ m.id = s /\ m.kind # "open" /\ inputs' = Append(inputs, m)
    BY <1>5 DEF Inputs
  <2> HIDE DEF m
  <2>2. Known'
    <3>1. ws'[m.id] # "idle"
      BY <1>0, <2>1
    <3> QED BY <1>0, <1>1, <2>1, <3>1, DownAppended, <1>p
  <2>3. \A i \in DOMAIN inputs' : OpenRight(i)'
    BY <1>0, <1>1, <2>1, OpenAppend, <1>p
  <2> QED BY <1>3, <2>2, <2>3, LinkBack
<1> QED BY <1>2, <1>4, <1>5

\* serve ends, or the browser is written to.
LEMMA LinkBrowser ==
  ASSUME TermTypes, TermTypes', LinkInv, NEW s \in T!Sessions, T!ReadFails(s) \/ T!PumpOut(s) \/ T!PumpFails(s)
  PROVE  LinkInv'
<1>p. Sides /\ Known /\ \A i \in DOMAIN inputs : OpenRight(i)
  BY LinkParts
<1>0. /\ UNCHANGED <<live, reg, serving, inputs, sess, shell, direct, printed>>
      /\ ws' = ws \/ (ws[s] = "open" /\ ws' = [ws EXCEPT ![s] = "closing"])
  BY DEF T!ReadFails, T!PumpOut, T!PumpFails, T!link, T!agent, T!history, TermTypes
<1>1. /\ \A r \in T!Sessions : ws'[r] = "done" => ws[r] = "done"
      /\ \A r \in T!Sessions : ws[r] # "idle" => ws'[r] # "idle"
      /\ \A r \in T!Sessions : ws'[r] \in {"open", "closing"} <=> ws[r] \in {"open", "closing"}
      /\ \A r \in T!Sessions : ws'[r] = "idle" <=> ws[r] = "idle"
  BY <1>0 DEF TermTypes
<1>2. \A r \in T!Sessions : sub'[r] # None <=> sub[r] # None
  <2>1. CASE T!PumpOut(s)
    <3>1. sub[s] # None /\ sub[s] # << >> /\ sub' = [sub EXCEPT ![s] = Tail(@)]
      BY <2>1, <1>p DEF T!PumpOut, Sides, TermTypes
    <3>2. Tail(sub[s]) # None
      BY <3>1, SubTyped, TailTyped, NullHasNoSequence
    <3> QED BY <3>1, <3>2
  <2>2. CASE T!ReadFails(s) \/ T!PumpFails(s)
    BY <2>2 DEF T!ReadFails, T!PumpFails, TermTypes
  <2> QED BY <2>1, <2>2
<1>3. \A r \in T!Sessions : ws[r] \in {"idle", "done"} => pump'[r] = pump[r] /\ shown'[r] = shown[r]
  <2>1. ws[s] \in {"open", "closing"}
    BY <1>p DEF T!ReadFails, T!PumpOut, T!PumpFails, Sides, TermTypes
  <2> QED BY <2>1 DEF T!ReadFails, T!PumpOut, T!PumpFails, T!history, TermTypes
<1>4. Sides'
  BY <1>0, <1>1, <1>2, <1>3, <1>p DEF Sides, TermTypes
<1>5. Known'
  BY <1>0, <1>1, KnownSame, <1>p
<1>6. \A i \in DOMAIN inputs' : OpenRight(i)'
  BY <1>0, <1>1, OpenSame, <1>p
<1> QED BY <1>4, <1>5, <1>6, LinkBack

LEMMA LinkClose ==
  ASSUME TermTypes, TermTypes', LinkInv, NEW s \in T!Sessions, T!Close(s)
  PROVE  LinkInv'
<1>p. Sides /\ Known /\ \A i \in DOMAIN inputs : OpenRight(i)
  BY LinkParts
<1>0. /\ ws[s] = "closing" /\ ws' = [ws EXCEPT ![s] = "done"] /\ sub' = [sub EXCEPT ![s] = None]
      /\ pump' = [pump EXCEPT ![s] = "none"] /\ shown' = [shown EXCEPT ![s] = << >>]
      /\ UNCHANGED <<live, reg, serving, sess, shell, direct, printed>>
  BY DEF T!Close, T!Forget, T!link, T!agent, TermTypes
<1>1. /\ live => inputs' = Append(inputs, [id |-> s, kind |-> "close"])
      /\ ~live => inputs' = << >> /\ inputs = << >>
  BY <1>p DEF T!Close, Sides, TermTypes
<1>2. Sides'
  BY <1>0, <1>1, <1>p DEF Sides, TermTypes
<1>3. \A r \in T!Sessions : ws[r] # "idle" => ws'[r] # "idle"
  BY <1>0
<1>4. CASE live
  <2> DEFINE m == [id |-> s, kind |-> "close"]
  <2>1. m \in Inputs /\ m.id = s /\ m.kind # "open" /\ inputs' = Append(inputs, m)
    BY <1>1, <1>4 DEF Inputs
  <2>2. \A r \in T!Sessions : ws'[r] = "done" => ws[r] = "done" \/ m = [id |-> r, kind |-> "close"]
    BY <1>0
  <2> HIDE DEF m
  <2>3. Known'
    <3>1. ws'[m.id] # "idle"
      BY <1>0, <2>1
    <3> QED BY <1>0, <1>3, <2>1, <3>1, DownAppended, <1>p
  <2>4. \A i \in DOMAIN inputs' : OpenRight(i)'
    BY <1>0, <2>1, <2>2, OpenAppend, <1>p
  <2> QED BY <1>2, <2>3, <2>4, LinkBack
<1>5. CASE ~live
  <2>1. Known'
    BY <1>0, <1>1, <1>3, <1>5, KnownSame, <1>p
  <2> QED BY <1>1, <1>2, <1>5, <2>1, OpenNone, LinkBack
<1> QED BY <1>4, <1>5

\* What emit puts into the direct buffer.
LEMMA EmitIs ==
  ASSUME TermTypes, NEW m \in Outputs, T!Emit(m)
  PROVE  \/ direct' = Append(direct, m) /\ lost' = lost
         \/ direct' = direct /\ T!Lose(<<m>>)
BY DEF T!Emit

LEMMA EmitKnown ==
  ASSUME TermTypes, Known, NEW m \in Outputs, ws[m.id] # "idle", T!Emit(m), ws' = ws,
         \A i \in DOMAIN inputs' : \E j \in DOMAIN inputs : inputs'[i] = inputs[j]
  PROVE  Known'
<1>1. CASE direct' = direct
  BY <1>1, KnownSame
<1>2. CASE direct' = Append(direct, m)
  <2>1. \A i \in DOMAIN direct' : direct'[i] = m \/ \E j \in DOMAIN direct : direct'[i] = direct[j]
    BY <1>2, AppendedIs DEF TermTypes
  <2>2. \A i \in DOMAIN direct' : ws'[direct'[i].id] # "idle"
    BY <2>1 DEF Known
  <2>3. \A i \in DOMAIN inputs' : ws'[inputs'[i].id] # "idle"
    BY DEF Known
  <2> QED BY <2>2, <2>3 DEF Known
<1> QED BY <1>1, <1>2, EmitIs

LEMMA LinkHandle ==
  ASSUME TermTypes, TermTypes', LinkInv, T!Handle
  PROVE  LinkInv'
<1>p. Sides /\ Known /\ \A i \in DOMAIN inputs : OpenRight(i)
  BY LinkParts
<1> DEFINE m == Head(inputs)
<1>1. /\ m \in Inputs /\ Handled(m) /\ inputs # << >> /\ inputs' = Tail(inputs) /\ live
      /\ UNCHANGED <<live, reg, serving, ws, pump, sub, printed, shown>>
  BY HandleIs DEF T!link, T!browser, T!history
<1>2. 1 \in DOMAIN inputs /\ m = inputs[1] /\ m.id \in T!Sessions
  <2>1. 1 \in DOMAIN inputs /\ m = inputs[1]
    BY <1>1, TailIs DEF TermTypes
  <2> QED BY <1>1, <2>1 DEF Inputs
<1>3. \A i \in DOMAIN inputs' : \E j \in DOMAIN inputs : inputs'[i] = inputs[j]
  BY <1>1, TailIs DEF TermTypes
<1>4. ws[m.id] # "idle" /\ (m.kind = "open" => shell[m.id] = "none")
  BY <1>2, <1>p DEF Known, OpenRight
<1>5. m = [id |-> m.id, kind |-> m.kind]
  BY <1>1 DEF Inputs
<1> HIDE DEF m
<1>6. CASE m.kind = "open" /\ T!Start(m.id)
  <2>1. T!Out(m.id, "error", 0) \in Outputs /\ T!Out(m.id, "started", 0) \in Outputs
    BY <1>2, OutTyped DEF Kinds
  <2>2. T!Out(m.id, "error", 0).id = m.id /\ T!Out(m.id, "started", 0).id = m.id
    BY DEF T!Out
  <2>3. /\ \/ shell' = shell /\ sess' = sess /\ T!Emit(T!Out(m.id, "error", 0))
           \/ shell' = [shell EXCEPT ![m.id] = "runs"] /\ sess' = sess \cup {m.id} /\ T!Emit(T!Out(m.id, "started", 0))
    BY <1>6 DEF T!Start
  <2>4. Sides'
    BY <1>1, <1>2, <1>4, <1>p, <2>3 DEF Sides, TermTypes
  <2>5. Known'
    BY <1>1, <1>3, <1>4, <1>p, <2>1, <2>2, <2>3, EmitKnown
  <2>6. \A i \in DOMAIN inputs' : OpenRight(i)'
    <3>1. \A r \in T!Sessions : shell[r] = "none" /\ shell'[r] # "none" => Head(inputs) = [id |-> r, kind |-> "open"]
      BY <1>5, <1>6, <2>3 DEF m, TermTypes
    <3> QED BY <1>1, <1>p, <3>1, OpenTail
  <2> QED BY <2>4, <2>5, <2>6, LinkBack
<1>7. CASE /\ m.kind # "open" /\ direct' = direct
           /\ \/ T!Kill({m.id}) /\ sess' \in {sess, sess \ {m.id}}
              \/ shell' = shell /\ sess' = sess
  <2>1. \A r \in T!Sessions : /\ shell'[r] # shell[r] => shell[r] = "runs" /\ shell'[r] = "ended"
                              /\ shell'[r] = "runs" => r \in sess'
    <3>1. CASE T!Kill({m.id}) /\ sess' \in {sess, sess \ {m.id}}
      BY <1>p, <3>1, KillTyped DEF Sides
    <3>2. CASE shell' = shell /\ sess' = sess
      BY <1>p, <3>2 DEF Sides
    <3> QED BY <1>7, <3>1, <3>2
  <2>2. Sides'
    BY <1>1, <1>p, <2>1 DEF Sides
  <2>3. Known'
    BY <1>1, <1>3, <1>7, <1>p, KnownSame
  <2>4. \A i \in DOMAIN inputs' : OpenRight(i)'
    BY <1>1, <1>p, <2>1, OpenTail
  <2> QED BY <2>2, <2>3, <2>4, LinkBack
<1> QED BY <1>1, <1>6, <1>7 DEF Handled

LEMMA LinkAgent ==
  ASSUME TermTypes, TermTypes', LinkInv, NEW s \in T!Sessions, T!Output(s) \/ T!Exits(s) \/ T!PumpEnds(s)
  PROVE  LinkInv'
<1>p. Sides /\ Known /\ \A i \in DOMAIN inputs : OpenRight(i)
  BY LinkParts
<1>1. /\ UNCHANGED <<live, reg, serving, ws, pump, sub, inputs, shown>>
      /\ shell[s] \in {"runs", "ended"} /\ ws[s] # "idle"
  BY <1>p DEF T!Output, T!Exits, T!PumpEnds, T!link, T!browser, T!history, Sides
<1>2. T!Out(s, "exit", 0) \in Outputs /\ T!Out(s, "data", printed[s] + 1) \in Outputs
  BY OutTyped DEF Kinds, TermTypes
<1>3. T!Out(s, "exit", 0).id = s /\ T!Out(s, "data", printed[s] + 1).id = s
  BY DEF T!Out
<1>4. Known'
  <2>1. CASE T!Output(s)
    BY <1>1, <1>2, <1>3, <1>p, <2>1, EmitKnown DEF T!Output
  <2>2. CASE T!Exits(s)
    BY <1>1, <1>p, <2>2, KnownSame DEF T!Exits
  <2>3. CASE T!PumpEnds(s)
    BY <1>1, <1>2, <1>3, <1>p, <2>3, EmitKnown DEF T!PumpEnds
  <2> QED BY <2>1, <2>2, <2>3
<1>5. \A r \in T!Sessions : /\ shell'[r] # shell[r] => r = s /\ shell'[r] \in {"ended", "gone"}
                            /\ shell'[r] = "runs" => r \in sess'
                            /\ printed'[r] # printed[r] => shell[r] = "runs" /\ shell'[r] = "runs"
  <2>1. CASE T!Output(s)
    BY <1>p, <2>1 DEF T!Output, T!agent, TermTypes, Sides
  <2>2. CASE T!Exits(s)
    BY <1>p, <2>2 DEF T!Exits, T!history, TermTypes, Sides
  <2>3. CASE T!PumpEnds(s)
    BY <1>p, <2>3 DEF T!PumpEnds, T!history, TermTypes, Sides
  <2> QED BY <2>1, <2>2, <2>3
<1>6. Sides'
  BY <1>1, <1>5, <1>p DEF Sides, TermTypes
<1>7. \A i \in DOMAIN inputs' : OpenRight(i)'
  BY <1>1, <1>5, <1>p, OpenSame
<1> QED BY <1>4, <1>6, <1>7, LinkBack

LEMMA LinkStream ==
  ASSUME TermTypes, TermTypes', LinkInv,
         T!Deliver \/ T!WriteReturns \/ T!Drop \/ T!CloseAll \/ T!RemoveStream \/ T!Connect \/ T!AgentCrash
  PROVE  LinkInv'
<1>p. Sides /\ Known /\ \A i \in DOMAIN inputs : OpenRight(i)
  BY LinkParts
<1>1. CASE T!Deliver
  <2> DEFINE m == Head(direct)
  <2>1. /\ direct' = Tail(direct) /\ direct # << >> /\ m \in Outputs /\ m.id \in T!Sessions
        /\ UNCHANGED <<live, reg, serving, ws, pump, inputs, sess, shell, printed, shown>>
    BY <1>1, DeliverIs DEF T!link, T!agent, T!history, Outputs
  <2>2. \A r \in T!Sessions : sub'[r] # None <=> sub[r] # None
    <3>1. CASE sub' = sub
      BY <3>1
    <3>2. CASE sub[m.id] # None /\ sub' = [sub EXCEPT ![m.id] = Append(@, m)]
      <4>1. Append(sub[m.id], m) # None
        BY <2>1, <3>2, SubTyped, AppendProperties, NullHasNoSequence
      <4> QED BY <3>2, <4>1 DEF TermTypes
    <3> QED BY <1>1, <3>1, <3>2, DeliverIs
  <2>3. Sides'
    BY <2>1, <2>2, <1>p DEF Sides
  <2>4. \A i \in DOMAIN direct' : \E j \in DOMAIN direct : direct'[i] = direct[j]
    BY <2>1, TailIs DEF TermTypes
  <2>5. Known'
    BY <2>1, <2>4, <1>p, KnownSame
  <2>6. \A i \in DOMAIN inputs' : OpenRight(i)'
    BY <2>1, <1>p, OpenSame
  <2> QED BY <2>3, <2>5, <2>6, LinkBack
<1>2. CASE T!WriteReturns \/ T!RemoveStream \/ T!Connect
  <2>1. /\ UNCHANGED <<ws, pump, sub, inputs, direct, sess, shell, printed, shown>>
        /\ live' => reg' /\ serving'
        /\ ~live' => ~live
        /\ serving => serving'
    BY <1>2, <1>p DEF T!WriteReturns, T!RemoveStream, T!Connect, T!link, T!browser, T!agent, T!history, Sides
  <2>2. Sides'
    BY <2>1, <1>p DEF Sides
  <2>3. Known'
    BY <2>1, <1>p, KnownSame
  <2>4. \A i \in DOMAIN inputs' : OpenRight(i)'
    BY <2>1, <1>p, OpenSame
  <2> QED BY <2>2, <2>3, <2>4, LinkBack
<1>3. CASE T!Drop
  <2>1. /\ UNCHANGED <<reg, serving, ws, pump, sub, sess, shell, printed, shown>>
        /\ ~live' /\ inputs' = << >>
    BY <1>3 DEF T!Drop, T!browser, T!agent, T!history
  <2>2. \A i \in DOMAIN direct' : \E j \in DOMAIN direct : direct'[i] = direct[j]
    <3>1. PICK n \in 0..Len(direct) : direct' = SubSeq(direct, n + 1, Len(direct))
      BY <1>3 DEF T!Drop
    <3>2. direct \in Seq(Outputs) /\ direct' \in Seq(Outputs) /\ Len(direct) \in Nat
      BY LenProperties DEF TermTypes
    <3>3. Len(direct') = Len(direct) - n /\ \A p \in 1..(Len(direct) - n) : direct'[p] = direct[p + n]
      BY <3>1, <3>2, SuffixTyped
    <3>4. DOMAIN direct = 1..Len(direct) /\ DOMAIN direct' = 1..(Len(direct) - n)
      BY <3>2, <3>3, LenProperties
    <3>5. ASSUME NEW i \in DOMAIN direct' PROVE i + n \in DOMAIN direct /\ direct'[i] = direct[i + n]
      BY <3>2, <3>3, <3>4
    <3> QED BY <3>5
  <2>3. Sides'
    BY <2>1, <1>p DEF Sides
  <2>4. Known'
    BY <2>1, <2>2, <1>p, KnownSame
  <2> QED BY <2>1, <2>3, <2>4, LinkBack, OpenNone
<1>4. CASE T!CloseAll
  <2>1. /\ UNCHANGED <<reg, live, ws, pump, sub, inputs, direct, printed, shown>> /\ ~live /\ T!Kill(T!Sessions)
    BY <1>4 DEF T!CloseAll, T!browser, T!history
  <2>2. \A r \in T!Sessions : /\ shell'[r] # "runs"
                              /\ shell'[r] # shell[r] => shell'[r] = "ended" /\ shell[r] = "runs"
    BY <2>1, <1>p, KillTyped DEF Sides
  <2>3. Sides'
    BY <2>1, <2>2, <1>p DEF Sides
  <2>4. Known'
    BY <2>1, <1>p, KnownSame
  <2>5. inputs' = << >>
    BY <2>1, <1>p DEF Sides
  <2> QED BY <2>3, <2>4, <2>5, LinkBack, OpenNone
<1>5. CASE T!AgentCrash
  <2>1. /\ UNCHANGED <<reg, ws, pump, sub, printed, shown>> /\ ~live' /\ inputs' = << >> /\ direct' = << >>
        /\ shell' = [s \in T!Sessions |-> IF shell[s] = "none" THEN "none" ELSE "gone"]
    BY <1>5 DEF T!AgentCrash, T!browser, T!history
  <2>2. Sides'
    BY <2>1, <1>p DEF Sides
  <2>3. Known'
    BY <2>1 DEF Known
  <2> QED BY <2>1, <2>2, <2>3, LinkBack, OpenNone
<1> QED BY <1>1, <1>2, <1>3, <1>4, <1>5

\* What ends a shell, besides its browser.
Doomed(s) ==
  \/ \E i \in DOMAIN inputs : inputs[i] = [id |-> s, kind |-> "close"]
  \/ serving /\ ~live

LEMMA OrphanKept ==
  ASSUME T!NoOrphan, Sides',
         \A s \in T!Sessions : shell'[s] = "runs" => shell[s] = "runs",
         \A s \in T!Sessions : shell'[s] = "runs" /\ ws[s] \in {"open", "closing"} => ws'[s] \in {"open", "closing"} \/ Doomed(s)',
         \A s \in T!Sessions : shell'[s] = "runs" /\ Doomed(s) => Doomed(s)'
  PROVE  T!NoOrphan'
<1> SUFFICES ASSUME NEW s \in T!Sessions, shell'[s] = "runs"
             PROVE  s \in sess' /\ (ws'[s] \in {"open", "closing"} \/ Doomed(s)')
  BY DEF T!NoOrphan, Doomed
<1>1. s \in sess'
  BY DEF Sides
<1>2. shell[s] = "runs" /\ (ws[s] \in {"open", "closing"} \/ Doomed(s))
  BY DEF T!NoOrphan, Doomed
<1> QED BY <1>1, <1>2

LEMMA OrphanInit == T!Init => T!NoOrphan
BY DEF T!Init, T!NoOrphan

LEMMA OrphanStep ==
  ASSUME TermTypes, TermTypes', LinkInv, LinkInv', T!NoOrphan, [T!Next]_(T!vars)
  PROVE  T!NoOrphan'
<1>p. Sides /\ Sides' /\ Known /\ \A i \in DOMAIN inputs : OpenRight(i)
  BY LinkParts DEF LinkInv, Sides
<1>1. ASSUME NEW s \in T!Sessions, T!Open(s) \/ \E op \in {"data", "signal", "close"} : T!Frame(s, op)
      PROVE  T!NoOrphan'
  <2>1. /\ UNCHANGED <<live, serving, shell>>
        /\ \A r \in T!Sessions : ws[r] \in {"open", "closing"} => ws'[r] \in {"open", "closing"}
    BY <1>1 DEF T!Open, T!Frame, T!link, T!agent, TermTypes
  <2>2. \A i \in DOMAIN inputs : i \in DOMAIN inputs' /\ inputs'[i] = inputs[i]
    <3>1. \/ inputs' = inputs
          \/ \E op \in {"open", "data", "signal", "close"} : inputs' = Append(inputs, [id |-> s, kind |-> op])
      BY <1>1 DEF T!Open, T!Frame, T!ToAgent
    <3>2. ASSUME NEW op \in {"open", "data", "signal", "close"}, inputs' = Append(inputs, [id |-> s, kind |-> op])
          PROVE  \A i \in DOMAIN inputs : i \in DOMAIN inputs' /\ inputs'[i] = inputs[i]
      <4> DEFINE m == [id |-> s, kind |-> op]
      <4>1. m \in Inputs
        BY DEF Inputs
      <4> HIDE DEF m
      <4>2. inputs' = Append(inputs, m)
        BY <3>2 DEF m
      <4> QED BY <4>1, <4>2, AppendedIs DEF TermTypes
    <3> QED BY <3>1, <3>2
  <2>3. \A r \in T!Sessions : Doomed(r) => Doomed(r)'
    BY <2>1, <2>2 DEF Doomed
  <2> QED BY <1>p, <2>1, <2>3, OrphanKept
<1>2. ASSUME NEW s \in T!Sessions, T!Close(s)
      PROVE  T!NoOrphan'
  <2>1. UNCHANGED <<live, serving, shell>> /\ ws' = [ws EXCEPT ![s] = "done"]
    BY <1>2 DEF T!Close, T!Forget, T!link, T!agent
  <2> DEFINE m == [id |-> s, kind |-> "close"]
  <2>2. m \in Inputs
    BY DEF Inputs
  <2>3. live => inputs' = Append(inputs, m)
    BY <1>2, <1>p DEF T!Close, Sides
  <2> HIDE DEF m
  <2>4. live => /\ \A i \in DOMAIN inputs : i \in DOMAIN inputs' /\ inputs'[i] = inputs[i]
                /\ \E i \in DOMAIN inputs' : inputs'[i] = m
    <3>1. inputs \in Seq(Inputs)
      BY DEF TermTypes
    <3>2. /\ \A i \in DOMAIN inputs : i \in DOMAIN Append(inputs, m) /\ Append(inputs, m)[i] = inputs[i]
          /\ \E i \in DOMAIN Append(inputs, m) : Append(inputs, m)[i] = m
      BY <2>2, <3>1, AppendedIs
    <3> QED BY <2>3, <3>2
  <2>5. \A r \in T!Sessions : Doomed(r) => Doomed(r)'
    <3>1. CASE live
      BY <2>1, <2>4, <3>1 DEF Doomed
    <3>2. CASE ~live
      BY <1>p, <2>1, <3>2 DEF Doomed, Sides
    <3> QED BY <3>1, <3>2
  <2>6. shell'[s] = "runs" => Doomed(s)'
    BY <1>p, <2>1, <2>4 DEF Doomed, Sides, m
  <2> QED BY <1>p, <2>1, <2>5, <2>6, OrphanKept DEF TermTypes
<1>3. ASSUME NEW s \in T!Sessions,
             T!ReadFails(s) \/ T!PumpOut(s) \/ T!PumpFails(s) \/ T!Output(s) \/ T!Exits(s) \/ T!PumpEnds(s)
      PROVE  T!NoOrphan'
  <2>1. UNCHANGED <<live, serving, inputs>>
    BY <1>3 DEF T!ReadFails, T!PumpOut, T!PumpFails, T!Output, T!Exits, T!PumpEnds, T!link
  <2>2. \A r \in T!Sessions : /\ ws[r] \in {"open", "closing"} => ws'[r] \in {"open", "closing"}
                              /\ shell'[r] = "runs" => shell[r] = "runs"
    BY <1>3 DEF T!ReadFails, T!PumpOut, T!PumpFails, T!Output, T!Exits, T!PumpEnds, T!browser, T!agent, TermTypes
  <2>3. \A r \in T!Sessions : Doomed(r) => Doomed(r)'
    BY <2>1 DEF Doomed
  <2> QED BY <1>p, <2>2, <2>3, OrphanKept
<1>4. CASE T!Handle
  <2> DEFINE m == Head(inputs)
  <2>1. /\ m \in Inputs /\ Handled(m) /\ inputs # << >> /\ inputs' = Tail(inputs) /\ live
        /\ UNCHANGED <<live, reg, serving, ws>>
    BY <1>4, HandleIs DEF T!link, T!browser
  <2>2. 1 \in DOMAIN inputs /\ m = inputs[1] /\ m.id \in T!Sessions /\ m = [id |-> m.id, kind |-> m.kind]
    <3>1. 1 \in DOMAIN inputs /\ m = inputs[1]
      BY <2>1, TailIs DEF TermTypes
    <3> QED BY <2>1, <3>1 DEF Inputs
  <2>3. \A j \in DOMAIN inputs : inputs[j] = m \/ (j > 1 /\ j - 1 \in DOMAIN inputs' /\ inputs'[j - 1] = inputs[j])
    BY <2>1, <2>2, TailIs DEF TermTypes
  <2> HIDE DEF m
  <2>4. ASSUME NEW r \in T!Sessions, m # [id |-> r, kind |-> "close"], Doomed(r)
        PROVE  Doomed(r)'
    BY <2>1, <2>3, <2>4 DEF Doomed
  <2>5. CASE m.kind = "open" /\ T!Start(m.id)
    <3>1. \A r \in T!Sessions : shell'[r] = "runs" => shell[r] = "runs" \/ r = m.id
      BY <2>5 DEF T!Start, TermTypes
    <3>x. PICK o \in T!Sessions : o = m.id
      BY <2>2
    <3>2. OpenRight(1) /\ inputs[1].kind = "open" /\ ws[m.id] # "idle"
      BY <1>p, <2>2, <2>5 DEF Known
    <3>3. ws[o] \in {"open", "closing"} \/ Doomed(o)'
      <4>1. CASE ws[m.id] = "done"
        <5>1. PICK j \in DOMAIN inputs : j > 1 /\ inputs[j] = [id |-> m.id, kind |-> "close"]
          BY <2>2, <3>2, <4>1 DEF OpenRight, Ending
        <5>2. inputs[j] # m
          BY <2>5, <5>1
        <5>3. j - 1 \in DOMAIN inputs' /\ inputs'[j - 1] = [id |-> m.id, kind |-> "close"]
          BY <2>3, <5>1, <5>2
        <5> QED BY <3>x, <5>3 DEF Doomed
      <4> QED BY <2>2, <3>x, <3>2, <4>1 DEF TermTypes
    <3>4. ASSUME NEW r \in T!Sessions, shell'[r] = "runs"
          PROVE  r \in sess' /\ (ws'[r] \in {"open", "closing"} \/ Doomed(r)')
      <4>1. CASE r = o
        BY <1>p, <2>1, <3>3, <3>4, <4>1 DEF Sides
      <4>2. CASE r # o
        <5>1. shell[r] = "runs" /\ m # [id |-> r, kind |-> "close"]
          BY <2>5, <3>x, <3>1, <3>4, <4>2
        <5>2. ws[r] \in {"open", "closing"} \/ Doomed(r)
          BY <5>1 DEF T!NoOrphan, Doomed
        <5> QED BY <1>p, <2>1, <2>4, <3>4, <5>1, <5>2 DEF Sides
      <4> QED BY <4>1, <4>2
    <3> QED BY <3>4 DEF T!NoOrphan, Doomed
  <2>6. CASE m.kind # "open"
    <3>1. ASSUME NEW r \in T!Sessions, shell'[r] = "runs" PROVE shell[r] = "runs" /\ m # [id |-> r, kind |-> "close"]
      <4>1. CASE m.kind = "close"
        BY <1>p, <2>1, <3>1, <4>1, KillTyped DEF Handled, Sides
      <4>2. CASE m.kind \in {"data", "signal"}
        BY <2>1, <3>1, <4>2, KillTyped DEF Handled
      <4> QED BY <2>1, <2>6, <4>1, <4>2 DEF Handled
    <3> QED BY <1>p, <2>1, <2>4, <3>1, OrphanKept
  <2> QED BY <2>1, <2>5, <2>6 DEF Handled
<1>5. CASE T!Deliver \/ T!WriteReturns \/ T!RemoveStream
  <2>1. /\ UNCHANGED <<live, serving, inputs, ws, shell>>
    BY <1>5 DEF T!Deliver, T!WriteReturns, T!RemoveStream, T!link, T!browser, T!agent
  <2>2. \A r \in T!Sessions : Doomed(r) => Doomed(r)'
    BY <2>1 DEF Doomed
  <2> QED BY <1>p, <2>1, <2>2, OrphanKept
<1>6. CASE T!Drop
  <2>1. UNCHANGED <<serving, ws, shell>> /\ ~live'
    BY <1>6 DEF T!Drop, T!browser, T!agent
  <2>2. \A r \in T!Sessions : shell'[r] = "runs" => Doomed(r)'
    BY <1>p, <2>1 DEF Doomed, Sides
  <2> QED BY <1>p, <2>1, <2>2, OrphanKept
<1>7. CASE T!CloseAll
  <2>1. \A r \in T!Sessions : shell'[r] # "runs"
    BY <1>p, <1>7, KillTyped DEF T!CloseAll, Sides
  <2> QED BY <2>1 DEF T!NoOrphan
<1>8. CASE T!Connect
  <2>1. \A r \in T!Sessions : shell'[r] # "runs"
    BY <1>p, <1>8 DEF T!Connect, Sides, T!agent
  <2> QED BY <2>1 DEF T!NoOrphan
<1>9. CASE T!AgentCrash
  <2>1. \A r \in T!Sessions : shell'[r] # "runs"
    BY <1>9 DEF T!AgentCrash
  <2> QED BY <2>1 DEF T!NoOrphan
<1>10. CASE UNCHANGED T!vars
  BY <1>10 DEF T!vars, T!link, T!browser, T!agent, T!NoOrphan
<1> QED BY <1>1, <1>2, <1>3, <1>4, <1>5, <1>6, <1>7, <1>8, <1>9, <1>10
     DEF T!Next, T!System, T!Leave, T!HangUp, T!WriteFails

-----------------------------------------------------------------------------
(***************************************************************************)
(* The outputs of a session, from the shell to the browser.                *)
(***************************************************************************)
\* What is true of the outputs so far stays true.
Keeps(s, c, h, c2, h2) ==
  \A m \in Outputs : m.id = s /\ Valid(m, c, h) => Valid(m, c2, h2) /\ Rank(m, c2) = Rank(m, c)

LEMMA RankTyped ==
  ASSUME NEW m \in Outputs, NEW c \in Nat
  PROVE  Rank(m, c) \in Nat
BY DEF Outputs, Rank

\* A shell that prints no more, and does not begin.
LEMMA KeepsSame ==
  ASSUME NEW s, NEW c \in Nat, NEW h, NEW h2, h = "none" <=> h2 = "none", h = "gone" => h2 = "gone"
  PROVE  Keeps(s, c, h, c, h2)
BY DEF Keeps, Valid, Rank

\* A shell that runs prints.
LEMMA KeepsPrinted ==
  ASSUME NEW s, NEW c \in Nat
  PROVE  Keeps(s, c, "runs", c + 1, "runs")
<1> SUFFICES ASSUME NEW m \in Outputs, Valid(m, c, "runs")
             PROVE  Valid(m, c + 1, "runs") /\ Rank(m, c + 1) = Rank(m, c)
  BY DEF Keeps
<1>1. m.kind # "exit" /\ (m.kind = "data" => m.n \in 1..(c + 1))
  BY DEF Valid
<1> QED BY <1>1 DEF Valid, Rank

\* The outputs of s in on2 are those in on, n places on.
Shifted(s, on, on2, n) ==
  /\ \A p \in DOMAIN on : on[p].id = s => p - n \in DOMAIN on2 /\ on2[p - n] = on[p]
  /\ \A p \in DOMAIN on2 : on2[p].id = s => p + n \in DOMAIN on /\ on2[p] = on[p + n]

\* The outputs of s move, as others come and go.
LEMMA FlowShift ==
  ASSUME NEW s, NEW e \in Nat, NEW on \in Seq(Outputs), NEW a \in Nat, NEW c \in Nat, NEW h,
         NEW on2 \in Seq(Outputs), NEW c2 \in Nat, NEW h2, NEW n \in Nat,
         Flow(s, e, on, a, c, h), OnStream(s, on, c, h), Keeps(s, c, h, c2, h2),
         Shifted(s, on, on2, n),
         h2 \in {"runs", "ended"} => h \in {"runs", "ended"} /\ c2 = c
  PROVE  Flow(s, e, on2, a, c2, h2) /\ OnStream(s, on2, c2, h2)
<1>0. DOMAIN on \subseteq Nat /\ DOMAIN on2 \subseteq Nat
  BY LenProperties
<1>1. \A p \in DOMAIN on : on[p].id = s => Valid(on[p], c2, h2) /\ Rank(on[p], c2) = Rank(on[p], c)
  BY ElementTyped DEF OnStream, Keeps
<1>2. ASSUME NEW p \in DOMAIN on2, on2[p].id = s
      PROVE  p + n \in DOMAIN on /\ on2[p] = on[p + n] /\ Valid(on2[p], c2, h2) /\ Rank(on2[p], c2) = Rank(on[p + n], c)
  BY <1>1, <1>2 DEF Shifted
<1>3. \A p \in DOMAIN on2 : on2[p].id = s => Rank(on2[p], c2) \in a..(e - 1)
  BY <1>2 DEF Flow
<1>4. ASSUME NEW p \in DOMAIN on2, NEW q \in DOMAIN on2, p < q, on2[p].id = s, on2[q].id = s
      PROVE  Rank(on2[p], c2) < Rank(on2[q], c2)
  <2>1. p + n < q + n
    BY <1>0, <1>4
  <2>2. p + n \in DOMAIN on /\ q + n \in DOMAIN on /\ on[p + n].id = s /\ on[q + n].id = s
    BY <1>2, <1>4
  <2>3. Rank(on[p + n], c) < Rank(on[q + n], c)
    BY <2>1, <2>2 DEF Flow
  <2> QED BY <1>2, <1>4, <2>3
<1>5. ASSUME NEW j \in a..(e - 1)
      PROVE  \E p \in DOMAIN on2 : on2[p].id = s /\ Rank(on2[p], c2) = j
  <2>1. PICK p \in DOMAIN on : on[p].id = s /\ Rank(on[p], c) = j
    BY <1>5 DEF Flow
  <2> QED BY <1>1, <2>1 DEF Shifted
<1>6. a <= e /\ (h2 \in {"runs", "ended"} => e = c2 + 1)
  BY DEF Flow
<1> QED BY <1>2, <1>3, <1>4, <1>5, <1>6 DEF Flow, OnStream

\* The shell's next output.
LEMMA FlowEmit ==
  ASSUME NEW s, NEW e \in Nat, NEW on \in Seq(Outputs), NEW a \in Nat, NEW c \in Nat, NEW h,
         NEW m \in Outputs, NEW c2 \in Nat, NEW h2,
         Flow(s, e, on, a, c, h), OnStream(s, on, c, h), Keeps(s, c, h, c2, h2),
         m.id = s, Valid(m, c2, h2), Rank(m, c2) = e,
         h2 \in {"runs", "ended"} => c2 = e
  PROVE  Flow(s, e + 1, Append(on, m), a, c2, h2) /\ OnStream(s, Append(on, m), c2, h2)
<1> DEFINE on2 == Append(on, m)
<1>0. /\ Len(on) \in Nat /\ DOMAIN on = 1..Len(on) /\ DOMAIN on2 = 1..(Len(on) + 1)
      /\ \A p \in 1..Len(on) : on2[p] = on[p]
      /\ on2[Len(on) + 1] = m
  BY AppendProperties, LenProperties
<1> DEFINE l == Len(on)
<1> HIDE DEF on2, l
<1>0a. /\ l \in Nat /\ DOMAIN on = 1..l /\ DOMAIN on2 = 1..(l + 1)
       /\ \A p \in 1..l : on2[p] = on[p]
       /\ on2[l + 1] = m
  BY <1>0 DEF l
<1>1. \A p \in 1..l : on[p].id = s =>
        /\ Valid(on[p], c2, h2) /\ Rank(on[p], c2) = Rank(on[p], c)
        /\ Rank(on[p], c2) \in a..(e - 1)
  BY <1>0a, ElementTyped DEF OnStream, Keeps, Flow
<1>2. ASSUME NEW p \in DOMAIN on2, on2[p].id = s
      PROVE  Valid(on2[p], c2, h2) /\ Rank(on2[p], c2) \in a..e
  <2>1. CASE p = l + 1
    BY <1>0a, <2>1 DEF Flow
  <2>2. CASE p \in 1..l
    BY <1>0a, <1>1, <1>2, <2>2
  <2> QED BY <1>0a, <2>1, <2>2
<1>3. ASSUME NEW p \in DOMAIN on2, NEW q \in DOMAIN on2, p < q, on2[p].id = s, on2[q].id = s
      PROVE  Rank(on2[p], c2) < Rank(on2[q], c2)
  <2>1. p \in 1..l
    BY <1>0a, <1>3
  <2>2. CASE q = l + 1
    BY <1>0a, <1>1, <1>3, <2>1, <2>2
  <2>3. CASE q \in 1..l
    <3>1. Rank(on[p], c) < Rank(on[q], c)
      BY <1>0a, <1>3, <2>1, <2>3 DEF Flow
    <3> QED BY <1>0a, <1>1, <1>3, <2>1, <2>3, <3>1
  <2> QED BY <1>0a, <2>2, <2>3
<1>4. ASSUME NEW j \in a..e
      PROVE  \E p \in DOMAIN on2 : on2[p].id = s /\ Rank(on2[p], c2) = j
  <2>1. CASE j = e
    BY <1>0a, <2>1
  <2>2. CASE j \in a..(e - 1)
    <3>1. PICK p \in DOMAIN on : on[p].id = s /\ Rank(on[p], c) = j
      BY <2>2 DEF Flow
    <3> QED BY <1>0a, <1>1, <3>1
  <2> QED BY <2>1, <2>2
<1>5. a <= e + 1 /\ (e + 1) - 1 = e
  BY DEF Flow
<1>6. h2 \in {"runs", "ended"} => e + 1 = c2 + 1
  OBVIOUS
<1> QED BY <1>2, <1>3, <1>4, <1>5, <1>6 DEF Flow, OnStream, on2

\* The first output on the stream arrives: it is the next in order.
LEMMA FlowDeliver ==
  ASSUME NEW s, NEW e \in Nat, NEW on \in Seq(Outputs), NEW a \in Nat, NEW c \in Nat, NEW h,
         Flow(s, e, on, a, c, h), OnStream(s, on, c, h), on # << >>, Head(on).id = s
  PROVE  /\ Rank(Head(on), c) = a /\ Valid(Head(on), c, h)
         /\ Flow(s, e, Tail(on), a + 1, c, h) /\ OnStream(s, Tail(on), c, h)
<1> DEFINE on2 == Tail(on) l == Len(on)
<1>0. /\ l \in Nat /\ l >= 1 /\ DOMAIN on = 1..l /\ DOMAIN on2 = 1..(l - 1)
      /\ \A p \in 1..(l - 1) : on2[p] = on[p + 1]
      /\ Head(on) = on[1]
  BY TailTyped, LenProperties
<1> HIDE DEF on2, l
<1>1. 1 \in DOMAIN on /\ on[1].id = s /\ Rank(on[1], c) \in a..(e - 1)
  BY <1>0 DEF Flow
<1>2. PICK f \in DOMAIN on : on[f].id = s /\ Rank(on[f], c) = a
  BY <1>1 DEF Flow
<1>3. \A p \in DOMAIN on : Rank(on[p], c) \in Nat
  BY RankTyped, ElementTyped
<1>4. Rank(on[1], c) = a
  <2>1. f = 1 \/ 1 < f
    BY <1>0
  <2> QED BY <1>1, <1>2, <1>3, <2>1 DEF Flow
<1>5. ASSUME NEW p \in DOMAIN on2, on2[p].id = s
      PROVE  p + 1 \in DOMAIN on /\ on2[p] = on[p + 1] /\ 1 < p + 1 /\ Rank(on2[p], c) \in (a + 1)..(e - 1)
  <2>1. p + 1 \in DOMAIN on /\ on2[p] = on[p + 1] /\ 1 < p + 1
    BY <1>0
  <2>2. Rank(on[p + 1], c) \in a..(e - 1) /\ Rank(on[1], c) < Rank(on[p + 1], c)
    BY <1>1, <1>5, <2>1 DEF Flow
  <2> QED BY <1>4, <2>1, <2>2
<1>6. ASSUME NEW p \in DOMAIN on2, NEW q \in DOMAIN on2, p < q, on2[p].id = s, on2[q].id = s
      PROVE  Rank(on2[p], c) < Rank(on2[q], c)
  <2>1. p + 1 < q + 1
    BY <1>0, <1>6
  <2> QED BY <1>5, <1>6, <2>1 DEF Flow
<1>7. ASSUME NEW j \in (a + 1)..(e - 1)
      PROVE  \E p \in DOMAIN on2 : on2[p].id = s /\ Rank(on2[p], c) = j
  <2>1. PICK p \in DOMAIN on : on[p].id = s /\ Rank(on[p], c) = j
    BY <1>7 DEF Flow
  <2>2. p # 1
    BY <1>4, <2>1
  <2>3. p - 1 \in DOMAIN on2 /\ on2[p - 1] = on[p]
    BY <1>0, <2>2
  <2> QED BY <2>1, <2>3
<1>8. a + 1 <= e
  BY <1>1
<1>9. Valid(on[1], c, h) /\ \A p \in DOMAIN on2 : on2[p].id = s => Valid(on2[p], c, h)
  BY <1>1, <1>5 DEF OnStream
<1>10. (h \in {"runs", "ended"} => e = c + 1)
  BY DEF Flow
<1> QED BY <1>0, <1>4, <1>5, <1>6, <1>7, <1>8, <1>9, <1>10 DEF Flow, OnStream, on2

\* Whatever was on the stream is lost.
LEMMA FlowCut ==
  ASSUME NEW s, NEW e \in Nat, NEW on, NEW a \in Nat, NEW c \in Nat, NEW h, NEW h2,
         Flow(s, e, on, a, c, h), h2 \notin {"runs", "ended"}
  PROVE  Flow(s, a, << >>, a, c, h2) /\ OnStream(s, << >>, c, h2)
BY DEF Flow, OnStream

LEMMA BrowserKept ==
  ASSUME NEW s, NEW sh \in Seq(Outputs), NEW sb, sb # None => sb \in Seq(Outputs), NEW c, NEW h, NEW c2, NEW h2,
         AtBrowser(s, sh, sb, c, h), Keeps(s, c, h, c2, h2)
  PROVE  AtBrowser(s, sh, sb, c2, h2)
BY ElementTyped DEF AtBrowser, Keeps

\* The next output is written to the browser ...
LEMMA BrowserPump ==
  ASSUME NEW s, NEW sh \in Seq(Outputs), NEW sb \in Seq(Outputs), sb # << >>, sb # None, NEW c, NEW h,
         AtBrowser(s, sh, sb, c, h)
  PROVE  /\ AtBrowser(s, Append(sh, Head(sb)), Tail(sb), c, h)
         /\ Len(Append(sh, Head(sb))) + Len(Tail(sb)) = Len(sh) + Len(sb)
<1> DEFINE sh2 == Append(sh, Head(sb)) sb2 == Tail(sb) k == Len(sh) l == Len(sb)
<1>1. /\ l \in Nat /\ l >= 1 /\ DOMAIN sb = 1..l /\ DOMAIN sb2 = 1..(l - 1) /\ Len(sb2) = l - 1
      /\ \A p \in 1..(l - 1) : sb2[p] = sb[p + 1]
      /\ Head(sb) = sb[1] /\ Head(sb) \in Outputs
  BY TailTyped, LenProperties
<1>2. /\ k \in Nat /\ DOMAIN sh = 1..k /\ DOMAIN sh2 = 1..(k + 1) /\ Len(sh2) = k + 1
      /\ \A p \in 1..k : sh2[p] = sh[p]
      /\ sh2[k + 1] = Head(sb)
  BY <1>1, AppendProperties, LenProperties
<1> HIDE DEF sh2, sb2
<1>3. ASSUME NEW p \in DOMAIN sh2
      PROVE  sh2[p].id = s /\ Rank(sh2[p], c) = p - 1 /\ Valid(sh2[p], c, h)
  <2>1. CASE p = k + 1
    BY <1>1, <1>2, <2>1 DEF AtBrowser
  <2>2. CASE p \in 1..k
    BY <1>2, <2>2 DEF AtBrowser
  <2> QED BY <1>2, <2>1, <2>2
<1>4. ASSUME NEW p \in DOMAIN sb2
      PROVE  sb2[p].id = s /\ Rank(sb2[p], c) = Len(sh2) + p - 1 /\ Valid(sb2[p], c, h)
  <2>1. p + 1 \in DOMAIN sb /\ sb2[p] = sb[p + 1] /\ p \in Nat
    BY <1>1
  <2>2. sb[p + 1].id = s /\ Rank(sb[p + 1], c) = k + (p + 1) - 1 /\ Valid(sb[p + 1], c, h)
    BY <2>1 DEF AtBrowser
  <2> QED BY <1>2, <2>1, <2>2
<1> QED BY <1>1, <1>2, <1>3, <1>4 DEF AtBrowser, sh2, sb2

\* ... and one that arrives waits behind the others.
LEMMA BrowserQueue ==
  ASSUME NEW s, NEW sh \in Seq(Outputs), NEW sb \in Seq(Outputs), sb # None, NEW c, NEW h,
         NEW m \in Outputs, m.id = s, Rank(m, c) = Len(sh) + Len(sb), Valid(m, c, h),
         AtBrowser(s, sh, sb, c, h)
  PROVE  AtBrowser(s, sh, Append(sb, m), c, h) /\ Len(Append(sb, m)) = Len(sb) + 1
<1> DEFINE sb2 == Append(sb, m) k == Len(sh) l == Len(sb)
<1>1. /\ l \in Nat /\ DOMAIN sb = 1..l /\ DOMAIN sb2 = 1..(l + 1) /\ Len(sb2) = l + 1
      /\ \A p \in 1..l : sb2[p] = sb[p]
      /\ sb2[l + 1] = m /\ k \in Nat
  BY AppendProperties, LenProperties
<1> HIDE DEF sb2
<1>2. ASSUME NEW p \in DOMAIN sb2
      PROVE  sb2[p].id = s /\ Rank(sb2[p], c) = k + p - 1 /\ Valid(sb2[p], c, h)
  <2>1. CASE p = l + 1
    BY <1>1, <2>1
  <2>2. CASE p \in 1..l
    BY <1>1, <2>2 DEF AtBrowser
  <2> QED BY <1>1, <2>1, <2>2
<1> QED BY <1>1, <1>2 DEF AtBrowser, sb2

\* The outputs of s on the stream are the ones they were, n places on.
Moved(s, n) == Shifted(s, direct, direct', n)

LEMMA MovedSame ==
  ASSUME TermTypes, NEW s, direct' = direct
  PROVE  Moved(s, 0)
<1>1. DOMAIN direct \subseteq Nat
  BY LenProperties DEF TermTypes
<1> QED BY <1>1 DEF Moved, Shifted

LEMMA MovedAppend ==
  ASSUME TermTypes, NEW s, NEW m \in Outputs, m.id # s, direct' = Append(direct, m)
  PROVE  Moved(s, 0)
<1> DEFINE l == Len(direct)
<1>1. /\ l \in Nat /\ DOMAIN direct = 1..l /\ DOMAIN direct' = 1..(l + 1)
      /\ \A p \in 1..l : direct'[p] = direct[p]
      /\ direct'[l + 1] = m
  BY AppendProperties, LenProperties DEF TermTypes
<1> HIDE DEF l
<1> QED BY <1>1 DEF Moved, Shifted

LEMMA MovedTail ==
  ASSUME TermTypes, NEW s, direct # << >>, Head(direct).id # s, direct' = Tail(direct)
  PROVE  Moved(s, 1)
<1> DEFINE l == Len(direct)
<1>1. /\ l \in Nat /\ DOMAIN direct = 1..l /\ DOMAIN direct' = 1..(l - 1)
      /\ \A p \in 1..(l - 1) : direct'[p] = direct[p + 1]
      /\ Head(direct) = direct[1]
  BY TailTyped, LenProperties DEF TermTypes
<1> HIDE DEF l
<1>2. \A p \in DOMAIN direct : direct[p].id = s => p # 1
  BY <1>1
<1> QED BY <1>1, <1>2 DEF Moved, Shifted

LEMMA MovedEmit ==
  ASSUME TermTypes, NEW s, NEW m \in Outputs, m.id # s, T!Emit(m)
  PROVE  Moved(s, 0)
BY EmitIs, MovedSame, MovedAppend

LEMMA ArrivedTyped ==
  ASSUME TermTypes, NEW s \in T!Sessions
  PROVE  Arrived(s) \in Nat
<1>1. Len(shown[s]) \in Nat /\ (sub[s] # None => Len(sub[s]) \in Nat)
  BY LenProperties DEF TermTypes
<1>2. CASE sub[s] = None
  <2>1. Arrived(s) = Len(shown[s])
    BY <1>1, <1>2 DEF Arrived
  <2> QED BY <1>1, <2>1
<1>3. CASE sub[s] # None
  <2>1. Arrived(s) = Len(shown[s]) + Len(sub[s])
    BY <1>1, <1>3 DEF Arrived
  <2>2. \A x, y \in Nat : x + y \in Nat
    OBVIOUS
  <2> QED BY <1>1, <1>3, <2>1, <2>2
<1> QED BY <1>2, <1>3

\* A step that is about other sessions, or about nothing the order depends on.
LEMMA OthersKeep ==
  ASSUME TermTypes, TermTypes', NEW s \in T!Sessions, NEW n \in Nat, InOrder(s), Moved(s, n),
         shown'[s] = shown[s], sub'[s] = sub[s], printed'[s] = printed[s],
         shell[s] = "none" <=> shell'[s] = "none", shell[s] = "gone" => shell'[s] = "gone",
         ws'[s] = "idle" => ws[s] = "idle",
         Opening(s)' => Opening(s)
  PROVE  InOrder(s)'
<1> DEFINE c == printed[s] h == shell[s] h2 == shell'[s] a == Arrived(s)
<1>1. /\ direct \in Seq(Outputs) /\ direct' \in Seq(Outputs) /\ c \in Nat
      /\ shown[s] \in Seq(Outputs) /\ (sub[s] # None => sub[s] \in Seq(Outputs))
      /\ h \in {"none", "runs", "ended", "gone"} /\ h2 \in {"none", "runs", "ended", "gone"}
  BY DEF TermTypes
<1>2. a \in Nat /\ Arrived(s)' = a
  <2>1. a \in Nat
    BY ArrivedTyped
  <2> QED BY <2>1 DEF Arrived
<1>3. ToBegin(s)' => ToBegin(s)
  BY DEF ToBegin
<1>4. Keeps(s, c, h, c, h2)
  BY <1>1, KeepsSame
<1>5. PICK e \in Nat : Flow(s, e, direct, a, c, h) /\ (ToBegin(s) => e = 0)
  BY DEF InOrder
<1>6. OnStream(s, direct, c, h) /\ AtBrowser(s, shown[s], sub[s], c, h)
  BY DEF InOrder
<1>7. Shifted(s, direct, direct', n)
  BY DEF Moved
<1>8. h2 \in {"runs", "ended"} => h \in {"runs", "ended"} /\ c = c
  BY <1>1
<1> HIDE DEF c, h, h2, a
<1>9. Flow(s, e, direct', a, c, h2) /\ OnStream(s, direct', c, h2)
  BY <1>1, <1>2, <1>4, <1>5, <1>6, <1>7, <1>8, FlowShift
<1>10. AtBrowser(s, shown[s], sub[s], c, h2)
  BY <1>1, <1>4, <1>6, BrowserKept
<1> QED BY <1>2, <1>3, <1>5, <1>9, <1>10 DEF InOrder, c, h2, a

\* The shell of s puts m out, its next output.
LEMMA OwnOutput ==
  ASSUME TermTypes, TermTypes', NEW s \in T!Sessions, InOrder(s), NEW m \in Outputs, m.id = s,
         direct' = Append(direct, m), shown'[s] = shown[s], sub'[s] = sub[s],
         Keeps(s, printed[s], shell[s], printed'[s], shell'[s]), Valid(m, printed'[s], shell'[s]),
         NEW e \in Nat, Flow(s, e, direct, Arrived(s), printed[s], shell[s]),
         Rank(m, printed'[s]) = e,
         shell'[s] \in {"runs", "ended"} => printed'[s] = e,
         ~ToBegin(s)'
  PROVE  InOrder(s)'
<1> DEFINE c == printed[s] h == shell[s] c2 == printed'[s] h2 == shell'[s] a == Arrived(s)
<1>1. /\ direct \in Seq(Outputs) /\ c \in Nat /\ c2 \in Nat
      /\ shown[s] \in Seq(Outputs) /\ (sub[s] # None => sub[s] \in Seq(Outputs))
  BY DEF TermTypes
<1>2. a \in Nat /\ Arrived(s)' = a
  <2>1. a \in Nat
    BY ArrivedTyped
  <2> QED BY <2>1 DEF Arrived
<1>3. OnStream(s, direct, c, h) /\ AtBrowser(s, shown[s], sub[s], c, h)
  BY DEF InOrder
<1>4. Keeps(s, c, h, c2, h2)
  OBVIOUS
<1>5. Flow(s, e, direct, a, c, h) /\ Valid(m, c2, h2) /\ Rank(m, c2) = e /\ (h2 \in {"runs", "ended"} => c2 = e)
  OBVIOUS
<1> HIDE DEF c, h, c2, h2, a
<1>6. Flow(s, e + 1, Append(direct, m), a, c2, h2) /\ OnStream(s, Append(direct, m), c2, h2)
  BY <1>1, <1>2, <1>3, <1>4, <1>5, FlowEmit
<1>7. AtBrowser(s, shown[s], sub[s], c2, h2)
  BY <1>1, <1>3, <1>4, BrowserKept
<1> QED BY <1>2, <1>6, <1>7 DEF InOrder, c2, h2, a

\* What is lost stays lost as long as a browser waits.
LEMMA LoseGrows ==
  ASSUME TermTypes, NEW msgs, T!Lose(msgs), NEW s \in T!Sessions, ws[s] # "done", lost'[s] = {}
  PROVE  lost[s] = {} /\ \A i \in DOMAIN msgs : msgs[i].id # s
<1>1. lost'[s] = lost[s] \cup {msgs[i].kind : i \in {k \in DOMAIN msgs : msgs[k].id = s}}
  BY DEF T!Lose
<1> QED BY <1>1

LEMMA OpeningSame ==
  ASSUME NEW s, \A i \in DOMAIN inputs' : inputs'[i] = [id |-> s, kind |-> "open"] => \E j \in DOMAIN inputs : inputs[j] = inputs'[i],
         Opening(s)'
  PROVE  Opening(s)
BY DEF Opening

LEMMA OrderInit ==
  ASSUME T!Init, NEW s \in T!Sessions
  PROVE  InOrder(s)
<1>1. /\ shown[s] = << >> /\ sub[s] = None /\ direct = << >> /\ printed[s] = 0 /\ shell[s] = "none"
  BY DEF T!Init
<1>2. Arrived(s) = 0
  BY <1>1 DEF Arrived
<1>3. Flow(s, 0, direct, Arrived(s), printed[s], shell[s])
  BY <1>1, <1>2 DEF Flow
<1> QED BY <1>1, <1>3 DEF InOrder, AtBrowser, OnStream

LEMMA OpeningAppended ==
  ASSUME TermTypes, NEW s \in T!Sessions, NEW r \in T!Sessions, NEW k \in {"open", "data", "signal", "close"},
         r # s \/ k # "open", inputs' = Append(inputs, [id |-> r, kind |-> k]), Opening(s)'
  PROVE  Opening(s)
<1> DEFINE m == [id |-> r, kind |-> k]
<1>1. m \in Inputs /\ m # [id |-> s, kind |-> "open"] /\ inputs \in Seq(Inputs) /\ inputs' = Append(inputs, m)
  BY DEF Inputs, TermTypes
<1> HIDE DEF m
<1>2. \A i \in DOMAIN Append(inputs, m) : Append(inputs, m)[i] = m \/ \E j \in DOMAIN inputs : Append(inputs, m)[i] = inputs[j]
  BY <1>1, AppendedIs
<1> QED BY <1>1, <1>2 DEF Opening

\* A step that leaves the outputs of s where they are.
LEMMA OrderAside ==
  ASSUME TermTypes, TermTypes', NEW s \in T!Sessions, Spared(s) => InOrder(s), Spared(s)',
         UNCHANGED <<direct, shell, printed>>, shown'[s] = shown[s], sub'[s] = sub[s],
         ws'[s] = "idle" => ws[s] = "idle", ws[s] = "done" => ws'[s] = "done",
         ws[s] # "done" /\ lost'[s] = {} => lost[s] = {},
         Opening(s)' => Opening(s)
  PROVE  InOrder(s)'
<1>1. InOrder(s)
  BY DEF Spared
<1> QED BY <1>1, MovedSame, OthersKeep

LEMMA OrderBrowser ==
  ASSUME TermTypes, TermTypes', LinkInv, NEW s \in T!Sessions, Spared(s) => InOrder(s), Spared(s)',
         NEW r \in T!Sessions,
         (\E op \in {"data", "signal", "close"} : T!Frame(r, op)) \/ T!ReadFails(r) \/ T!Close(r) \/ T!PumpFails(r)
         \/ (r # s /\ (T!Open(r) \/ T!PumpOut(r)))
  PROVE  InOrder(s)'
<1>1. lost'[s] = {} /\ ws'[s] # "done"
  BY DEF Spared
<1>2. ASSUME NEW op \in {"data", "signal", "close"}, T!Frame(r, op)
      PROVE  InOrder(s)'
  <2>1. /\ UNCHANGED <<direct, shell, printed, shown, sub>>
        /\ ws'[s] = "idle" => ws[s] = "idle"
        /\ ws[s] = "done" => ws'[s] = "done"
    BY <1>2 DEF T!Frame, T!agent, T!history, TermTypes
  <2>2. ws[s] # "done" /\ lost'[s] = {} => lost[s] = {}
    BY <1>2, LoseGrows DEF T!Frame, T!ToAgent
  <2>3. Opening(s)' => Opening(s)
    <3>1. CASE inputs' = inputs
      BY <3>1 DEF Opening
    <3>2. CASE inputs' = Append(inputs, [id |-> r, kind |-> op])
      BY <3>2, OpeningAppended
    <3> QED BY <1>2, <3>1, <3>2 DEF T!Frame, T!ToAgent
  <2> QED BY <2>1, <2>2, <2>3, OrderAside
<1>3. CASE T!ReadFails(r)
  <2>1. /\ UNCHANGED <<direct, shell, printed, shown, sub, lost, inputs>>
        /\ ws'[s] = "idle" => ws[s] = "idle"
        /\ ws[s] = "done" => ws'[s] = "done"
    BY <1>3 DEF T!ReadFails, T!agent, T!history, TermTypes
  <2> QED BY <2>1, OrderAside DEF Opening
<1>4. CASE T!Close(r)
  <2>1. r # s
    BY <1>1, <1>4 DEF T!Close, T!Forget, TermTypes
  <2>2. /\ UNCHANGED <<direct, shell, printed>> /\ shown'[s] = shown[s] /\ sub'[s] = sub[s]
        /\ ws'[s] = ws[s] /\ lost'[s] = lost[s]
    BY <1>4, <2>1 DEF T!Close, T!Forget, T!agent, TermTypes
  <2>3. Opening(s)' => Opening(s)
    <3>1. CASE inputs' = inputs
      BY <3>1 DEF Opening
    <3>2. CASE inputs' = Append(inputs, [id |-> r, kind |-> "close"])
      BY <3>2, OpeningAppended
    <3> QED BY <1>4, <3>1, <3>2 DEF T!Close
  <2> QED BY <2>2, <2>3, OrderAside
<1>5. CASE T!PumpFails(r)
  <2>1. UNCHANGED <<direct, shell, printed, shown, sub, inputs, ws>>
    BY <1>5 DEF T!PumpFails, T!agent, T!history
  <2>2. lost'[s] = {} => lost[s] = {}
    BY <1>5 DEF T!PumpFails, TermTypes
  <2> QED BY <2>1, <2>2, OrderAside DEF Opening
<1>6. CASE r # s /\ T!Open(r)
  <2>1. /\ UNCHANGED <<direct, shell, printed, shown>> /\ sub'[s] = sub[s] /\ ws'[s] = ws[s]
    BY <1>6 DEF T!Open, T!agent, T!history, TermTypes
  <2>2. ws[s] # "done" /\ lost'[s] = {} => lost[s] = {}
    BY <1>6, LoseGrows DEF T!Open, T!ToAgent
  <2>3. Opening(s)' => Opening(s)
    <3>1. CASE inputs' = inputs
      BY <3>1 DEF Opening
    <3>2. CASE inputs' = Append(inputs, [id |-> r, kind |-> "open"])
      BY <1>6, <3>2, OpeningAppended
    <3> QED BY <1>6, <3>1, <3>2 DEF T!Open, T!ToAgent
  <2> QED BY <2>1, <2>2, <2>3, OrderAside
<1>7. CASE r # s /\ T!PumpOut(r)
  <2>1. UNCHANGED <<direct, shell, printed, inputs, ws, lost>> /\ shown'[s] = shown[s] /\ sub'[s] = sub[s]
    BY <1>7 DEF T!PumpOut, T!agent, TermTypes
  <2> QED BY <2>1, OrderAside DEF Opening
<1> QED BY <1>2, <1>3, <1>4, <1>5, <1>6, <1>7

LEMMA OrderOpen ==
  ASSUME TermTypes, TermTypes', LinkInv, NEW s \in T!Sessions, Spared(s) => InOrder(s), Spared(s)', T!Open(s)
  PROVE  InOrder(s)'
<1>p. Sides
  BY LinkParts
<1>1. lost'[s] = {} /\ ws'[s] # "done"
  BY DEF Spared
<1>2. /\ ws[s] = "idle" /\ reg /\ T!ToAgent(s, "open") /\ sub' = [sub EXCEPT ![s] = << >>]
      /\ UNCHANGED <<shell, direct, printed, shown>>
  BY <1>1 DEF T!Open, T!agent, T!history, TermTypes
<1>3. lost[s] = {}
  BY <1>1, <1>2, LoseGrows DEF T!ToAgent
<1>4. InOrder(s)
  BY <1>2, <1>3 DEF Spared
<1>5. shown[s] = << >> /\ sub[s] = None /\ sub'[s] = << >> /\ shell[s] = "none"
  BY <1>2, <1>p DEF Sides, TermTypes
<1>6. << >> # None
  BY EmptySeq, NullHasNoSequence
<1>7. Arrived(s)' = Arrived(s)
  BY <1>2, <1>5, <1>6 DEF Arrived
<1>8. AtBrowser(s, shown[s], << >>, printed[s], shell[s])
  BY <1>5 DEF AtBrowser
<1>9. ToBegin(s)
  BY <1>2 DEF ToBegin
<1> QED BY <1>2, <1>4, <1>5, <1>7, <1>8, <1>9 DEF InOrder

LEMMA OrderPump ==
  ASSUME TermTypes, TermTypes', LinkInv, NEW s \in T!Sessions, Spared(s) => InOrder(s), Spared(s)', T!PumpOut(s)
  PROVE  InOrder(s)'
<1>1. /\ sub[s] # << >> /\ shown' = [shown EXCEPT ![s] = Append(@, Head(sub[s]))]
      /\ sub' = [sub EXCEPT ![s] = Tail(@)]
      /\ UNCHANGED <<ws, inputs, shell, direct, printed, lost>>
  BY DEF T!PumpOut, T!agent
<1>2. sub[s] # None
  <2>1. pump[s] = "runs"
    BY DEF T!PumpOut
  <2> QED BY <2>1, LinkParts DEF Sides, TermTypes
<1>3. InOrder(s)
  BY <1>1 DEF Spared
<1>4. shown[s] \in Seq(Outputs) /\ sub[s] \in Seq(Outputs) /\ sub'[s] = Tail(sub[s]) /\ shown'[s] = Append(shown[s], Head(sub[s]))
  BY <1>1, <1>2 DEF TermTypes
<1>5. Tail(sub[s]) # None
  BY <1>1, <1>4, TailTyped, NullHasNoSequence
<1>6. /\ AtBrowser(s, Append(shown[s], Head(sub[s])), Tail(sub[s]), printed[s], shell[s])
      /\ Len(Append(shown[s], Head(sub[s]))) + Len(Tail(sub[s])) = Len(shown[s]) + Len(sub[s])
  BY <1>1, <1>2, <1>3, <1>4, BrowserPump DEF InOrder
<1>7. Arrived(s)' = Arrived(s)
  BY <1>2, <1>4, <1>5, <1>6 DEF Arrived
<1>8. ToBegin(s)' => ToBegin(s)
  BY <1>1 DEF ToBegin, Opening
<1> QED BY <1>1, <1>3, <1>4, <1>6, <1>7, <1>8 DEF InOrder

LEMMA OrderDeliver ==
  ASSUME TermTypes, TermTypes', LinkInv, NEW s \in T!Sessions, Spared(s) => InOrder(s), Spared(s)', T!Deliver
  PROVE  InOrder(s)'
<1> DEFINE m == Head(direct)
<1>1. /\ direct # << >> /\ m \in Outputs /\ direct' = Tail(direct)
      /\ UNCHANGED <<ws, inputs, shell, printed, shown>>
      /\ \/ sub[m.id] = None /\ UNCHANGED <<sub, lost>>
         \/ sub[m.id] # None /\ sub' = [sub EXCEPT ![m.id] = Append(@, m)] /\ UNCHANGED lost
         \/ sub[m.id] # None /\ T!Lose(<<m>>) /\ UNCHANGED sub
  BY DeliverIs DEF T!agent, T!history
<1>2. m.id \in T!Sessions
  BY <1>1 DEF Outputs
<1>3. lost'[s] = {} /\ ws[s] # "done"
  BY <1>1 DEF Spared
<1>4. lost[s] = {}
  BY <1>1, <1>3, LoseGrows
<1>5. InOrder(s)
  BY <1>3, <1>4 DEF Spared
<1>6. Opening(s)' => Opening(s)
  BY <1>1 DEF Opening
<1>7. CASE m.id # s
  <2>1. sub'[s] = sub[s]
    BY <1>1, <1>7 DEF TermTypes
  <2>2. Moved(s, 1)
    BY <1>1, <1>7, MovedTail
  <2> HIDE DEF m
  <2> QED BY <1>1, <1>5, <1>6, <2>1, <2>2, OthersKeep
<1>8. CASE m.id = s
  <2>1. sub[s] # None
    <3>1. 1 \in DOMAIN direct /\ m = direct[1]
      BY <1>1, TailIs DEF TermTypes
    <3>2. ws[s] # "idle"
      BY <1>8, <3>1, LinkParts DEF Known
    <3> QED BY <1>3, <3>2, LinkParts DEF Sides, TermTypes
  <2>2. sub' = [sub EXCEPT ![s] = Append(@, m)]
    <3>1. CASE T!Lose(<<m>>)
      <4>1. \A i \in DOMAIN <<m>> : <<m>>[i].id # s
        BY <1>3, <3>1, LoseGrows
      <4> QED BY <1>8, <4>1
    <3> QED BY <1>1, <1>8, <2>1, <3>1
  <2>m. Head(direct) = m /\ Head(direct).id = s /\ m.id = s /\ m \in Outputs
    BY <1>1, <1>8
  <2> HIDE DEF m
  <2>3. shown[s] \in Seq(Outputs) /\ sub[s] \in Seq(Outputs) /\ sub'[s] = Append(sub[s], m)
    BY <2>1, <2>2 DEF TermTypes
  <2>4. Arrived(s) = Len(shown[s]) + Len(sub[s]) /\ Arrived(s) \in Nat
    BY <2>1, ArrivedTyped DEF Arrived
  <2>5. PICK e \in Nat : Flow(s, e, direct, Arrived(s), printed[s], shell[s]) /\ (ToBegin(s) => e = 0)
    BY <1>5 DEF InOrder
  <2>6. OnStream(s, direct, printed[s], shell[s]) /\ AtBrowser(s, shown[s], sub[s], printed[s], shell[s])
    BY <1>5 DEF InOrder
  <2>7. direct \in Seq(Outputs) /\ printed[s] \in Nat
    BY DEF TermTypes
  <2>8. /\ Rank(m, printed[s]) = Arrived(s) /\ Valid(m, printed[s], shell[s])
        /\ Flow(s, e, Tail(direct), Arrived(s) + 1, printed[s], shell[s])
        /\ OnStream(s, Tail(direct), printed[s], shell[s])
    <3> DEFINE a == Arrived(s) c == printed[s] h == shell[s]
    <3>1. a \in Nat /\ c \in Nat /\ direct \in Seq(Outputs) /\ direct # << >>
      BY <1>1, <2>4, <2>7
    <3>2. Flow(s, e, direct, a, c, h) /\ OnStream(s, direct, c, h)
      BY <2>5, <2>6
    <3> HIDE DEF a, c, h
    <3>3. /\ Rank(Head(direct), c) = a /\ Valid(Head(direct), c, h)
          /\ Flow(s, e, Tail(direct), a + 1, c, h) /\ OnStream(s, Tail(direct), c, h)
      BY <2>m, <3>1, <3>2, FlowDeliver
    <3> QED BY <2>m, <3>3 DEF a, c, h
  <2>9. AtBrowser(s, shown[s], Append(sub[s], m), printed[s], shell[s]) /\ Len(Append(sub[s], m)) = Len(sub[s]) + 1
    <3> DEFINE c == printed[s] h == shell[s] sh == shown[s] sb == sub[s]
    <3>1. /\ sh \in Seq(Outputs) /\ sb \in Seq(Outputs) /\ sb # None /\ AtBrowser(s, sh, sb, c, h)
          /\ Rank(m, c) = Len(sh) + Len(sb) /\ Valid(m, c, h)
      BY <2>1, <2>3, <2>4, <2>6, <2>8
    <3> HIDE DEF c, h, sh, sb
    <3>2. AtBrowser(s, sh, Append(sb, m), c, h) /\ Len(Append(sb, m)) = Len(sb) + 1
      BY <2>m, <3>1, BrowserQueue
    <3> QED BY <3>2 DEF c, h, sh, sb
  <2>10. Arrived(s)' = Arrived(s) + 1
    <3>1. sub'[s] # None
      <4>1. Append(sub[s], m) \in Seq(Outputs)
        BY <2>m, <2>3, AppendProperties
      <4> QED BY <2>3, <4>1, NullHasNoSequence
    <3>2. Arrived(s)' = Len(shown[s]) + Len(Append(sub[s], m))
      BY <1>1, <2>3, <3>1 DEF Arrived
    <3>3. Len(shown[s]) \in Nat /\ Len(sub[s]) \in Nat
      BY <2>3, LenProperties
    <3>4. \A x, y \in Nat : x + (y + 1) = (x + y) + 1
      OBVIOUS
    <3> QED BY <2>4, <2>9, <3>2, <3>3, <3>4
  <2>11. ToBegin(s)' => ToBegin(s)
    BY <1>1 DEF ToBegin, Opening
  <2> QED BY <1>1, <2>3, <2>5, <2>8, <2>9, <2>10, <2>11 DEF InOrder
<1> QED BY <1>7, <1>8

LEMMA OrderAgent ==
  ASSUME TermTypes, TermTypes', LinkInv, NEW s \in T!Sessions, Spared(s) => InOrder(s), Spared(s)',
         NEW r \in T!Sessions, T!Output(r) \/ T!Exits(r) \/ T!PumpEnds(r)
  PROVE  InOrder(s)'
<1>p. Sides /\ Known /\ \A i \in DOMAIN inputs : OpenRight(i)
  BY LinkParts
<1>1. UNCHANGED <<ws, sub, inputs, shown>> /\ shell[r] \in {"runs", "ended"}
  BY DEF T!Output, T!Exits, T!PumpEnds, T!browser, T!history
<1>2. lost'[s] = {} /\ ws[s] # "done"
  BY <1>1 DEF Spared
<1>3. T!Out(r, "exit", 0) \in Outputs /\ T!Out(r, "data", printed[r] + 1) \in Outputs
  BY OutTyped DEF Kinds, TermTypes
<1>4. /\ T!Out(r, "exit", 0).id = r /\ T!Out(r, "exit", 0).kind = "exit" /\ T!Out(r, "exit", 0).n = 0
      /\ T!Out(r, "data", printed[r] + 1).id = r /\ T!Out(r, "data", printed[r] + 1).kind = "data"
      /\ T!Out(r, "data", printed[r] + 1).n = printed[r] + 1
  BY DEF T!Out
<1>5. lost[s] = {} /\ (r = s /\ ~T!Exits(r) => lost' = lost)
  <2>1. ASSUME NEW m \in Outputs, m.id = r, T!Emit(m)
        PROVE  lost[s] = {} /\ (r = s => lost' = lost /\ direct' = Append(direct, m))
    <3>1. CASE T!Lose(<<m>>)
      <4>1. lost[s] = {} /\ \A i \in DOMAIN <<m>> : <<m>>[i].id # s
        BY <1>2, <3>1, LoseGrows
      <4> QED BY <2>1, <4>1
    <3> QED BY <1>2, <2>1, <3>1, EmitIs
  <2>2. CASE T!Output(r)
    BY <1>3, <1>4, <2>1, <2>2 DEF T!Output
  <2>3. CASE T!Exits(r)
    BY <1>2, <2>3 DEF T!Exits
  <2>4. CASE T!PumpEnds(r)
    BY <1>3, <1>4, <2>1, <2>4 DEF T!PumpEnds
  <2> QED BY <2>2, <2>3, <2>4
<1>6. InOrder(s)
  BY <1>2, <1>5 DEF Spared
<1>7. Opening(s)' => Opening(s)
  BY <1>1 DEF Opening
<1>8. CASE T!Exits(r)
  <2>1. /\ direct' = direct /\ printed' = printed /\ shell[r] = "runs" /\ shell' = [shell EXCEPT ![r] = "ended"]
    BY <1>8 DEF T!Exits, T!history
  <2>2. (shell[s] = "none" <=> shell'[s] = "none") /\ (shell[s] = "gone" => shell'[s] = "gone")
    BY <2>1 DEF TermTypes
  <2> QED BY <1>1, <1>6, <1>7, <2>1, <2>2, MovedSame, OthersKeep
<1>9. CASE r # s /\ (T!Output(r) \/ T!PumpEnds(r))
  <2>1. Moved(s, 0)
    BY <1>3, <1>4, <1>9, MovedEmit DEF T!Output, T!PumpEnds
  <2>2. shell'[s] = shell[s] /\ printed'[s] = printed[s]
    BY <1>9 DEF T!Output, T!PumpEnds, T!agent, T!history, TermTypes
  <2> QED BY <1>1, <1>6, <1>7, <2>1, <2>2, OthersKeep
<1>10. PICK e \in Nat : Flow(s, e, direct, Arrived(s), printed[s], shell[s]) /\ (ToBegin(s) => e = 0)
  BY <1>6 DEF InOrder
<1>11. ~ToBegin(s)' \/ r # s
  <2>1. ASSUME Opening(s) PROVE shell[s] = "none"
    <3>1. PICK i \in DOMAIN inputs : inputs[i] = [id |-> s, kind |-> "open"]
      BY <2>1 DEF Opening
    <3>2. inputs[i].kind = "open" /\ inputs[i].id = s
      BY <3>1
    <3> QED BY <1>p, <3>2 DEF OpenRight
  <2> QED BY <1>1, <1>7, <1>p, <2>1 DEF ToBegin, Sides
<1>12. CASE r = s /\ T!Output(s)
  <2> DEFINE m == T!Out(s, "data", printed[s] + 1)
  <2>1. m \in Outputs /\ m.id = s /\ m.kind = "data" /\ m.n = printed[s] + 1
    BY <1>3, <1>4, <1>12
  <2>2. shell[s] = "runs" /\ shell'[s] = "runs" /\ printed[s] \in Nat /\ printed'[s] = printed[s] + 1
    BY <1>12 DEF T!Output, T!agent, TermTypes
  <2>3. direct' = Append(direct, m)
    <3>1. CASE T!Lose(<<m>>)
      <4>1. \A i \in DOMAIN <<m>> : <<m>>[i].id # s
        BY <1>2, <3>1, LoseGrows
      <4> QED BY <2>1, <4>1
    <3> QED BY <1>12, <2>1, <3>1, EmitIs DEF T!Output
  <2> HIDE DEF m
  <2>4. e = printed[s] + 1
    BY <1>10, <2>2 DEF Flow
  <2>5. Valid(m, printed'[s], shell'[s]) /\ Rank(m, printed'[s]) = e
    BY <2>1, <2>2, <2>4 DEF Valid, Rank
  <2>6. Keeps(s, printed[s], shell[s], printed'[s], shell'[s])
    BY <2>2, KeepsPrinted
  <2> QED BY <1>1, <1>6, <1>10, <1>11, <1>12, <2>1, <2>2, <2>3, <2>4, <2>5, <2>6, OwnOutput
<1>13. CASE r = s /\ T!PumpEnds(s)
  <2> DEFINE m == T!Out(s, "exit", 0)
  <2>1. m \in Outputs /\ m.id = s /\ m.kind = "exit" /\ m.n = 0
    BY <1>3, <1>4, <1>13
  <2>2. shell[s] = "ended" /\ shell'[s] = "gone" /\ printed[s] \in Nat /\ printed'[s] = printed[s]
    BY <1>13 DEF T!PumpEnds, T!history, TermTypes
  <2>3. direct' = Append(direct, m)
    <3>1. CASE T!Lose(<<m>>)
      <4>1. \A i \in DOMAIN <<m>> : <<m>>[i].id # s
        BY <1>2, <3>1, LoseGrows
      <4> QED BY <2>1, <4>1
    <3> QED BY <1>13, <2>1, <3>1, EmitIs DEF T!PumpEnds
  <2> HIDE DEF m
  <2>4. e = printed[s] + 1
    BY <1>10, <2>2 DEF Flow
  <2>5. Valid(m, printed'[s], shell'[s]) /\ Rank(m, printed'[s]) = e
    BY <2>1, <2>2, <2>4 DEF Valid, Rank
  <2>6. Keeps(s, printed[s], shell[s], printed'[s], shell'[s])
    BY <2>2, KeepsSame
  <2> QED BY <1>1, <1>6, <1>10, <1>11, <1>13, <2>1, <2>2, <2>3, <2>5, <2>6, OwnOutput
<1> QED BY <1>8, <1>9, <1>12, <1>13

\* The first output of a shell, of which there was none before.
LEMMA FirstOutput ==
  ASSUME TermTypes, TermTypes', NEW s \in T!Sessions, NEW m \in Outputs, m.id = s,
         direct' = Append(direct, m), \A p \in DOMAIN direct : direct[p].id # s,
         shown'[s] = << >>, sub'[s] # None => sub'[s] = << >>,
         printed'[s] = 0, Valid(m, printed'[s], shell'[s]), Rank(m, printed'[s]) = 0,
         ~ToBegin(s)'
  PROVE  InOrder(s)'
<1> DEFINE h2 == shell'[s] on2 == direct' l == Len(direct)
<1>1. /\ l \in Nat /\ DOMAIN direct = 1..l /\ DOMAIN on2 = 1..(l + 1)
      /\ \A p \in 1..l : on2[p] = direct[p]
      /\ on2[l + 1] = m
  BY AppendProperties, LenProperties DEF TermTypes
<1>2. Arrived(s)' = 0
  BY DEF Arrived
<1>3. Valid(m, 0, h2) /\ Rank(m, 0) = 0
  OBVIOUS
<1> HIDE DEF h2, on2, l
<1>4. \A p \in DOMAIN on2 : on2[p].id = s => p = l + 1 /\ on2[p] = m
  BY <1>1
<1>5. l + 1 \in DOMAIN on2
  BY <1>1
<1>6. Flow(s, 1, on2, 0, 0, h2)
  <2>1. \A p \in DOMAIN on2 : on2[p].id = s => Rank(on2[p], 0) \in 0..(1 - 1)
    BY <1>3, <1>4
  <2>2. \A p, q \in DOMAIN on2 : p < q /\ on2[p].id = s /\ on2[q].id = s => Rank(on2[p], 0) < Rank(on2[q], 0)
    BY <1>1, <1>4
  <2>3. \A j \in 0..(1 - 1) : \E p \in DOMAIN on2 : on2[p].id = s /\ Rank(on2[p], 0) = j
    BY <1>1, <1>3, <1>5
  <2> QED BY <2>1, <2>2, <2>3 DEF Flow
<1>7. OnStream(s, on2, 0, h2)
  BY <1>3, <1>4 DEF OnStream
<1>8. AtBrowser(s, shown'[s], sub'[s], 0, h2)
  BY DEF AtBrowser
<1> QED BY <1>2, <1>6, <1>7, <1>8 DEF InOrder, h2, on2

LEMMA OrderHandle ==
  ASSUME TermTypes, TermTypes', LinkInv, NEW s \in T!Sessions, Spared(s) => InOrder(s), Spared(s)', T!Handle
  PROVE  InOrder(s)'
<1>p. Sides /\ Known /\ \A i \in DOMAIN inputs : OpenRight(i)
  BY LinkParts
<1> DEFINE m == Head(inputs)
<1>1. /\ m \in Inputs /\ Handled(m) /\ inputs # << >> /\ inputs' = Tail(inputs)
      /\ UNCHANGED <<ws, sub, printed, shown>>
  BY HandleIs DEF T!browser, T!history
<1>2. /\ 1 \in DOMAIN inputs /\ m = inputs[1] /\ m.id \in T!Sessions /\ m = [id |-> m.id, kind |-> m.kind]
      /\ \A i \in DOMAIN inputs' : i + 1 \in DOMAIN inputs /\ inputs'[i] = inputs[i + 1] /\ i \in Nat
  <2>1. 1 \in DOMAIN inputs /\ m = inputs[1]
    BY <1>1, TailIs DEF TermTypes
  <2>2. m.id \in T!Sessions /\ m = [id |-> m.id, kind |-> m.kind]
    BY <1>1 DEF Inputs
  <2>3. \A i \in DOMAIN inputs' : i + 1 \in DOMAIN inputs /\ inputs'[i] = inputs[i + 1]
    BY <1>1, TailIs DEF TermTypes
  <2>4. DOMAIN inputs' \subseteq Nat
    BY LenProperties DEF TermTypes
  <2> QED BY <2>1, <2>2, <2>3, <2>4
<1>3. lost'[s] = {} /\ ws[s] # "done"
  BY <1>1 DEF Spared
<1>4. Opening(s)' => Opening(s)
  BY <1>2 DEF Opening
<1> HIDE DEF m
<1>5. CASE m.kind # "open"
  <2>1. direct' = direct /\ lost' = lost /\ (T!Kill({m.id}) \/ shell' = shell)
    BY <1>1, <1>5 DEF Handled
  <2>2. (shell[s] = "none" <=> shell'[s] = "none") /\ (shell[s] = "gone" => shell'[s] = "gone")
    BY <2>1, KillTyped
  <2>3. InOrder(s)
    BY <1>3, <2>1 DEF Spared
  <2> QED BY <1>1, <1>4, <2>1, <2>2, <2>3, MovedSame, OthersKeep
<1>6. CASE m.kind = "open" /\ T!Start(m.id)
  <2>1. T!Out(m.id, "error", 0) \in Outputs /\ T!Out(m.id, "started", 0) \in Outputs
    BY <1>2, OutTyped DEF Kinds
  <2>2. /\ T!Out(m.id, "error", 0).id = m.id /\ T!Out(m.id, "error", 0).kind = "error" /\ T!Out(m.id, "error", 0).n = 0
        /\ T!Out(m.id, "started", 0).id = m.id /\ T!Out(m.id, "started", 0).kind = "started" /\ T!Out(m.id, "started", 0).n = 0
    BY DEF T!Out
  <2>3. PICK k \in {"error", "started"} :
          /\ T!Emit(T!Out(m.id, k, 0))
          /\ shell' = IF k = "error" THEN shell ELSE [shell EXCEPT ![m.id] = "runs"]
    BY <1>6 DEF T!Start
  <2> DEFINE o == T!Out(m.id, k, 0)
  <2>4. o \in Outputs /\ o.id = m.id /\ o.kind = k /\ o.n = 0 /\ T!Emit(o)
    BY <2>1, <2>2, <2>3
  <2> HIDE DEF o
  <2>5. lost[s] = {} /\ (m.id = s => direct' = Append(direct, o))
    <3>1. CASE T!Lose(<<o>>)
      <4>1. lost[s] = {} /\ \A i \in DOMAIN <<o>> : <<o>>[i].id # s
        BY <1>3, <3>1, LoseGrows
      <4> QED BY <2>4, <4>1
    <3> QED BY <1>3, <2>4, <3>1, EmitIs
  <2>6. InOrder(s)
    BY <1>3, <2>5 DEF Spared
  <2>7. CASE m.id # s
    <3>1. shell'[s] = shell[s]
      BY <1>2, <2>3, <2>7 DEF TermTypes
    <3>2. Moved(s, 0)
      BY <2>4, <2>7, MovedEmit
    <3> QED BY <1>1, <1>4, <2>6, <3>1, <3>2, OthersKeep
  <2>8. CASE m.id = s
    <3>1. Opening(s) /\ ~Opening(s)'
      <4>1. OpenRight(1) /\ inputs[1].kind = "open" /\ inputs[1] = [id |-> s, kind |-> "open"]
        BY <1>p, <1>2, <1>6, <2>8
      <4>2. ASSUME NEW i \in DOMAIN inputs', inputs'[i] = [id |-> s, kind |-> "open"] PROVE FALSE
        <5>1. i + 1 \in DOMAIN inputs /\ inputs[i + 1] = inputs[1] /\ i \in Nat
          BY <1>2, <4>1, <4>2
        <5>2. i + 1 = 1
          BY <4>1, <5>1 DEF OpenRight
        <5>3. i = 0
          BY <5>1, <5>2
        <5>4. 0 \notin DOMAIN inputs'
          BY LenProperties DEF TermTypes
        <5> QED BY <5>3, <5>4
      <4> QED BY <1>2, <4>1, <4>2 DEF Opening
    <3>2. shell[s] = "none" /\ printed[s] = 0 /\ printed'[s] = 0 /\ ws[s] # "idle"
      BY <1>p, <1>1, <1>2, <1>6, <2>8 DEF OpenRight, Known, Sides
    <3>3. shell'[s] = IF k = "error" THEN "none" ELSE "runs"
      BY <2>3, <2>8, <3>2 DEF TermTypes
    <3>4. Flow(s, 0, direct, Arrived(s), printed[s], shell[s])
      BY <2>6, <3>1 DEF InOrder, ToBegin
    <3>5. Arrived(s) = 0
      BY <3>4, ArrivedTyped DEF Flow
    <3>6. \A p \in DOMAIN direct : direct[p].id # s
      BY <3>4, <3>5 DEF Flow
    <3>7. shown[s] = << >> /\ (sub[s] # None => sub[s] = << >>)
      <4>1. Len(shown[s]) \in Nat /\ (sub[s] # None => Len(sub[s]) \in Nat)
        BY LenProperties DEF TermTypes
      <4>2. Len(shown[s]) = 0 /\ (sub[s] # None => Len(sub[s]) = 0)
        <5>1. \A x, y \in Nat : x + y = 0 => x = 0 /\ y = 0
          OBVIOUS
        <5>2. CASE sub[s] = None
          <6>1. Len(shown[s]) + 0 = 0
            BY <3>5, <5>2 DEF Arrived
          <6> QED BY <4>1, <5>2, <6>1
        <5>3. CASE sub[s] # None
          <6>1. Len(shown[s]) + Len(sub[s]) = 0
            BY <3>5, <5>3 DEF Arrived
          <6> QED BY <4>1, <5>1, <5>3, <6>1
        <5> QED BY <5>2, <5>3
      <4>3. shown[s] \in Seq(Outputs) /\ (sub[s] # None => sub[s] \in Seq(Outputs))
        BY DEF TermTypes
      <4> QED BY <4>2, <4>3, EmptySeq
    <3>8. Valid(o, printed'[s], shell'[s]) /\ Rank(o, printed'[s]) = 0
      BY <2>4, <3>2, <3>3 DEF Valid, Rank
    <3>9. ~ToBegin(s)'
      BY <1>1, <3>1, <3>2 DEF ToBegin
    <3> QED
      BY <1>1, <2>4, <2>5, <2>8, <3>2, <3>4, <3>5, <3>6, <3>7, <3>8, <3>9, FirstOutput
  <2> QED BY <2>7, <2>8
<1> QED BY <1>1, <1>5, <1>6 DEF Handled

LEMMA OrderStream ==
  ASSUME TermTypes, TermTypes', LinkInv, NEW s \in T!Sessions, Spared(s) => InOrder(s), Spared(s)',
         T!WriteReturns \/ T!Drop \/ T!CloseAll \/ T!RemoveStream \/ T!Connect \/ T!AgentCrash \/ UNCHANGED T!vars
  PROVE  InOrder(s)'
<1>1. lost'[s] = {} /\ ws'[s] # "done"
  BY DEF Spared
<1>2. CASE T!WriteReturns \/ T!RemoveStream \/ T!Connect \/ UNCHANGED T!vars
  <2>1. UNCHANGED <<direct, shell, printed, shown, sub, ws, lost, inputs>>
    BY <1>2 DEF T!WriteReturns, T!RemoveStream, T!Connect, T!vars, T!browser, T!agent, T!history
  <2> QED BY <2>1, OrderAside DEF Opening
<1>3. CASE T!CloseAll
  <2>1. UNCHANGED <<direct, printed, shown, sub, ws, lost, inputs>> /\ T!Kill(T!Sessions)
    BY <1>3 DEF T!CloseAll, T!browser, T!history
  <2>2. (shell[s] = "none" <=> shell'[s] = "none") /\ (shell[s] = "gone" => shell'[s] = "gone")
    BY <2>1, KillTyped
  <2>3. InOrder(s)
    BY <1>1, <2>1 DEF Spared
  <2> QED BY <2>1, <2>2, <2>3, MovedSame, OthersKeep DEF Opening
<1>4. CASE T!Drop
  <2>1. UNCHANGED <<shell, printed, shown, sub, ws>> /\ inputs' = << >>
    BY <1>4 DEF T!Drop, T!browser, T!agent, T!history
  <2>2. PICK n \in 0..Len(direct) :
          direct' = SubSeq(direct, n + 1, Len(direct)) /\ T!Lose(inputs \o SubSeq(direct, 1, n))
    BY <1>4 DEF T!Drop
  <2> DEFINE gone == SubSeq(direct, 1, n) msgs == inputs \o gone d == Len(inputs) l == Len(direct)
  <2>3. /\ inputs \in Seq(Inputs) /\ direct \in Seq(Outputs) /\ d \in Nat /\ l \in Nat
        /\ DOMAIN direct = 1..l /\ direct' \in Seq(Outputs)
    BY LenProperties DEF TermTypes
  <2>4. Len(direct') = l - n /\ \A p \in 1..(l - n) : direct'[p] = direct[p + n]
    BY <2>2, <2>3, SuffixTyped
  <2>5. DOMAIN direct' = 1..(l - n) /\ n \in Nat
    BY <2>3, <2>4, LenProperties
  <2>6. gone \in Seq(Outputs) /\ Len(gone) = n /\ \A p \in 1..n : gone[p] = direct[p]
    <3>1. 1 \in 1..(l + 1) /\ n \in (1 - 1)..l
      BY <2>3
    <3> QED BY <2>3, <3>1, SubSeqProperties
  <2> HIDE DEF gone
  <2>7. /\ \A p \in 1..n : msgs[d + p] = gone[p] /\ d + p \in DOMAIN msgs
    <3>1. inputs \in Seq(Inputs \cup Outputs) /\ gone \in Seq(Inputs \cup Outputs)
      BY <2>3, <2>6, SeqMonotonic
    <3>2. /\ msgs \in Seq(Inputs \cup Outputs) /\ Len(msgs) = d + n
          /\ \A i \in 1..(d + n) : msgs[i] = IF i <= d THEN inputs[i] ELSE gone[i - d]
      BY <2>6, <3>1, ConcatProperties
    <3>3. DOMAIN msgs = 1..(d + n)
      BY <3>2, LenProperties
    <3> HIDE DEF msgs, d
    <3>4. d \in Nat
      BY <2>3 DEF d
    <3> QED BY <2>5, <3>2, <3>3, <3>4
  <2>8. T!Lose(msgs) /\ ws[s] # "done"
    BY <1>1, <2>1, <2>2 DEF gone
  <2> HIDE DEF msgs, d, l
  <2>9. lost[s] = {} /\ \A i \in DOMAIN msgs : msgs[i].id # s
    BY <1>1, <2>8, LoseGrows
  <2>10. \A p \in 1..n : direct[p].id # s
    BY <2>6, <2>7, <2>9
  <2>11. Moved(s, n)
    <3>1. ASSUME NEW p \in DOMAIN direct, direct[p].id = s
          PROVE  p - n \in DOMAIN direct' /\ direct'[p - n] = direct[p]
      <4>1. p \in 1..l /\ p \notin 1..n
        BY <2>3, <2>10, <3>1
      <4>2. p - n \in 1..(l - n) /\ (p - n) + n = p
        BY <2>3, <2>5, <4>1
      <4> QED BY <2>4, <2>5, <4>2
    <3>2. ASSUME NEW p \in DOMAIN direct'
          PROVE  p + n \in DOMAIN direct /\ direct'[p] = direct[p + n]
      BY <2>3, <2>4, <2>5
    <3> QED BY <3>1, <3>2 DEF Moved, Shifted
  <2>12. InOrder(s)
    BY <2>8, <2>9 DEF Spared
  <2>13. ~Opening(s)'
    BY <2>1 DEF Opening
  <2> QED BY <2>1, <2>5, <2>11, <2>12, <2>13, OthersKeep
<1>5. CASE T!AgentCrash
  <2>1. /\ UNCHANGED <<printed, shown, sub, ws>> /\ inputs' = << >> /\ direct' = << >>
        /\ shell'[s] = IF shell[s] = "none" THEN "none" ELSE "gone"
    BY <1>5 DEF T!AgentCrash, T!browser, T!history
  <2>2. lost[s] = {}
    BY <1>1, <1>5 DEF T!AgentCrash
  <2>3. InOrder(s)
    BY <1>1, <2>1, <2>2 DEF Spared
  <2> DEFINE c == printed[s] h == shell[s] h2 == shell'[s] a == Arrived(s)
  <2>4. PICK e \in Nat : Flow(s, e, direct, a, c, h) /\ (ToBegin(s) => e = 0)
    BY <2>3 DEF InOrder
  <2>5. /\ shown[s] \in Seq(Outputs) /\ (sub[s] # None => sub[s] \in Seq(Outputs)) /\ c \in Nat
        /\ (h = "none" <=> h2 = "none") /\ (h = "gone" => h2 = "gone") /\ h2 \notin {"runs", "ended"}
    BY <2>1 DEF TermTypes
  <2>6. a \in Nat /\ Arrived(s)' = a
    <3>1. a \in Nat
      BY ArrivedTyped
    <3> QED BY <2>1, <3>1 DEF Arrived
  <2>7. AtBrowser(s, shown[s], sub[s], c, h)
    BY <2>3 DEF InOrder
  <2>8. ToBegin(s)' => a = 0
    <3>1. ToBegin(s)' => ToBegin(s)
      BY <2>1 DEF ToBegin, Opening
    <3> HIDE DEF a
    <3> QED BY <2>4, <2>6, <3>1 DEF Flow
  <2> HIDE DEF c, h, h2, a
  <2>9. Keeps(s, c, h, c, h2)
    BY <2>5, KeepsSame
  <2>10. AtBrowser(s, shown[s], sub[s], c, h2)
    BY <2>5, <2>7, <2>9, BrowserKept
  <2>11. Flow(s, a, << >>, a, c, h2) /\ OnStream(s, << >>, c, h2)
    BY <2>4, <2>5, <2>6, FlowCut
  <2> QED BY <2>1, <2>6, <2>8, <2>10, <2>11 DEF InOrder, c, h2, a
<1> QED BY <1>2, <1>3, <1>4, <1>5

-----------------------------------------------------------------------------
\* The invariant, and what it says of shells and screens.
LEMMA TermInvStep ==
  ASSUME TermInv, [T!Next]_(T!vars)
  PROVE  TermInv'
<1>0. TermTypes /\ LinkInv /\ T!NoOrphan /\ \A s \in T!Sessions : Spared(s) => InOrder(s)
  BY DEF TermInv
<1>1. TermTypes'
  <2>1. CASE UNCHANGED T!vars
    BY <1>0, <2>1 DEF TermTypes, T!vars, T!browser, T!agent, T!history
  <2> QED BY <1>0, <2>1, TypesBrowser, TypesHandle, TypesAgent, TypesStream
          DEF T!Next, T!System, T!Leave, T!HangUp, T!WriteFails
<1>2. LinkInv'
  <2>1. CASE UNCHANGED T!vars
    BY <1>0, <2>1 DEF LinkInv, Ending, T!vars, T!link, T!browser, T!agent, T!history
  <2> QED BY <1>0, <1>1, <2>1, LinkOpen, LinkFrame, LinkBrowser, LinkClose, LinkHandle, LinkAgent, LinkStream
          DEF T!Next, T!System, T!Leave, T!HangUp, T!WriteFails
<1>3. T!NoOrphan'
  BY <1>0, <1>1, <1>2, OrphanStep
<1>4. ASSUME NEW s \in T!Sessions, Spared(s)'
      PROVE  InOrder(s)'
  <2>1. Spared(s) => InOrder(s)
    BY <1>0
  <2>2. ASSUME NEW r \in T!Sessions,
               (\E op \in {"data", "signal", "close"} : T!Frame(r, op)) \/ T!ReadFails(r) \/ T!Close(r) \/ T!PumpFails(r)
        PROVE  InOrder(s)'
    BY <1>0, <1>1, <1>4, <2>1, <2>2, OrderBrowser
  <2>3. ASSUME NEW r \in T!Sessions, T!Open(r) \/ T!PumpOut(r)
        PROVE  InOrder(s)'
    <3>1. CASE r = s
      BY <1>0, <1>1, <1>4, <2>1, <2>3, <3>1, OrderOpen, OrderPump
    <3>2. CASE r # s
      BY <1>0, <1>1, <1>4, <2>1, <2>3, <3>2, OrderBrowser
    <3> QED BY <3>1, <3>2
  <2>4. ASSUME NEW r \in T!Sessions, T!Output(r) \/ T!Exits(r) \/ T!PumpEnds(r)
        PROVE  InOrder(s)'
    BY <1>0, <1>1, <1>4, <2>1, <2>4, OrderAgent
  <2>5. CASE T!Deliver
    BY <1>0, <1>1, <1>4, <2>1, <2>5, OrderDeliver
  <2>6. CASE T!Handle
    BY <1>0, <1>1, <1>4, <2>1, <2>6, OrderHandle
  <2>7. CASE T!WriteReturns \/ T!Drop \/ T!CloseAll \/ T!RemoveStream \/ T!Connect \/ T!AgentCrash \/ UNCHANGED T!vars
    BY <1>0, <1>1, <1>4, <2>1, <2>7, OrderStream
  <2> QED BY <2>2, <2>3, <2>4, <2>5, <2>6, <2>7 DEF T!Next, T!System, T!Leave, T!HangUp, T!WriteFails
<1> QED BY <1>1, <1>2, <1>3, <1>4 DEF TermInv

\* Prefixes, by their elements.
LEMMA PrefixMade ==
  ASSUME NEW S, NEW q \in Seq(S), NEW t \in Seq(S), Len(q) <= Len(t), \A p \in 1..Len(q) : q[p] = t[p]
  PROVE  T!IsPrefix(q, t)
<1> DEFINE k == Len(q)
<1>1. k \in Nat /\ Len(t) \in Nat /\ 1 \in 1..(k + 1) /\ 1 \in 1..(Len(t) + 1) /\ k \in 0..k /\ k \in 0..Len(t)
  BY LenProperties
<1>2. SubSeq(q, 1, k) \in Seq(S) /\ Len(SubSeq(q, 1, k)) = k /\ \A p \in 1..k : SubSeq(q, 1, k)[p] = q[p]
  BY <1>1, SubSeqProperties
<1>3. SubSeq(t, 1, k) \in Seq(S) /\ Len(SubSeq(t, 1, k)) = k /\ \A p \in 1..k : SubSeq(t, 1, k)[p] = t[p]
  BY <1>1, SubSeqProperties
<1>4. SubSeq(q, 1, k) = SubSeq(t, 1, k)
  BY <1>1, <1>2, <1>3, SeqEqual
<1> QED BY <1>4 DEF T!IsPrefix

LEMMA WholeIs ==
  ASSUME TermTypes, NEW s \in T!Sessions
  PROVE  /\ T!WholeOutput(s) \in Seq(Outputs) /\ Len(T!WholeOutput(s)) = printed[s] + 2
         /\ T!WholeOutput(s)[1] = T!Out(s, "started", 0)
         /\ \A p \in 2..(printed[s] + 1) : T!WholeOutput(s)[p] = T!Out(s, "data", p - 1)
         /\ T!WholeOutput(s)[printed[s] + 2] = T!Out(s, "exit", 0)
<1> DEFINE c == printed[s]
           body == [n \in 1..c |-> T!Out(s, "data", n)]
           whole == T!WholeOutput(s)
<1>0. c \in Nat
  BY DEF TermTypes
<1> HIDE DEF c
<1>1. /\ \A n \in 1..c : T!Out(s, "data", n) \in Outputs
      /\ T!Out(s, "started", 0) \in Outputs /\ T!Out(s, "exit", 0) \in Outputs
  BY <1>0, OutTyped DEF Kinds
<1>2. body \in Seq(Outputs) /\ Len(body) = c /\ \A n \in 1..c : body[n] = T!Out(s, "data", n)
  <2>1. body \in [1..c -> Outputs]
    BY <1>1
  <2>2. body \in Seq(Outputs)
    BY <1>0, <2>1, SeqDef
  <2> QED BY <1>0, <2>1, <2>2, LenProperties
<1>3. <<T!Out(s, "started", 0)>> \in Seq(Outputs) /\ Len(<<T!Out(s, "started", 0)>>) = 1
      /\ <<T!Out(s, "exit", 0)>> \in Seq(Outputs) /\ Len(<<T!Out(s, "exit", 0)>>) = 1
  BY <1>1
<1> DEFINE one == <<T!Out(s, "started", 0)>> end == <<T!Out(s, "exit", 0)>> front == one \o body
<1>4. one \in Seq(Outputs) /\ Len(one) = 1 /\ end \in Seq(Outputs) /\ Len(end) = 1
      /\ one[1] = T!Out(s, "started", 0) /\ end[1] = T!Out(s, "exit", 0)
  BY <1>3
<1> HIDE DEF one, end, body
<1>5. front \in Seq(Outputs) /\ Len(front) = 1 + c
      /\ \A i \in 1..(1 + c) : front[i] = IF i <= 1 THEN one[i] ELSE body[i - 1]
  <2>1. /\ one \o body \in Seq(Outputs) /\ Len(one \o body) = Len(one) + Len(body)
        /\ \A i \in 1..(Len(one) + Len(body)) : (one \o body)[i] = IF i <= Len(one) THEN one[i] ELSE body[i - Len(one)]
    BY <1>2, <1>4, ConcatProperties
  <2> QED BY <1>2, <1>4, <2>1
<1> HIDE DEF front
<1>6. /\ front \o end \in Seq(Outputs) /\ Len(front \o end) = (1 + c) + 1
      /\ \A i \in 1..((1 + c) + 1) : (front \o end)[i] = IF i <= 1 + c THEN front[i] ELSE end[i - (1 + c)]
  <2>1. /\ front \o end \in Seq(Outputs) /\ Len(front \o end) = Len(front) + Len(end)
        /\ \A i \in 1..(Len(front) + Len(end)) :
             (front \o end)[i] = IF i <= Len(front) THEN front[i] ELSE end[i - Len(front)]
    BY <1>4, <1>5, ConcatProperties
  <2> QED BY <1>4, <1>5, <2>1
<1>7. whole = front \o end
  BY DEF front, one, end, body, c, whole, T!WholeOutput
<1> HIDE DEF whole
<1>8. whole[1] = T!Out(s, "started", 0)
  BY <1>0, <1>4, <1>5, <1>6, <1>7
<1>9. ASSUME NEW p \in 2..(c + 1) PROVE whole[p] = T!Out(s, "data", p - 1)
  <2>1. whole[p] = front[p] /\ front[p] = body[p - 1] /\ p - 1 \in 1..c
    BY <1>0, <1>5, <1>6, <1>7
  <2> QED BY <1>2, <2>1
<1>10. whole[c + 2] = T!Out(s, "exit", 0)
  <2>1. c + 2 \in 1..((1 + c) + 1) /\ ~(c + 2 <= 1 + c) /\ (c + 2) - (1 + c) = 1
    BY <1>0
  <2> QED BY <1>4, <1>6, <1>7, <2>1
<1>11. whole \in Seq(Outputs) /\ Len(whole) = c + 2
  BY <1>0, <1>6, <1>7
<1>12. \A p \in 2..(c + 1) : whole[p] = T!Out(s, "data", p - 1)
  BY <1>9
<1> QED BY <1>8, <1>10, <1>11, <1>12 DEF whole, c

LEMMA EmptyPrefix ==
  ASSUME NEW s \in T!Sessions, TermTypes
  PROVE  T!IsPrefix(<< >>, T!WholeOutput(s))
<1>1. T!WholeOutput(s) \in Seq(Outputs) /\ Len(T!WholeOutput(s)) \in Nat /\ << >> \in Seq(Outputs) /\ Len(<< >>) = 0
  BY WholeIs, LenProperties, EmptySeq
<1>2. Len(<< >>) <= Len(T!WholeOutput(s)) /\ \A p \in 1..Len(<< >>) : << >>[p] = T!WholeOutput(s)[p]
  BY <1>1
<1> QED BY <1>1, <1>2, PrefixMade

\* What a browser was sent, when its outputs are in order.
LEMMA OrderShows ==
  ASSUME TermTypes, NEW s \in T!Sessions, InOrder(s)
  PROVE  T!IsPrefix(shown[s], T!WholeOutput(s)) \/ shown[s] = <<T!Out(s, "error", 0)>>
<1> DEFINE sh == shown[s] c == printed[s] h == shell[s] k == Len(sh)
           whole == T!WholeOutput(s)
<1>1. /\ sh \in Seq(Outputs) /\ c \in Nat /\ k \in Nat /\ DOMAIN sh = 1..k
      /\ \A p \in 1..k : sh[p] \in Outputs /\ sh[p].id = s /\ Rank(sh[p], c) = p - 1 /\ Valid(sh[p], c, h)
  <2>1. sh \in Seq(Outputs) /\ c \in Nat
    BY DEF TermTypes
  <2>2. k \in Nat /\ DOMAIN sh = 1..k
    BY <2>1, LenProperties
  <2>3. \A p \in 1..k : sh[p] \in Outputs
    BY <2>1, <2>2, ElementTyped
  <2> QED BY <2>1, <2>2, <2>3 DEF InOrder, AtBrowser
<1>2. /\ whole \in Seq(Outputs) /\ Len(whole) = c + 2 /\ whole[1] = T!Out(s, "started", 0)
      /\ \A p \in 2..(c + 1) : whole[p] = T!Out(s, "data", p - 1)
      /\ whole[c + 2] = T!Out(s, "exit", 0)
  BY WholeIs
<1> HIDE DEF sh, c, h, k, whole
<1>3. \A m \in Outputs : m.id = s => m = T!Out(s, m.kind, m.n)
  BY DEF Outputs, T!Out
<1>4. CASE h = "none"
  <2>1. \A p \in 1..k : p = 1 /\ sh[p] = T!Out(s, "error", 0)
    BY <1>1, <1>3, <1>4 DEF Valid, Rank
  <2>2. k = 0 \/ k = 1
    <3>1. k > 1 => 2 \in 1..k
      BY <1>1
    <3> QED BY <1>1, <2>1, <3>1
  <2>3. CASE k = 0
    <3>1. sh = << >>
      BY <1>1, <2>3, EmptySeq DEF k
    <3> QED BY <1>1, <1>2, <2>3, <3>1, EmptyPrefix DEF sh, whole, c, T!WholeOutput
  <2>4. CASE k = 1
    <3>1. sh[1] = T!Out(s, "error", 0) /\ Len(<<T!Out(s, "error", 0)>>) = 1
      BY <2>1, <2>4
    <3>2. sh = <<T!Out(s, "error", 0)>>
      BY <1>1, <2>4, <3>1 DEF k
    <3> QED BY <3>2 DEF sh
  <2> QED BY <2>2, <2>3, <2>4
<1>5. CASE h # "none"
  <2>1. ASSUME NEW p \in 1..k PROVE p <= c + 2 /\ sh[p] = whole[p]
    <3>1. sh[p] = T!Out(s, sh[p].kind, sh[p].n) /\ Rank(sh[p], c) = p - 1 /\ Valid(sh[p], c, h) /\ p \in Nat /\ c \in Nat
      BY <1>1, <1>3
    <3>2. CASE sh[p].kind = "started"
      <4>1. p = 1 /\ sh[p].n = 0
        BY <3>1, <3>2 DEF Valid, Rank
      <4> QED BY <1>2, <3>1, <3>2, <4>1
    <3>3. CASE sh[p].kind = "data"
      <4>1. sh[p].n = p - 1 /\ p - 1 \in 1..c
        BY <3>1, <3>3 DEF Valid, Rank
      <4>2. p \in 2..(c + 1)
        BY <3>1, <4>1
      <4> QED BY <1>2, <3>1, <3>3, <4>1, <4>2
    <3>4. CASE sh[p].kind = "exit"
      <4>1. p - 1 = c + 1 /\ sh[p].n = 0
        BY <3>1, <3>4 DEF Valid, Rank
      <4>2. p = c + 2
        BY <3>1, <4>1
      <4> QED BY <1>2, <3>1, <3>4, <4>1, <4>2
    <3> QED BY <1>5, <3>1, <3>2, <3>3, <3>4 DEF Valid
  <2>2. k <= c + 2
    <3>1. k > 0 => k \in 1..k
      BY <1>1
    <3> QED BY <1>1, <2>1, <3>1
  <2>3. T!IsPrefix(sh, whole)
    BY <1>1, <1>2, <2>1, <2>2, PrefixMade DEF k
  <2> QED BY <2>3 DEF sh, whole, c, T!WholeOutput
<1> QED BY <1>4, <1>5

\* What a browser that lost nothing was sent begins the shell's output, and no
\* shell is left behind (NoOrphan and ShownWhole).
LEMMA TermInvShows ==
  ASSUME TermInv
  PROVE  T!NoOrphan /\ T!ShownWhole
<1>1. TermTypes /\ LinkInv /\ T!NoOrphan /\ \A s \in T!Sessions : Spared(s) => InOrder(s)
  BY DEF TermInv
<1>2. ASSUME NEW s \in T!Sessions, lost[s] = {}
      PROVE  T!IsPrefix(shown[s], T!WholeOutput(s)) \/ shown[s] = <<T!Out(s, "error", 0)>>
  <2>1. CASE ws[s] = "done"
    <3>1. shown[s] = << >> /\ Sides
      BY <1>1, <2>1, LinkParts DEF Sides
    <3> QED BY <1>1, <3>1, EmptyPrefix
  <2>2. CASE ws[s] # "done"
    BY <1>1, <1>2, <2>2, OrderShows DEF Spared
  <2> QED BY <2>1, <2>2
<1> QED BY <1>1, <1>2 DEF T!ShownWhole

\* No shell is left behind without a browser, and a browser is shown what its
\* shell printed, in order and without gaps, and the end last (manager.go's
\* "no orphan shells linger"; emit, Deliver and pumpOut).
THEOREM TerminalsAreRight == T!Spec => []TerminalsRight
<1>1. T!Init => TermInv
  BY TypesInit, LinkInit, OrphanInit, OrderInit DEF TermInv
<1>2. TermInv /\ [T!Next]_(T!vars) => TermInv'
  BY TermInvStep
<1>3. TermInv => TerminalsRight
  BY TermInvShows DEF TerminalsRight
<1> QED BY <1>1, <1>2, <1>3, PTL DEF T!Spec
=============================================================================
