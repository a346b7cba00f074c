------------------------------ MODULE AgentRuns ------------------------------
(***************************************************************************)
(* The life of a job run inside the agent (agent/internal/runtime/runs.go  *)
(* and agent/internal/executor/executor.go).                               *)
(*                                                                         *)
(* Every call of executeRun is a goroutine of its own: the scheduler's     *)
(* callback, a RunNow message and the catch-up loop all start one.  A run  *)
(* reads the job's definition, passes the concurrency policy (admit),      *)
(* registers itself for cancellation (trackRun), and executes one attempt  *)
(* after another.  Everything it wants to tell the control plane goes to   *)
(* the outbox.                                                             *)
(*                                                                         *)
(* recordFire, which executeRun calls between trackRun and RunStarted,     *)
(* writes only the catch-up history and is modelled in module Catchup.     *)
(***************************************************************************)
EXTENDS Naturals, Sequences, FiniteSets

CONSTANTS
  Jobs,        \* job ids
  Runs,        \* run ids (ULIDs), each used by one call of executeRun
  JobOf,       \* the job a run id was made for
  Sources,     \* what starts runs: a part of {"schedule", "manual", "catchup"}
  MaxRetries,  \* largest max_retries a definition has
  SeqBlock,    \* seqBlock: sequence numbers reserved per attempt
  MaxLines,    \* bound: sequence numbers one attempt uses per stream
  MaxSyncs     \* bound: definition changes pushed by the control plane

ASSUME RunsAssumption ==
  /\ JobOf \in [Runs -> Jobs]
  /\ Sources \subseteq {"schedule", "manual", "catchup"}
  /\ MaxRetries \in Nat
  /\ MaxSyncs \in Nat
  /\ SeqBlock \in Nat
  /\ MaxLines \in 0..SeqBlock

Policies == {"allow", "skip", "queue"}
Triggers == {"schedule", "manual", "catchup"}
Statuses == {"succeeded", "failed", "timed_out", "canceled"}
Streams  == {"stdout", "stderr"}

Defs  == [policy : Policies, retries : 0..MaxRetries]
NoDef == [policy |-> "none", retries |-> 0]

(***************************************************************************)
(* Messages a run queues.  A chunk carries its primary key at the control  *)
(* plane (run, stream, seq) and what wrote it: a retry note, an executor   *)
(* note or an output line of the attempt "att".                            *)
(***************************************************************************)
Started(r)     == [kind |-> "RunStarted", run |-> r]
Finished(r, s) == [kind |-> "RunFinished", run |-> r, status |-> s]
Chunk(r, st, q, a, w) ==
  [kind |-> "LogChunk", run |-> r, stream |-> st, seq |-> q, att |-> a, what |-> w]

Messages ==
  { Started(r) : r \in Runs }
    \cup { Finished(r, s) : r \in Runs, s \in Statuses }
    \cup [kind : {"LogChunk"}, run : Runs, stream : Streams, seq : Nat,
          att : 0..MaxRetries, what : {"retry", "note", "line"}]

VARIABLES
  jobs,       \* r.jobs: the synced definitions
  connected,  \* is a stream to the control plane open
  syncs,      \* bound counter for ApplySync
  pc,         \* where the goroutine of a run is
  trigger,    \* why it runs; decides which context it inherits
  def,        \* the definition it read
  ctxDone,    \* its context is canceled
  deadline,   \* the executor's timeout expired while the process ran
  attempt,    \* runWithRetries: attempt
  lines,      \* next sequence number of each pipe in this attempt
  result,     \* result of the last attempt
  gate,       \* r.gates: is the one-slot channel of a job full
  runIndex,   \* r.runIndex: runs that can be canceled
  jobBusy,    \* r.jobBusy: in-progress runs per job
  outbox,     \* everything queued, oldest first
  cancelled   \* history: runs a CancelRun message reached

runVars  == <<pc, trigger, def, ctxDone, deadline, attempt, lines, result>>
lockVars == <<gate, runIndex, jobBusy>>
vars == <<jobs, connected, syncs, pc, trigger, def, ctxDone, deadline, attempt,
          lines, result, gate, runIndex, jobBusy, outbox, cancelled>>

PCs == {"idle", "lookup", "admit", "begin", "attempt", "running", "backoff",
        "finish", "release", "done", "dropped", "dead"}

Over     == {"done", "dropped", "dead"}
Admitted == {"begin", "attempt", "running", "backoff", "finish", "release"}

TypeOK ==
  /\ jobs \in [Jobs -> Defs \cup {NoDef}]
  /\ connected \in BOOLEAN
  /\ syncs \in 0..MaxSyncs
  /\ pc \in [Runs -> PCs]
  /\ trigger \in [Runs -> Triggers \cup {"none"}]
  /\ def \in [Runs -> Defs \cup {NoDef}]
  /\ ctxDone \in [Runs -> BOOLEAN]
  /\ deadline \in [Runs -> BOOLEAN]
  /\ attempt \in [Runs -> 0..MaxRetries]
  /\ lines \in [Runs -> [Streams -> Nat]]
  /\ result \in [Runs -> Statuses \cup {"none"}]
  /\ gate \in [Jobs -> BOOLEAN]
  /\ runIndex \in SUBSET Runs
  /\ jobBusy \in [Jobs -> Nat]
  /\ outbox \in Seq(Messages)
  /\ cancelled \in SUBSET Runs

Init ==
  /\ jobs \in [Jobs -> Defs \cup {NoDef}]
  /\ connected = FALSE
  /\ syncs = 0
  /\ pc = [r \in Runs |-> "idle"]
  /\ trigger = [r \in Runs |-> "none"]
  /\ def = [r \in Runs |-> NoDef]
  /\ ctxDone = [r \in Runs |-> FALSE]
  /\ deadline = [r \in Runs |-> FALSE]
  /\ attempt = [r \in Runs |-> 0]
  /\ lines = [r \in Runs |-> [s \in Streams |-> 0]]
  /\ result = [r \in Runs |-> "none"]
  /\ gate = [j \in Jobs |-> FALSE]
  /\ runIndex = {}
  /\ jobBusy = [j \in Jobs |-> 0]
  /\ outbox = << >>
  /\ cancelled = {}

Goto(r, from, to) ==
  /\ pc[r] = from
  /\ pc' = [pc EXCEPT ![r] = to]

-----------------------------------------------------------------------------
(***************************************************************************)
(* The three ways a run begins.  A scheduled run's context is never        *)
(* canceled from outside, a manual one's dies with the connection, and     *)
(* catch-up runs one at a time on one goroutine.                           *)
(***************************************************************************)
Fire(r, t) ==
  /\ t = "manual" => connected
  /\ t = "catchup" => \A q \in Runs : trigger[q] = "catchup" => pc[q] \in Over
  /\ Goto(r, "idle", "lookup")
  /\ trigger' = [trigger EXCEPT ![r] = t]
  /\ UNCHANGED <<jobs, connected, syncs, def, ctxDone, deadline, attempt, lines,
                 result, lockVars, outbox, cancelled>>

\* executeRun reads the definition; an unknown job ends the run silently.
Lookup(r) ==
  /\ Goto(r, "lookup", IF jobs[JobOf[r]] = NoDef THEN "dropped" ELSE "admit")
  /\ def' = [def EXCEPT ![r] = jobs[JobOf[r]]]
  /\ UNCHANGED <<jobs, connected, syncs, trigger, ctxDone, deadline, attempt,
                 lines, result, lockVars, outbox, cancelled>>

-----------------------------------------------------------------------------
(***************************************************************************)
(* admit: "allow" passes, the others take the job's slot.  When the slot   *)
(* is taken, "skip" gives up at once and "queue" waits for the slot or for *)
(* the end of its context.                                                 *)
(***************************************************************************)
AdmitAllow(r) ==
  /\ def[r].policy = "allow"
  /\ Goto(r, "admit", "begin")
  /\ UNCHANGED <<jobs, connected, syncs, trigger, def, ctxDone, deadline, attempt,
                 lines, result, lockVars, outbox, cancelled>>

\* Mutant: the slot is taken without looking whether it is free.
AdmitGateUnchecked(r) ==
  /\ def[r].policy # "allow"
  /\ Goto(r, "admit", "begin")
  /\ gate' = [gate EXCEPT ![JobOf[r]] = TRUE]
  /\ UNCHANGED <<jobs, connected, syncs, trigger, def, ctxDone, deadline, attempt,
                 lines, result, runIndex, jobBusy, outbox, cancelled>>

AdmitGate(r) ==
  /\ def[r].policy # "allow"
  /\ ~gate[JobOf[r]]
  /\ Goto(r, "admit", "begin")
  /\ gate' = [gate EXCEPT ![JobOf[r]] = TRUE]
  /\ UNCHANGED <<jobs, connected, syncs, trigger, def, ctxDone, deadline, attempt,
                 lines, result, runIndex, jobBusy, outbox, cancelled>>

\* Mutant: "queue" gives up like "skip" does.
NotAdmittedBusy(r) ==
  /\ def[r].policy \in {"skip", "queue"} /\ gate[JobOf[r]]
  /\ Goto(r, "admit", "dropped")
  /\ UNCHANGED <<jobs, connected, syncs, trigger, def, ctxDone, deadline, attempt,
                 lines, result, lockVars, outbox, cancelled>>

NotAdmitted(r) ==
  /\ \/ def[r].policy = "skip" /\ gate[JobOf[r]]
     \/ def[r].policy = "queue" /\ ctxDone[r]
  /\ Goto(r, "admit", "dropped")
  /\ UNCHANGED <<jobs, connected, syncs, trigger, def, ctxDone, deadline, attempt,
                 lines, result, lockVars, outbox, cancelled>>

\* trackRun and the RunStarted message.
Begin(r) ==
  /\ Goto(r, "begin", "attempt")
  /\ runIndex' = runIndex \cup {r}
  /\ jobBusy' = [jobBusy EXCEPT ![JobOf[r]] = @ + 1]
  /\ outbox' = Append(outbox, Started(r))
  /\ UNCHANGED <<jobs, connected, syncs, trigger, def, ctxDone, deadline, attempt,
                 lines, result, gate, cancelled>>

-----------------------------------------------------------------------------
(***************************************************************************)
(* runWithRetries and executor.Run.                                        *)
(***************************************************************************)
Base(r) == attempt[r] * SeqBlock

\* The one note there is: resource limits without a usable systemd-run.
NoteCounts == { n \in 0..1 : n <= MaxLines }

\* What an attempt logs before its process starts: the retry note of
\* runWithRetries, then the executor's own notes.
Preamble(r, notes) ==
  (IF attempt[r] > 0
     THEN << Chunk(r, "stderr", Base(r), attempt[r], "retry") >>
     ELSE << >>)
    \o [i \in 1..notes |-> Chunk(r, "stderr", Base(r) + (i - 1), attempt[r], "note")]

RetryIf(r, s, again) ==
  /\ result' = [result EXCEPT ![r] = s]
  /\ deadline' = [deadline EXCEPT ![r] = FALSE]
  /\ lines' = [lines EXCEPT ![r] = [stdout |-> 0, stderr |-> 0]]
  /\ IF again
       THEN /\ attempt' = [attempt EXCEPT ![r] = @ + 1]
            /\ pc' = [pc EXCEPT ![r] = "backoff"]
       ELSE /\ pc' = [pc EXCEPT ![r] = "finish"]
            /\ UNCHANGED attempt

\* Mutant: one retry too few.
ConcludeEarly(r, s) == RetryIf(r, s, s = "failed" /\ attempt[r] + 1 < def[r].retries)

\* Only a plain failure is retried, and only while retries are left.
Conclude(r, s) == RetryIf(r, s, s = "failed" /\ attempt[r] < def[r].retries)

\* The process starts: cmd.Start refuses a context that is already done.
StartProcess(r) ==
  /\ ~ctxDone[r]
  /\ Goto(r, "attempt", "running")
  /\ \E notes \in NoteCounts :
       /\ outbox' = outbox \o Preamble(r, notes)
       /\ lines' = [lines EXCEPT ![r].stderr = notes]
  /\ UNCHANGED <<jobs, connected, syncs, trigger, def, ctxDone, deadline, attempt,
                 result, lockVars, cancelled>>

\* run_as_user does not resolve, or cmd.Start fails.  (Mutant: it is tried
\* again without counting the attempt.)
StartFailsUncounted(r) ==
  /\ Goto(r, "attempt", "backoff")
  /\ result' = [result EXCEPT ![r] = "failed"]
  /\ UNCHANGED <<jobs, connected, syncs, trigger, def, ctxDone, deadline, attempt,
                 lines, lockVars, outbox, cancelled>>

StartFails(r) ==
  /\ pc[r] = "attempt"
  /\ \E notes \in NoteCounts : outbox' = outbox \o Preamble(r, notes)
  /\ Conclude(r, "failed")
  /\ UNCHANGED <<jobs, connected, syncs, trigger, def, ctxDone, lockVars, cancelled>>

\* One of the two pump goroutines reads a line.
PumpLine(r, s) ==
  /\ pc[r] = "running"
  /\ lines[r][s] < MaxLines
  /\ outbox' = Append(outbox,
                      Chunk(r, s, Base(r) + lines[r][s], attempt[r], "line"))
  /\ lines' = [lines EXCEPT ![r][s] = @ + 1]
  /\ UNCHANGED <<jobs, connected, syncs, pc, trigger, def, ctxDone, deadline,
                 attempt, result, lockVars, cancelled>>

\* The timeout of the executor's context expires before anything canceled it.
Deadline(r) ==
  /\ pc[r] = "running"
  /\ ~ctxDone[r]
  /\ ~deadline[r]
  /\ deadline' = [deadline EXCEPT ![r] = TRUE]
  /\ UNCHANGED <<jobs, connected, syncs, pc, trigger, def, ctxDone, attempt, lines,
                 result, lockVars, outbox, cancelled>>

\* The status executor.Run reports for a process that ended.
ExitStatus(r) ==
  IF deadline[r] THEN {"timed_out"}
  ELSE IF ctxDone[r] THEN {"canceled"}
  ELSE {"succeeded", "failed"}

\* Mutant: the slot is free again as soon as the process is gone.
ExitFreesSlot(r) ==
  /\ pc[r] = "running"
  /\ \E s \in ExitStatus(r) : Conclude(r, s)
  /\ gate' = [gate EXCEPT ![JobOf[r]] = FALSE]
  /\ UNCHANGED <<jobs, connected, syncs, trigger, def, ctxDone, runIndex, jobBusy,
                 outbox, cancelled>>

Exit(r) ==
  /\ pc[r] = "running"
  /\ \E s \in ExitStatus(r) : Conclude(r, s)
  /\ UNCHANGED <<jobs, connected, syncs, trigger, def, ctxDone, lockVars, outbox,
                 cancelled>>

BackoffOver(r) ==
  /\ Goto(r, "backoff", "attempt")
  /\ UNCHANGED <<jobs, connected, syncs, trigger, def, ctxDone, deadline, attempt,
                 lines, result, lockVars, outbox, cancelled>>

\* The context ends during the pause: the result of the failed attempt stands.
\* Mutant: the run is abandoned without a report.
BackoffCanceledSilent(r) ==
  /\ ctxDone[r]
  /\ Goto(r, "backoff", "release")
  /\ UNCHANGED <<jobs, connected, syncs, trigger, def, ctxDone, deadline, attempt,
                 lines, result, lockVars, outbox, cancelled>>

BackoffCanceled(r) ==
  /\ ctxDone[r]
  /\ Goto(r, "backoff", "finish")
  /\ UNCHANGED <<jobs, connected, syncs, trigger, def, ctxDone, deadline, attempt,
                 lines, result, lockVars, outbox, cancelled>>

-----------------------------------------------------------------------------
\* executeRun queues RunFinished, then its deferred calls run: releaseRun
\* and, for a run that holds the slot, the gate.
Finish(r) ==
  /\ Goto(r, "finish", "release")
  /\ outbox' = Append(outbox, Finished(r, result[r]))
  /\ UNCHANGED <<jobs, connected, syncs, trigger, def, ctxDone, deadline, attempt,
                 lines, result, lockVars, cancelled>>

ReleaseWith(r, busy, slots) ==
  /\ Goto(r, "release", "done")
  /\ runIndex' = runIndex \ {r}
  /\ jobBusy' = busy
  /\ gate' = slots
  /\ UNCHANGED <<jobs, connected, syncs, trigger, def, ctxDone, deadline, attempt,
                 lines, result, outbox, cancelled>>

LessBusy(r) == [jobBusy EXCEPT ![JobOf[r]] = IF @ > 0 THEN @ - 1 ELSE @]
FreeSlot(r) == [gate EXCEPT ![JobOf[r]] = FALSE]

\* (Mutant: every run empties the slot.)
ReleaseAnySlot(r) == ReleaseWith(r, LessBusy(r), FreeSlot(r))

Release(r) ==
  ReleaseWith(r, LessBusy(r), IF def[r].policy = "allow" THEN gate ELSE FreeSlot(r))

-----------------------------------------------------------------------------
(***************************************************************************)
(* What happens around a run.                                              *)
(***************************************************************************)
\* cancelRun: a run that is not in the index is not found; canceling twice
\* changes nothing.
CancelRun(r) ==
  /\ connected
  /\ r \in runIndex \ cancelled
  /\ ctxDone' = [ctxDone EXCEPT ![r] = TRUE]
  /\ cancelled' = cancelled \cup {r}
  /\ UNCHANGED <<jobs, connected, syncs, pc, trigger, def, deadline, attempt, lines,
                 result, lockVars, outbox>>

\* applySync: the definition of a job changes, appears or goes away.
ApplySync(j, d) ==
  /\ connected
  /\ syncs < MaxSyncs
  /\ jobs[j] # d
  /\ jobs' = [jobs EXCEPT ![j] = d]
  /\ syncs' = syncs + 1
  /\ UNCHANGED <<connected, runVars, lockVars, outbox, cancelled>>

Connect ==
  /\ ~connected
  /\ connected' = TRUE
  /\ UNCHANGED <<jobs, syncs, runVars, lockVars, outbox, cancelled>>

\* connectAndServe returns and cancels connCtx, which every manual run
\* started on this connection inherited.  (Mutant: all runs inherit it.)
DropCancelsAll ==
  /\ connected
  /\ connected' = FALSE
  /\ ctxDone' = [r \in Runs |-> ctxDone[r] \/ pc[r] \notin Over]
  /\ UNCHANGED <<jobs, syncs, pc, trigger, def, deadline, attempt, lines, result,
                 lockVars, outbox, cancelled>>

Drop ==
  /\ connected
  /\ connected' = FALSE
  /\ ctxDone' = [r \in Runs |->
       ctxDone[r] \/ (trigger[r] = "manual" /\ pc[r] \notin Over)]
  /\ UNCHANGED <<jobs, syncs, pc, trigger, def, deadline, attempt, lines, result,
                 lockVars, outbox, cancelled>>

\* The agent process dies: goroutines, index and gates are gone, the outbox
\* and the cached definitions are on disk.
Crash ==
  /\ \E r \in Runs : pc[r] \notin Over \cup {"idle"}
  /\ pc' = [r \in Runs |-> IF pc[r] \in Over \cup {"idle"} THEN pc[r] ELSE "dead"]
  /\ connected' = FALSE
  /\ gate' = [j \in Jobs |-> FALSE]
  /\ runIndex' = {}
  /\ jobBusy' = [j \in Jobs |-> 0]
  /\ UNCHANGED <<jobs, syncs, trigger, def, ctxDone, deadline, attempt, lines,
                 result, outbox, cancelled>>

Step(r) ==
  \/ Lookup(r)
  \/ AdmitAllow(r) \/ AdmitGate(r) \/ NotAdmitted(r)
  \/ Begin(r)
  \/ StartProcess(r) \/ StartFails(r)
  \/ Exit(r)
  \/ BackoffOver(r) \/ BackoffCanceled(r)
  \/ Finish(r) \/ Release(r)

Next ==
  \/ \E r \in Runs :
       \/ \E t \in Sources : Fire(r, t)
       \/ Step(r)
       \/ \E s \in Streams : PumpLine(r, s)
       \/ Deadline(r)
       \/ CancelRun(r)
  \/ \E j \in Jobs, d \in Defs \cup {NoDef} : ApplySync(j, d)
  \/ Connect \/ Drop \/ Crash

Spec == Init /\ [][Next]_vars

(***************************************************************************)
(* A goroutine that can take a step is scheduled eventually.  Exit is fair *)
(* because the executor kills the process at its deadline (60 minutes when *)
(* the job sets none).                                                     *)
(***************************************************************************)
FairSpec == Spec /\ \A r \in Runs : WF_vars(Step(r))

-----------------------------------------------------------------------------
(***************************************************************************)
(* Properties.                                                             *)
(***************************************************************************)
Gated(r) == def[r].policy # "allow"
Holds(r) == Gated(r) /\ pc[r] \in Admitted

\* Two runs of one job that both went through the gate are never in progress
\* together, whatever definition changes, cancellations, dropped connections
\* and restarts come between (runs.go:148-149, "these must not overlap").
Exclusive ==
  \A r, q \in Runs :
    (r # q /\ JobOf[r] = JobOf[q] /\ Holds(r)) => ~Holds(q)

\* The slot of a job is full exactly while a run holds it: no exit path of
\* executeRun leaks the slot (which would block the job for the lifetime of
\* the agent) or gives back a slot it never took.
SlotAccounted ==
  \A j \in Jobs : gate[j] <=> \E r \in Runs : JobOf[r] = j /\ Holds(r)

\* In the outbox every run is an envelope: nothing of a run comes before its
\* RunStarted, nothing after its RunFinished (so there is one of each), and a
\* run that ended normally has reported its end.
Envelope ==
  /\ \A i, k \in DOMAIN outbox :
       (i # k /\ outbox[i].run = outbox[k].run) =>
         /\ outbox[i].kind = "RunStarted" => i < k
         /\ outbox[i].kind = "RunFinished" => k < i
  /\ \A r \in Runs :
       pc[r] = "done" =>
         \E i \in DOMAIN outbox : outbox[i] = Finished(r, result[r])

\* The control plane never sees two gated runs of a job overlap: the end of
\* the first is queued before the start of the second, because the slot is
\* given back only after RunFinished is on disk.
SerialReports ==
  \A i, k \in DOMAIN outbox :
    LET r == outbox[i].run
        q == outbox[k].run
    IN  /\ i < k
        /\ outbox[i].kind = "RunStarted" /\ outbox[k].kind = "RunStarted"
        /\ JobOf[r] = JobOf[q] /\ Gated(r) /\ Gated(q)
        /\ pc[r] # "dead"
        => \E m \in (i+1)..(k-1) : outbox[m] = Finished(r, result[r])

\* A run is given up as "failed" only when its retries are used up, unless
\* its context ended first.
FailedMeansExhausted ==
  \A r \in Runs :
    (pc[r] \in {"finish", "release", "done"} /\ result[r] = "failed" /\ ~ctxDone[r])
      => attempt[r] = def[r].retries

\* Every fired run comes to an end.
RunEnds ==
  \A r \in Runs : (pc[r] = "lookup") ~> (pc[r] \in Over)

\* A scheduled or catch-up run under "queue" is never lost: it waits and then
\* starts, unless the agent dies.
QueuedRunStarts ==
  \A r \in Runs :
    (pc[r] = "admit" /\ def[r].policy = "queue" /\ trigger[r] # "manual")
      ~> (pc[r] = "dead" \/ \E i \in DOMAIN outbox : outbox[i] = Started(r))

\* "Execution does not depend on a live connection" (docs/architecture.md:
\* 115-116): a scheduled or catch-up run is reported canceled only when a
\* CancelRun reached it.  (A manual run also dies with its connection.)
CanceledHasCause ==
  \A i \in DOMAIN outbox :
    (outbox[i].kind = "RunFinished" /\ outbox[i].status = "canceled")
      => \/ outbox[i].run \in cancelled
         \/ trigger[outbox[i].run] = "manual"

\* No exit path of executeRun leaks the slot, and what a run reports is one
\* start and one end, in the order of the slot, with a reason for the status.
RunsAccounted ==
  SlotAccounted /\ Envelope /\ SerialReports /\ FailedMeansExhausted /\ CanceledHasCause
=============================================================================
