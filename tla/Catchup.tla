------------------------------- MODULE Catchup -------------------------------
(***************************************************************************)
(* What the agent remembers of when its jobs ran, and the windows it makes *)
(* up for after it was down: recordFire, runCatchup and missedWindows      *)
(* (agent/internal/runtime/catchup.go), state.json                         *)
(* (agent/internal/store/state.go) and the fires of the scheduler.         *)
(*                                                                         *)
(* Time is counted in windows: every job is due at every tick, and what    *)
(* starts in a tick starts after its window.  recordFire changes the map   *)
(* under a lock and writes the file after it.  Admission of a run (module  *)
(* AgentRuns) is left out: every run is admitted.  A run counts as made    *)
(* when its recordFire has returned, for the script starts after it.       *)
(***************************************************************************)
EXTENDS Integers, FiniteSets, FiniteSetsExt

CONSTANTS
  Jobs,          \* enabled jobs with a valid schedule
  Policy,        \* per job: "skip", "once" or "all"
  Cap,           \* maxCatchupRuns
  MaxTime,       \* bound: ticks
  MaxCrashes     \* bound: deaths of the process

Times  == 0..MaxTime      \* 0: never
States == [Jobs -> Times]

Callers == {"schedule", "catchup", "baseline"}   \* who calls recordFire

VARIABLES
  now,      \* the current window
  up,       \* the process runs
  due,      \* jobs whose cron loop has not yet fired in this window
  state,    \* Runtime.state: LastFiredAt per job
  disk,     \* state.json
  saving,   \* recordFire calls that have not yet written their snapshot
  todo,     \* jobs runCatchup has not looked at
  seen,     \* the state and the time runCatchup read when it began
  left,     \* per job: catch-up runs it has still to start
  crashes,  \* bound counter
  lastRun,  \* history: when a job last ran, or was first looked at
  missed,   \* history: windows missed before this start, per job
  raced     \* history: an older time replaced a newer one, in memory or on disk

vars == <<now, up, due, state, disk, saving, todo, seen, left, crashes, lastRun, missed, raced>>

Never == [j \in Jobs |-> 0]

Init ==
  /\ now = 1
  /\ up = FALSE
  /\ due = {}
  /\ state = Never
  /\ disk = Never
  /\ saving = {}
  /\ todo = {}
  /\ seen = [last |-> Never, at |-> 0]
  /\ left = Never
  /\ crashes = 0
  /\ lastRun = Never
  /\ missed = Never
  /\ raced = FALSE

Waiting    == \E r \in saving : r.by # "schedule"    \* runCatchup is in recordFire
CatchingUp == todo # {} \/ left # Never \/ Waiting

-----------------------------------------------------------------------------
\* recordFire: stamp the job and take a snapshot ...
RecordFire(j, at, by) ==
  /\ state' = [state EXCEPT ![j] = at]
  /\ raced' = (raced \/ at < state[j])
  /\ saving' = saving \cup {[job |-> j, at |-> at, by |-> by, snap |-> state']}

\* What a run that was recorded changes in the history.
Counted(r) ==
  /\ lastRun' = [lastRun EXCEPT ![r.job] = IF r.by = "baseline" /\ @ # 0 THEN @ ELSE r.at]
  /\ missed' = [missed EXCEPT ![r.job] = IF r.by = "catchup" THEN Max({@ - 1, 0}) ELSE @]
  /\ raced' = (raced \/ \E j \in Jobs : r.snap[j] < disk[j])
  /\ UNCHANGED <<now, up, due, state, todo, seen, left, crashes>>

\* ... and write it.  (Mutant: only a baseline is written at once.)
SaveLazily(r) ==
  /\ disk' = IF r.by = "baseline" THEN r.snap ELSE disk
  /\ saving' = saving \ {r}
  /\ Counted(r)

Save(r) ==
  /\ disk' = r.snap
  /\ saving' = saving \ {r}
  /\ Counted(r)

\* A window comes; a running agent fires every job in it.
Tick ==
  /\ now < MaxTime
  /\ due = {}
  /\ now' = now + 1
  /\ due' = IF up THEN Jobs ELSE {}
  /\ UNCHANGED <<up, state, disk, saving, todo, seen, left, crashes, lastRun, missed, raced>>

\* The scheduler fires a job (onSchedulerFire, executeRun).
Fire(j) ==
  /\ j \in due
  /\ due' = due \ {j}
  /\ RecordFire(j, now, "schedule")
  /\ UNCHANGED <<now, up, disk, todo, seen, left, crashes, lastRun, missed>>

-----------------------------------------------------------------------------
(***************************************************************************)
(* Catching up.                                                            *)
(***************************************************************************)
WindowsBetween(last, at) == Cardinality({ w \in 1..MaxTime : last < w /\ w <= at })

\* missedWindows: the windows after last, capped by stopping early.
MissedWindows(last, at) == Min({Cap, WindowsBetween(last, at)})

\* How many runs a policy makes of n missed windows.  (Mutant: "all" is taken
\* for "once".)
RunsForOnce(p, n) == IF p = "skip" THEN 0 ELSE Min({n, 1})

RunsFor(p, n) == CASE p = "skip" -> 0
                   [] p = "once" -> Min({n, 1})
                   [] p = "all"  -> n

\* History: what a job is really due, by its policy, since it last ran or
\* was recorded.  A job that never was has missed nothing.
Due(j, at) ==
  LET last == Max({lastRun[j], disk[j]})
      n    == WindowsBetween(last, at)
  IN  IF last = 0 THEN 0
      ELSE Min({n, IF Policy[j] = "all" THEN Cap ELSE IF Policy[j] = "once" THEN 1 ELSE 0})

\* The process starts: state.json is read and the catch-up begins.
Boot ==
  /\ ~up
  /\ up' = TRUE
  /\ state' = disk
  /\ todo' = Jobs
  /\ seen' = [last |-> disk, at |-> now]
  /\ missed' = [j \in Jobs |-> Due(j, now)]
  /\ UNCHANGED <<now, due, disk, saving, left, crashes, lastRun, raced>>

\* runCatchup takes the next job.  One that never fired gets the time the
\* catch-up began as its baseline.
Consider(j) ==
  /\ j \in todo
  /\ left = Never
  /\ ~Waiting
  /\ todo' = todo \ {j}
  /\ IF Policy[j] # "skip" /\ seen.last[j] = 0
     THEN RecordFire(j, seen.at, "baseline") /\ UNCHANGED left
     ELSE /\ left' = [left EXCEPT ![j] = RunsFor(Policy[j], MissedWindows(seen.last[j], seen.at))]
          /\ UNCHANGED <<state, saving, raced>>
  /\ UNCHANGED <<now, up, due, disk, seen, crashes, lastRun, missed>>

\* It runs the job, once for each window.
CatchupRun(j) ==
  /\ left[j] > 0
  /\ ~Waiting
  /\ left' = [left EXCEPT ![j] = @ - 1]
  /\ RecordFire(j, now, "catchup")
  /\ UNCHANGED <<now, up, due, disk, todo, seen, crashes, lastRun, missed>>

Crash ==
  /\ up
  /\ crashes < MaxCrashes
  /\ crashes' = crashes + 1
  /\ up' = FALSE
  /\ due' = {}
  /\ state' = Never
  /\ saving' = {}
  /\ todo' = {}
  /\ left' = Never
  /\ UNCHANGED <<now, disk, seen, lastRun, missed, raced>>

Next ==
  \/ Tick \/ Boot \/ Crash
  \/ \E j \in Jobs : Fire(j) \/ Consider(j) \/ CatchupRun(j)
  \/ \E r \in saving : Save(r)

Spec == Init /\ [][Next]_vars

-----------------------------------------------------------------------------
(***************************************************************************)
(* Properties.                                                             *)
(***************************************************************************)
Underway(j) == left[j] + Cardinality({ r \in saving : r.job = j /\ r.by = "catchup" })

\* The catch-up never makes a run for a window in which the job ran: a run
\* whose recordFire returned is on disk when the process dies ("a crash ...
\* would otherwise make the agent think the window was missed and run it
\* again on restart", catchup.go:104-105).
NoWindowTwice == ~raced => \A j \in Jobs : Underway(j) <= missed[j]

\* When the catch-up is over, each job got the runs its policy makes of the
\* windows that were missed: none, one, or all up to the cap.
PolicyCarriedOut == (~raced /\ up /\ ~CatchingUp) => missed = Never
=============================================================================
