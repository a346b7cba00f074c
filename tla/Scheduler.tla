------------------------------ MODULE Scheduler ------------------------------
(***************************************************************************)
(* The agent's local scheduler (agent/internal/scheduler/scheduler.go) and *)
(* the two places that feed it: the cached jobs at start-up                *)
(* (runtime.Run, applyCachedJobs) and every SyncJobs (applySync).          *)
(*                                                                         *)
(* There is one cron loop per timezone.  The scheduler's own book, entries,*)
(* is modelled apart from what the loops really hold, since a job fires as *)
(* often as loops hold it.  Ticking itself is the library's; a job can     *)
(* fire when a running loop holds it.                                      *)
(***************************************************************************)
EXTENDS Integers, FiniteSets

CONSTANTS
  Jobs,      \* job ids
  Zones,     \* timezones
  Crons,     \* cron expressions
  BadCrons,  \* those the parser refuses; the control plane does not check
  MaxSyncs,  \* bound: SyncJobs messages
  None       \* no definition, no entry

ASSUME SchedulerAssumption ==
  /\ BadCrons \subseteq Crons
  /\ MaxSyncs \in Nat
  /\ None \notin [cron : Crons, tz : Zones, enabled : BOOLEAN]
  /\ None \notin [cron : Crons, tz : Zones]

Defs    == [cron : Crons, tz : Zones, enabled : BOOLEAN]
Entries == [cron : Crons, tz : Zones]
JobSets == [Jobs -> Defs \cup {None}]
Empty   == [j \in Jobs |-> None]

VARIABLES
  up,       \* the agent process runs, and Start was called
  mem,      \* Runtime.jobs
  disk,     \* jobs.json
  applying, \* applySync has replaced mem and not yet called Apply
  entries,  \* Scheduler.entries
  crons,    \* Scheduler.crons: "none", "idle" (created) or "running"
  held,     \* per loop and job: entries the cron library holds
  syncs,    \* bound counter
  seeded    \* history: timezones of the jobs applied at start-up

vars == <<up, mem, disk, applying, entries, crons, held, syncs, seeded>>

TypeOK ==
  /\ up \in BOOLEAN
  /\ mem \in JobSets
  /\ disk \in JobSets
  /\ applying \in BOOLEAN
  /\ entries \in [Jobs -> Entries \cup {None}]
  /\ crons \in [Zones -> {"none", "idle", "running"}]
  /\ held \in [Zones -> [Jobs -> Nat]]
  /\ syncs \in 0..MaxSyncs
  /\ seeded \in SUBSET Zones

Init ==
  /\ up = FALSE
  /\ mem = Empty
  /\ disk = Empty
  /\ applying = FALSE
  /\ entries = Empty
  /\ crons = [z \in Zones |-> "none"]
  /\ held = [z \in Zones |-> [j \in Jobs |-> 0]]
  /\ syncs = 0
  /\ seeded = {}

-----------------------------------------------------------------------------
(***************************************************************************)
(* Apply.                                                                  *)
(***************************************************************************)
Wanted(want, j) == want[j] # None /\ want[j].enabled
Bad(want)       == { j \in Jobs : Wanted(want, j) /\ want[j].cron \in BadCrons }
EntryOf(d)      == [cron |-> d.cron, tz |-> d.tz]

\* Entries the cron library still has to drop when jobs in D are taken out.
\* (Mutant: an entry is taken out of the loop of the job's new timezone.)
WithoutIn(h, D, want) ==
  [z \in Zones |-> [j \in Jobs |->
     IF j \in D /\ want[j] # None /\ want[j].tz = z /\ h[z][j] > 0
     THEN h[z][j] - 1 ELSE h[z][j]]]

Without(h, D, want) ==
  [z \in Zones |-> [j \in Jobs |->
     IF j \in D /\ entries[j] # None /\ entries[j].tz = z THEN h[z][j] - 1 ELSE h[z][j]]]

\* One run of Apply's loops in which the jobs of "taken" lose their entry and
\* those of "added" get one; "touched" are the timezones cronFor was asked
\* for.  A loop that is created stays idle until Start is called.
ApplyStep(want, taken, added, touched, start) ==
  /\ entries' = [j \in Jobs |-> IF j \in added THEN EntryOf(want[j])
                                ELSE IF j \in taken THEN None ELSE entries[j]]
  /\ held' = LET h == Without(held, taken, want)
             IN  [z \in Zones |-> [j \in Jobs |->
                    IF j \in added /\ want[j].tz = z THEN h[z][j] + 1 ELSE h[z][j]]]
  /\ crons' = [z \in Zones |->
                 IF crons[z] = "none" /\ z \in touched
                 THEN IF start THEN "running" ELSE "idle"
                 ELSE crons[z]]

\* Jobs that are not in the set go first.  The others follow in the order of
\* a Go map; the first one the parser refuses ends the call, with its old
\* entry gone and the rest of the jobs as they were.  (Mutant: a changed set
\* only adds and replaces.)
Present(want) == { j \in Jobs : want[j] # None }
Good(want)    == { j \in Jobs : Wanted(want, j) } \ Bad(want)
ZonesOf(want, S) == { want[j].tz : j \in S }

ApplyKeeps(want, start) ==
  LET P == Good(want) IN ApplyStep(want, P, P, ZonesOf(want, P), start)

Apply(want, start) ==
  \/ /\ Bad(want) = {}
     /\ ApplyStep(want, Jobs, Good(want), ZonesOf(want, Good(want)), start)
  \/ \E b \in Bad(want), P \in SUBSET (Present(want) \ Bad(want)) :
       LET added == P \cap Good(want)
       IN  ApplyStep(want, (Jobs \ Present(want)) \cup P \cup {b}, added,
                     ZonesOf(want, added \cup {b}), start)

-----------------------------------------------------------------------------
(***************************************************************************)
(* The runtime.                                                            *)
(***************************************************************************)
\* Run: the cached jobs are applied, then the loops that exist are started.
\* (Mutant: they are started first.)
BootWith(start) ==
  /\ ~up
  /\ up' = TRUE
  /\ mem' = disk
  /\ Apply(disk, start)
  /\ seeded' = IF Bad(disk) = {} THEN ZonesOf(disk, Good(disk)) ELSE {}
  /\ UNCHANGED <<disk, applying, syncs>>

BootStartFirst == BootWith(FALSE)

Boot == BootWith(TRUE)

\* applySync replaces the job set (a full snapshot) ...
Sync ==
  /\ up
  /\ ~applying
  /\ syncs < MaxSyncs
  /\ syncs' = syncs + 1
  /\ mem' \in JobSets
  /\ applying' = TRUE
  /\ UNCHANGED <<up, disk, entries, crons, held, seeded>>

\* ... saves it, which may fail, and applies it to the running scheduler.
SyncApply ==
  /\ applying
  /\ applying' = FALSE
  /\ disk' \in {mem, disk}
  /\ Apply(mem, FALSE)
  /\ UNCHANGED <<up, mem, syncs, seeded>>

\* The process stops or dies; only jobs.json is left.
Crash ==
  /\ up
  /\ up' = FALSE
  /\ mem' = Empty
  /\ applying' = FALSE
  /\ entries' = Empty
  /\ crons' = [z \in Zones |-> "none"]
  /\ held' = [z \in Zones |-> [j \in Jobs |-> 0]]
  /\ seeded' = {}
  /\ UNCHANGED <<disk, syncs>>

Next == Boot \/ Sync \/ SyncApply \/ Crash

Spec == Init /\ [][Next]_vars

-----------------------------------------------------------------------------
(***************************************************************************)
(* Properties.                                                             *)
(***************************************************************************)
\* What the loops hold is what the scheduler's book says: each scheduled job
\* once, in the loop of its own timezone, after any sequence of syncs that
\* move jobs between timezones or stop at a bad expression.  A job that is
\* held twice would run twice per window.
HeldOnce ==
  \A z \in Zones, j \in Jobs :
    held[z][j] = IF entries[j] # None /\ entries[j].tz = z THEN 1 ELSE 0

\* A job that was taken off the agent is not scheduled any more, even when
\* another job's expression is bad; and once the set has no bad expression
\* the scheduler holds exactly the enabled jobs with their current schedule,
\* whatever a failed call left behind.
FollowsSync ==
  (up /\ ~applying) =>
    /\ \A j \in Jobs : entries[j] # None => mem[j] # None
    /\ Bad(mem) = {} => \A j \in Jobs :
         entries[j] = IF Wanted(mem, j) THEN EntryOf(mem[j]) ELSE None

\* The timezones of the jobs cached on disk are running after a restart and
\* go on running, so that these jobs fire before the first SyncJobs.
CachedZonesRun == \A z \in seeded : crons[z] = "running"
=============================================================================
