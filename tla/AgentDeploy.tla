----------------------------- MODULE AgentDeploy -----------------------------
(***************************************************************************)
(* The agent's deploy manager (agent/internal/deploy) for one project:     *)
(* what Manager.Handle, start and deploy do with the commands of the       *)
(* control plane, the release layout on disk, the scripts of the apps, the *)
(* flow and start-group waves, the processes that are started, cancel,     *)
(* timeout and the end of the agent process.                               *)
(*                                                                         *)
(* A command's work is a plan: the list of its stages, computed once by    *)
(* Plan from the start groups or from the flow.  Every script, process     *)
(* start, probe and system call that another run can see is a step.  Shell *)
(* scripts, git and the process managers are external: they succeed or     *)
(* fail.  Log lines are in DeployLog.  Releases are numbered by the order  *)
(* of their names, which is the order of Promote unless two runs promote   *)
(* different commits within the same second.                               *)
(***************************************************************************)
EXTENDS Integers, Sequences, FiniteSets, FiniteSetsExt, SequencesExt

CONSTANTS
  MaxRuns,         \* bound: start commands
  NApps,           \* the project's apps are 1..NApps, in the order of the command
  StartGroup,      \* per app: start_group, any integer
  ProcessManager,  \* per app: its process manager or the project's
  Scripts,         \* <<app, phase>> pairs with a script that is not empty
  Startable,       \* apps with a run script or another start command
  HasPort,         \* apps with a port to wait for
  Probed,          \* apps with a health check and a port to probe
  Commands,        \* the DeployCommands that may arrive
  Shas,            \* commits
  Keep,            \* keepReleases
  MaxFaults,       \* bound: early commands, cancels, timeouts, ends of the process
  None

Runs         == 1..MaxRuns              \* in the order in which they arrive
Apps         == 1..NApps
ScriptPhases == {"install", "build", "cleanup", "pre_start"}
Managers     == {"none", "pm2", "docker", "systemd"}

PreRelease  == {"install", "build", "cleanup"}
PostRelease == {"pre_start", "run", "start", "health"}

ASSUME DeployAssumption ==
  /\ MaxRuns \in Nat /\ NApps \in Nat
  /\ StartGroup \in [Apps -> Int]
  /\ ProcessManager \in [Apps -> Managers]
  /\ Scripts \subseteq Apps \X ScriptPhases
  /\ Startable \subseteq Apps /\ HasPort \subseteq Apps /\ Probed \subseteq Apps
  /\ \A c \in Commands : c.pin \in Shas \cup {None} /\ c.policy \in {"stop", "continue"}
  /\ Keep \in Nat \ {0}
  /\ MaxFaults \in Nat

-----------------------------------------------------------------------------
(***************************************************************************)
(* Plans.  A stage has a kind, the jobs it does and the wave it belongs    *)
(* to; 0 is the wave of the stages whose failure always ends the run.      *)
(***************************************************************************)
Stage(kind, jobs, wave) == [kind |-> kind, jobs |-> jobs, wave |-> wave]

\* A job of a stage: the app and its phase; 0 for the run as a whole.
Whole(phase) == {<<0, phase>>}
Of(apps, phase) == {<<a, phase>> : a \in apps}

Swap    == Stage("swap", Whole("swap"), 0)
Persist == Stage("persist", Whole("persist"), 0)
Prune   == Stage("prune", Whole("prune"), 0)

\* Apps without a script, and probes without a port, are skipped; a stage
\* that has nothing to do returns at once.
Stages(list) == SelectSeq(list, LAMBDA s : s.jobs # {})

\* Mutant: the last group first.
GroupAppsUnsorted ==
  LET gs == SetToSortSeq({Max({0, StartGroup[a]}) : a \in Apps}, >)
  IN  [i \in DOMAIN gs |-> {a \in Apps : Max({0, StartGroup[a]}) = gs[i]}]

\* Start groups in ascending order; a negative group counts as 0.
GroupAppsByStart ==
  LET Group(a) == Max({0, StartGroup[a]})
      gs == SetToSortSeq({Group(a) : a \in Apps}, <)
  IN  [i \in DOMAIN gs |-> {a \in Apps : Group(a) = gs[i]}]

\* An app is probed at its own check or the project's, if that has a path and
\* a port is known; the others are passed over.
CheckHealth(apps) == Of(apps \cap Probed, "health")

\* The apps of a wave that have a pre-start script.
PreStartApps(apps) == Of(apps, "pre_start") \cap Scripts

\* Every app's install script, its own or the project's; then the cleanups,
\* its own or the default of its language.
InstallApps == Of(Apps, "install") \cap Scripts
CleanupApps == Of(Apps, "cleanup") \cap Scripts

\* pre-start, start and health of each wave, then the boot persistence.
ActivateAppWaves ==
  FlattenSeq([i \in DOMAIN GroupAppsByStart |->
    LET w == GroupAppsByStart[i] IN
      << Stage("scripts", PreStartApps(w), i),
         Stage("start", Of(w, "start"), i),
         Stage("health", CheckHealth(w), i) >>]) \o <<Persist>>

\* One wave of an explicit flow: its scripts run together, then its run,
\* start and health tasks.  A task of no app or no phase fails the wave.
RunFlowWave(tasks, i) ==
  IF \E t \in tasks : t[1] \notin Apps \/ t[2] \notin PreRelease \cup PostRelease
  THEN << Stage("reject", Whole("reject"), i) >>
  ELSE LET Phase(p) == {t \in tasks : t[2] = p} IN
       << Stage("scripts", tasks \cap Scripts, i),
          Stage("run", Phase("run"), i),
          Stage("start", Phase("start"), i),
          Stage("health", CheckHealth({t[1] : t \in Phase("health")}), i) >>

\* The release is activated once, before the first wave that needs it, or at
\* the end.  A first such wave that also installs ends the run.
RunDeployFlow(flow) ==
  LET Post(i) == \E t \in flow[i] : t[2] \in PostRelease
      Pre(i)  == \E t \in flow[i] : t[2] \in PreRelease
      First(i) == Post(i) /\ \A j \in 1..(i - 1) : ~Post(j)
      Wave(i) ==
        CASE First(i) /\ Pre(i) -> << Stage("reject", Whole("reject"), 0) >>
          [] First(i) -> <<Swap>> \o RunFlowWave(flow[i], i)
          [] OTHER -> RunFlowWave(flow[i], i)
  IN  FlattenSeq([i \in DOMAIN flow |-> Wave(i)])
        \o (IF \E i \in DOMAIN flow : Post(i) THEN << >> ELSE <<Swap>>)
        \o <<Persist>>

\* The stages of a deploy once its release is on disk.
Plan(c) ==
  Stages((IF c.flow # << >> THEN RunDeployFlow(c.flow)
          ELSE << Stage("scripts", InstallApps, 0),
                  Stage("scripts", CleanupApps, 0),
                  Swap >> \o ActivateAppWaves) \o <<Prune>>)

\* A rollback to a release that is on disk: no clone, no install, no pruning.
RollbackPlan == Stages(<<Swap>> \o ActivateAppWaves)

\* What has to be built in the release before the plan is through.
Builds(plan) ==
  {j \in UNION {plan[i].jobs : i \in DOMAIN plan} : j[2] \in {"install", "build"}}

-----------------------------------------------------------------------------
VARIABLES
  overlap,    \* history: a command arrived before the last one had ended
  disk,       \* releases/ by name: commit, builds still to do, ok if its run
              \* succeeded, gone if it was deleted
  current,    \* the release that current links to, 0 without a link
  swapping,   \* the release that current.swapping links to, 0 without one
  checkout,   \* an in-place checkout of old: none, base, aside (.migrating), lost
  clones,     \* runs with a clone in the tmp directory
  cmd,        \* per run: its command
  run,        \* per run: the goroutine of start
  cancel,     \* per run: the call of cancelRun, and the processes it took
  procs,      \* per run: foreground processes that are tracked
  alive,      \* processes on the host
  report,     \* per run: the last lifecycle event
  faults      \* bound counter

fs   == <<disk, current, swapping, checkout, clones>>
vars == <<overlap, fs, cmd, run, cancel, procs, alive, report, faults>>

\* todo: jobs left of the plan's first stage; bad, werr: a job, a wave failed.
NewRun == [pc |-> "new", ctx |-> "live", plan |-> << >>, todo |-> {}, bad |-> FALSE,
           werr |-> FALSE, rel |-> 0, sha |-> None, done |-> {}, stale |-> {}]

Over       == {"new", "over", "dead"}
Registered(r) == run[r].pc \notin Over \cup {"sent"}
OnDisk     == {i \in DOMAIN disk : ~disk[i].gone}
Good       == {disk[i].sha : i \in {k \in DOMAIN disk : disk[k].ok}}
Process(a, r, rel, sup) == [app |-> a, run |-> r, rel |-> rel, sup |-> sup]

TypeOK ==
  /\ overlap \in BOOLEAN
  /\ \A i \in DOMAIN disk : /\ disk[i].sha \in Shas
                            /\ disk[i].todo \subseteq Scripts
                            /\ disk[i].ok \in BOOLEAN /\ disk[i].gone \in BOOLEAN
  /\ current \in 0..Len(disk)
  /\ swapping \in 0..Len(disk)
  /\ checkout \in {"none", "base", "aside", "lost"}
  /\ clones \subseteq Runs
  /\ cmd \in [Runs -> Commands \cup {None}]
  /\ \A r \in Runs :
       /\ run[r].pc \in {"new", "sent", "preflight", "migrate", "aside", "find", "clone",
                         "release", "stage", "symlink", "rename", "ready", "fail", "win",
                         "over", "dead"}
       /\ run[r].ctx \in {"live", "canceled", "expired"}
       /\ run[r].rel \in 0..Len(disk)
       /\ run[r].plan # << >> => run[r].todo \subseteq Head(run[r].plan).jobs
  /\ cancel \in [Runs -> [st : {"no", "taken", "over"}, procs : SUBSET Apps]]
  /\ procs \in [Runs -> SUBSET Apps]
  /\ alive \subseteq [app : Apps, run : Runs \cup {None}, rel : Nat, sup : BOOLEAN]
  /\ report \in [Runs -> {"none", "started", "succeeded", "failed"}]

\* A project never deployed, one from before releases existed, or one with a
\* release that is live and whose apps run from it.
Init ==
  /\ overlap = FALSE
  /\ \/ /\ disk = << >> /\ current = 0 /\ alive = {}
        /\ checkout \in {"none", "base"}
     \/ \E s \in Shas :
          /\ disk = << [sha |-> s, todo |-> {}, ok |-> TRUE, gone |-> FALSE] >>
          /\ current = 1 /\ checkout = "none"
          /\ alive = {Process(a, None, 1, ProcessManager[a] # "none") : a \in Startable}
  /\ swapping = 0
  /\ clones = {}
  /\ cmd = [r \in Runs |-> None]
  /\ run = [r \in Runs |-> NewRun]
  /\ cancel = [r \in Runs |-> [st |-> "no", procs |-> {}]]
  /\ procs = [r \in Runs |-> {}]
  /\ report = [r \in Runs |-> "none"]
  /\ faults = 0

-----------------------------------------------------------------------------
(***************************************************************************)
(* Commands: start, cancel; the deadline; the end of the process.          *)
(***************************************************************************)
Fault == faults < MaxFaults /\ faults' = faults + 1

\* A start command arrives and its goroutine is made.  The control plane pins
\* only commits that a run succeeded with.
Handle(r, c) ==
  /\ run[r].pc = "new" /\ \A q \in 1..(r - 1) : run[q].pc # "new"
  /\ IF \A q \in Runs : run[q].pc \in Over THEN UNCHANGED <<overlap, faults>>
     ELSE overlap' = TRUE /\ Fault
  /\ c.pin \in Good \cup {None}
  /\ cmd' = [cmd EXCEPT ![r] = c]
  /\ run' = [run EXCEPT ![r].pc = "sent"]
  /\ UNCHANGED <<fs, cancel, procs, alive, report>>

\* The goroutine registers the run and emits started.
Register(r) ==
  /\ run[r].pc = "sent"
  /\ run' = [run EXCEPT ![r].pc = "preflight"]
  /\ report' = [report EXCEPT ![r] = "started"]
  /\ UNCHANGED <<overlap, fs, cmd, cancel, procs, alive, faults>>

\* cancelRun takes the cancel function and the processes under the lock.  A
\* run that is not registered yet, or no longer, has neither.
CancelTake(r) ==
  /\ Fault
  /\ run[r].pc # "new"
  /\ cancel[r].st = "no"
  /\ cancel' = [cancel EXCEPT ![r] = IF Registered(r) THEN [st |-> "taken", procs |-> procs[r]]
                                     ELSE [st |-> "over", procs |-> {}]]
  /\ procs' = [procs EXCEPT ![r] = {}]
  /\ UNCHANGED <<overlap, fs, cmd, run, alive, report>>

\* Then it kills them and cancels the context.
CancelFire(r) ==
  /\ cancel[r].st = "taken"
  /\ cancel' = [cancel EXCEPT ![r].st = "over"]
  /\ alive' = {p \in alive : ~(p.run = r /\ ~p.sup /\ p.app \in cancel[r].procs)}
  /\ run' = [run EXCEPT ![r].ctx = IF @ = "live" /\ Registered(r) THEN "canceled" ELSE @]
  /\ UNCHANGED <<overlap, fs, cmd, procs, report, faults>>

\* The run's budget is spent.
Expire(r) ==
  /\ Fault
  /\ Registered(r)
  /\ run[r].ctx = "live"
  /\ run' = [run EXCEPT ![r].ctx = "expired"]
  /\ UNCHANGED <<overlap, fs, cmd, cancel, procs, alive, report>>

\* The agent shuts down: CloseAll cancels every context, and the process ends
\* without waiting.  Supervised processes go on; the agent's own children may.
Crash ==
  /\ Fault
  /\ run' = [r \in Runs |-> IF run[r].pc \in Over THEN run[r] ELSE [NewRun EXCEPT !.pc = "dead"]]
  /\ cancel' = [r \in Runs |-> IF cancel[r].st = "taken" THEN [cancel[r] EXCEPT !.st = "over"]
                               ELSE cancel[r]]
  /\ procs' = [r \in Runs |-> {}]
  /\ \/ UNCHANGED alive
     \/ alive' = {p \in alive : p.sup}
  /\ UNCHANGED <<overlap, fs, cmd, report>>

-----------------------------------------------------------------------------
(***************************************************************************)
(* From the command to the release.                                        *)
(***************************************************************************)
At(r, pc) == run[r].pc = pc

Go(r, pc) == run' = [run EXCEPT ![r].pc = pc]

\* Mutant: a failed preflight returns without the failure event.
PreflightSilent(r) ==
  /\ At(r, "preflight")
  /\ \/ Go(r, IF current = 0 /\ checkout = "base" THEN "migrate" ELSE "find")
     \/ Go(r, "over")
  /\ UNCHANGED <<overlap, fs, cmd, cancel, procs, alive, report, faults>>

\* Credentials, the clone path, disk space, git and the binaries of the scripts.
Preflight(r) ==
  /\ At(r, "preflight")
  /\ \/ Go(r, IF current = 0 /\ checkout = "base" THEN "migrate" ELSE "find")
     \/ Go(r, "fail")
  /\ UNCHANGED <<overlap, fs, cmd, cancel, procs, alive, report, faults>>

\* Mutant: the rename and the clearing of .migrating in the wrong order.
MigrateAsideSwapped(r) ==
  /\ At(r, "migrate")
  /\ checkout' = "lost"
  /\ Go(r, "aside")
  /\ UNCHANGED <<overlap, disk, current, swapping, clones, cmd, cancel, procs, alive, report,
                 faults>>

\* Migrate deletes what an earlier migration left and moves the checkout aside.
MigrateAside(r) ==
  /\ At(r, "migrate")
  /\ checkout' = CASE checkout = "base"  -> "aside"
                   [] checkout = "aside" -> "lost"
                   [] OTHER -> checkout
  /\ Go(r, IF checkout = "base" THEN "aside" ELSE "fail")
  /\ UNCHANGED <<overlap, disk, current, swapping, clones, cmd, cancel, procs, alive, report,
                 faults>>

NewRelease(sha, todo, ok) == [sha |-> sha, todo |-> todo, ok |-> ok, gone |-> FALSE]

\* Then it makes it the first release and links current to it.
MigrateIn(r) ==
  /\ At(r, "aside")
  /\ IF checkout = "aside"
     THEN /\ \E s \in Shas : disk' = Append(disk, NewRelease(s, {}, FALSE))
          /\ current' = Len(disk')
          /\ checkout' = "none"
          /\ Go(r, "find")
     ELSE /\ Go(r, "fail")
          /\ UNCHANGED <<disk, current, checkout>>
  /\ UNCHANGED <<overlap, swapping, clones, cmd, cancel, procs, alive, report, faults>>

\* The first stage of plan p is next; a plan that is empty is done.
Load(u, p) ==
  [u EXCEPT !.plan = p,
            !.todo = IF p = << >> THEN {} ELSE Head(p).jobs,
            !.bad  = FALSE,
            !.pc   = IF p = << >> THEN "win" ELSE "stage"]

FindRelease(sha) ==
  LET hits == {i \in OnDisk : disk[i].sha = sha} IN IF hits = {} THEN 0 ELSE Max(hits)

\* A pinned commit whose release is on disk needs no clone.
Find(r) ==
  /\ At(r, "find")
  /\ LET hit == IF cmd[r].pin = None THEN 0 ELSE FindRelease(cmd[r].pin)
     IN  run' = [run EXCEPT ![r] = IF hit # 0 THEN Load([@ EXCEPT !.rel = hit], RollbackPlan)
                                   ELSE [@ EXCEPT !.pc = "clone"]]
  /\ UNCHANGED <<overlap, fs, cmd, cancel, procs, alive, report, faults>>

\* git clone of the branch, then fetch and checkout of the pin if there is one:
\* the commits it may leave in the directory.
CloneInto(r) ==
  {s \in Shas : run[r].ctx = "live" /\ cmd[r].pin \in {None, s}}

\* The clone goes into the run's own tmp directory; a failure removes it.
Clone(r) ==
  /\ At(r, "clone")
  /\ \/ /\ \E s \in CloneInto(r) :
             run' = [run EXCEPT ![r].pc = "release", ![r].sha = s]
        /\ clones' = clones \cup {r}
     \/ /\ Go(r, "fail")
        /\ clones' = clones \ {r}
  /\ UNCHANGED <<overlap, disk, current, swapping, checkout, cmd, cancel, procs, alive, report,
                 faults>>

\* The apps' roots are copied into a new release, which gets its name, its
\* commit and its .env files.  A copy that fails leaves no release; a .env
\* that cannot be written leaves one that nothing was built in.
MaterializeRelease(r) ==
  LET p == Plan(cmd[r])
      release == NewRelease(run[r].sha, Builds(p), FALSE)
  IN  /\ At(r, "release")
      /\ \/ /\ disk' = Append(disk, release)
            /\ run' = [run EXCEPT ![r] = Load([@ EXCEPT !.rel = Len(disk) + 1], p)]
         \/ disk' \in {disk, Append(disk, release)} /\ Go(r, "fail")
      /\ UNCHANGED <<overlap, current, swapping, checkout, clones, cmd, cancel, procs, alive,
                     report, faults>>

-----------------------------------------------------------------------------
(***************************************************************************)
(* Stages.                                                                 *)
(***************************************************************************)
In(r, kinds) == At(r, "stage") /\ Head(run[r].plan).kind \in kinds

\* Mutant: errors are not collected.
EndJobKeepsWave(r, u, j, ok) ==
  LET v == [u EXCEPT !.todo = @ \ {j}, !.bad = @ \/ ~ok,
                     !.done = IF ok THEN @ \cup {j} ELSE @, !.pc = "stage"]
  IN  IF v.todo # {} THEN v ELSE Load(v, Tail(v.plan))

\* Job j of the stage is over.  The stage ends with its last job.  If one of
\* its jobs failed, the run fails, or goes on with the next wave and fails at
\* the end.
EndJob(r, u, j, ok) ==
  LET v == [u EXCEPT !.todo = @ \ {j}, !.bad = @ \/ ~ok,
                     !.done = IF ok THEN @ \cup {j} ELSE @, !.pc = "stage"]
      w == Head(v.plan).wave
  IN  CASE v.todo # {} -> v
        [] v.todo = {} /\ ~v.bad -> Load(v, Tail(v.plan))
        [] v.todo = {} /\ v.bad /\ (w = 0 \/ cmd[r].policy = "stop") -> [v EXCEPT !.pc = "fail"]
        [] OTHER -> Load([v EXCEPT !.werr = TRUE], SelectSeq(Tail(v.plan), LAMBDA s : s.wave # w))

\* Jobs that do not run together are taken in the order of the apps.
First(r) == CHOOSE j \in run[r].todo : \A k \in run[r].todo : j[1] <= k[1]

Released(r) == \A i \in DOMAIN run[r].plan : run[r].plan[i].kind # "swap"

\* A script runs under the context: killed with it, it failed.
RunScript(r, ok) == run[r].ctx # "live" => ~ok

\* The scripts of a stage run at the same time, in the release or, once it is
\* activated, in what current links to.  A dead context fails them.
RunAppScripts(r, j, ok) ==
  LET dir == IF Released(r) THEN current ELSE run[r].rel
  IN  /\ In(r, {"scripts"})
      /\ j \in run[r].todo
      /\ RunScript(r, ok)
      /\ run' = [run EXCEPT ![r] = EndJob(r, @, j, ok)]
      /\ disk' = IF ok THEN [disk EXCEPT ![dir].todo = @ \ {j}] ELSE disk
      /\ UNCHANGED <<overlap, current, swapping, checkout, clones, cmd, cancel, procs, alive,
                     report, faults>>

\* A flow that names no app or no phase, or mixes install with start.
Reject(r) ==
  /\ In(r, {"reject"})
  /\ run' = [run EXCEPT ![r] = EndJob(r, @, First(r), FALSE)]
  /\ UNCHANGED <<overlap, fs, cmd, cancel, procs, alive, report, faults>>

\* Swap in three system calls on one path next to the link.
SwapRemove(r) ==
  /\ In(r, {"swap"})
  /\ swapping' = 0
  /\ Go(r, "symlink")
  /\ UNCHANGED <<overlap, disk, current, checkout, clones, cmd, cancel, procs, alive, report,
                 faults>>

SwapSymlink(r) ==
  /\ At(r, "symlink")
  /\ IF swapping = 0 THEN swapping' = run[r].rel /\ Go(r, "rename")
     ELSE UNCHANGED swapping /\ Go(r, "fail")
  /\ UNCHANGED <<overlap, disk, current, checkout, clones, cmd, cancel, procs, alive, report,
                 faults>>

SwapRename(r) ==
  /\ At(r, "rename")
  /\ run' = [run EXCEPT ![r] = EndJob(r, @, First(r), swapping # 0)]
  /\ current' = IF swapping # 0 THEN swapping ELSE current
  /\ swapping' = 0
  /\ UNCHANGED <<overlap, disk, checkout, clones, cmd, cancel, procs, alive, report, faults>>

\* What starting app a may come to: whether it went well, the processes on
\* the host afterwards, and whether pm2 kept a process it should delete.
Out(ok, ps, kept) == [ok |-> ok, alive |-> ps, kept |-> kept]

Others(a)       == {p \in alive : ~(p.app = a /\ p.sup)}
Restarted(r, a) == Others(a) \cup {Process(a, r, current, TRUE)}

\* A command of the start failed, or the context died under it.
StartFails(r, a) == {Out(FALSE, ps, FALSE) : ps \in {alive, Others(a), Restarted(r, a)}}

\* Mutant: a process that is online is left alone.
StartPM2IfDown(r, a) ==
  IF alive # Others(a) THEN {Out(TRUE, alive, FALSE)}
  ELSE {Out(FALSE, alive, FALSE), Out(TRUE, Restarted(r, a), FALSE)}

\* pm2: a process that is online is deleted, then started again in current/
\* and waited for.  If the delete fails, the old process may answer.  Without
\* a start command the old process is deleted and that is all.
StartPM2(r, a) ==
  CASE a \notin Startable -> {Out(TRUE, Others(a), FALSE)}
    [] run[r].ctx # "live" -> StartFails(r, a)
    [] OTHER -> StartFails(r, a) \cup {Out(TRUE, Restarted(r, a), FALSE)}
                  \cup {Out(TRUE, alive, TRUE) : p \in alive \ Others(a)}

\* docker compose up -d may leave a container as it is.
StartDocker(r, a) ==
  CASE a \notin Startable -> {Out(TRUE, alive, FALSE)}
    [] run[r].ctx # "live" -> StartFails(r, a)
    [] OTHER -> StartFails(r, a) \cup {Out(TRUE, Restarted(r, a), FALSE)}
                  \cup {Out(TRUE, alive, FALSE) : p \in alive \ Others(a)}

\* systemd: the unit is written, enabled and restarted.
StartSystemd(r, a) ==
  CASE a \notin Startable -> {Out(TRUE, alive, FALSE)}
    [] run[r].ctx # "live" -> StartFails(r, a)
    [] OTHER -> StartFails(r, a) \cup {Out(TRUE, Restarted(r, a), FALSE)}

StartProcess(r, a) ==
  CASE ProcessManager[a] = "pm2" -> StartPM2(r, a)
    [] ProcessManager[a] = "docker" -> StartDocker(r, a)
    [] ProcessManager[a] = "systemd" -> StartSystemd(r, a)
    [] OTHER -> {Out(TRUE, alive, FALSE)}

Supervised(a) == ProcessManager[a] # "none"

\* The run notes that pm2 kept an old process.
Noted(u, a, o) == IF o.kept THEN [u EXCEPT !.stale = @ \cup {a}] ELSE u

\* startApps and runApps hand an app to its process manager.  An app that the
\* run step started is not started again.
StartApp(r) ==
  LET j == First(r)  a == j[1] IN
  /\ In(r, {"start", "run"})
  /\ Supervised(a) \/ a \notin Startable \/ (j[2] = "start" /\ <<a, "run">> \in run[r].done)
  /\ IF j[2] = "start" /\ <<a, "run">> \in run[r].done
     THEN /\ run' = [run EXCEPT ![r] = EndJob(r, @, j, TRUE)]
          /\ UNCHANGED alive
     ELSE \E o \in StartProcess(r, a) :
            /\ alive' = o.alive
            /\ run' = [run EXCEPT ![r] = EndJob(r, Noted(@, a, o), j, o.ok)]
  /\ UNCHANGED <<overlap, fs, cmd, cancel, procs, report, faults>>

\* Without a process manager the run script itself is started and tracked.
RunDirect(r) ==
  LET j == First(r)  a == j[1] IN
  /\ In(r, {"start", "run"})
  /\ ~Supervised(a) /\ a \in Startable
  /\ ~(j[2] = "start" /\ <<a, "run">> \in run[r].done)
  /\ alive' = alive \cup {Process(a, r, current, FALSE)}
  /\ procs' = [procs EXCEPT ![r] = @ \cup {a}]
  /\ Go(r, "ready")
  /\ UNCHANGED <<overlap, fs, cmd, cancel, report, faults>>

\* Then the run waits until the port answers, or for two seconds without one.
\* The port may be answered by the process of an earlier deploy, which
\* nothing stopped; the new process may have exited by then.
WaitReadyExit(r) ==
  LET j == First(r)  a == j[1]
      mine  == {p \in alive : p.run = r /\ p.app = a /\ ~p.sup}
      older == {p \in alive \ mine : p.app = a /\ ~p.sup}
  IN  /\ At(r, "ready")
      /\ \/ /\ a \in HasPort \/ run[r].ctx = "live"
            /\ mine # {}
            /\ run' = [run EXCEPT ![r] = EndJob(r, @, j, TRUE)]
            /\ UNCHANGED alive
         \/ /\ a \in HasPort /\ older # {}
            /\ run' = [run EXCEPT ![r] = EndJob(r, @, j, TRUE)]
            /\ alive' = alive \ mine
         \/ /\ run' = [run EXCEPT ![r] = EndJob(r, @, j, FALSE)]
            /\ alive' = alive \ mine
      /\ UNCHANGED <<overlap, fs, cmd, cancel, procs, report, faults>>

\* The probe of one app; a dead context ends it.
WaitHealthy(r, ok) ==
  /\ In(r, {"health"})
  /\ run[r].ctx # "live" => ~ok
  /\ run' = [run EXCEPT ![r] = EndJob(r, @, First(r), ok)]
  /\ UNCHANGED <<overlap, fs, cmd, cancel, procs, alive, report, faults>>

\* Mutant: the errors of failed waves are dropped.
PersistForgets(r, ok) ==
  /\ In(r, {"persist"})
  /\ run' = [run EXCEPT ![r] = EndJob(r, @, First(r), ok)]
  /\ UNCHANGED <<overlap, fs, cmd, cancel, procs, alive, report, faults>>

\* Of the managers in use only pm2 has something that can fail: pm2 save.
PersistMayFail == \E a \in Apps : ProcessManager[a] = "pm2"

\* Boot persistence, once per process manager.  A wave that failed earlier does.
PersistProcessManagers(r, ok) ==
  /\ In(r, {"persist"})
  /\ ok => (run[r].ctx = "live" \/ ~PersistMayFail)
  /\ ~ok => PersistMayFail
  /\ run' = [run EXCEPT ![r] = EndJob(r, @, First(r), ok /\ ~run[r].werr)]
  /\ UNCHANGED <<overlap, fs, cmd, cancel, procs, alive, report, faults>>

\* All but the newest releases are deleted, never the live one.
Pruned == {i \in OnDisk : Cardinality({k \in OnDisk : k >= i}) > Keep /\ i # current}

PruneReleases(r) ==
  /\ In(r, {"prune"})
  /\ disk' = [i \in DOMAIN disk |-> IF i \in Pruned THEN [disk[i] EXCEPT !.gone = TRUE] ELSE disk[i]]
  /\ run' = [run EXCEPT ![r] = EndJob(r, @, First(r), TRUE)]
  /\ UNCHANGED <<overlap, current, swapping, checkout, clones, cmd, cancel, procs, alive, report,
                 faults>>

\* The tmp clone is removed, the outcome emitted and the run unregistered.
Finish(r) ==
  /\ run[r].pc \in {"win", "fail"}
  /\ report' = [report EXCEPT ![r] = IF run[r].pc = "win" THEN "succeeded" ELSE "failed"]
  /\ disk' = IF run[r].pc = "win" THEN [disk EXCEPT ![run[r].rel].ok = TRUE] ELSE disk
  /\ clones' = clones \ {r}
  /\ procs' = [procs EXCEPT ![r] = {}]
  /\ run' = [run EXCEPT ![r] = [NewRun EXCEPT !.pc = "over", !.ctx = run[r].ctx,
                                 !.done = IF run[r].pc = "win" THEN run[r].done ELSE {}]]
  /\ UNCHANGED <<overlap, current, swapping, checkout, cmd, cancel, alive, faults>>

-----------------------------------------------------------------------------
Work(r) ==
  \/ Register(r) \/ Preflight(r) \/ MigrateAside(r) \/ MigrateIn(r) \/ Find(r) \/ Clone(r)
  \/ MaterializeRelease(r)
  \/ \E j \in run[r].todo, ok \in BOOLEAN : RunAppScripts(r, j, ok)
  \/ Reject(r) \/ SwapRemove(r) \/ SwapSymlink(r) \/ SwapRename(r)
  \/ StartApp(r) \/ RunDirect(r) \/ WaitReadyExit(r)
  \/ \E ok \in BOOLEAN : WaitHealthy(r, ok) \/ PersistProcessManagers(r, ok)
  \/ PruneReleases(r) \/ Finish(r)

Next ==
  \/ \E r \in Runs : \/ \E c \in Commands : Handle(r, c)
                     \/ CancelTake(r) \/ CancelFire(r) \/ Expire(r)
                     \/ Work(r)
  \/ Crash

Spec == Init /\ [][Next]_vars

\* Everything a run waits for ends: scripts, commands and probes with the
\* context's deadline, the other waits with a budget of their own.
FairSpec == Spec /\ \A r \in Runs : WF_vars(Work(r))

-----------------------------------------------------------------------------
(***************************************************************************)
(* Properties.                                                             *)
(***************************************************************************)
\* What the agent reports is what AgentReport promises: start emits started,
\* then exactly one outcome, and an outcome always comes unless the process
\* ends; errors, cancel, timeout and failing waves included.
Contract == INSTANCE AgentReport
              WITH Deploys <- Runs, lost <- {r \in Runs : run[r].pc = "dead"}
Implements == Contract!FairSpec

\* While one deploy runs at a time a checkout that Migrate moves is not lost,
\* wherever a run fails or the process ends between the two renames.
CheckoutKept == ~overlap => checkout # "lost"

\* The tree that serves is there.  While one deploy runs at a time, whatever
\* fails or crashes, the release that current links to is never deleted by
\* Prune, and a checkout that Migrate moved is not lost.
LiveTreeKept ==
  /\ ~overlap => (current # 0 => ~disk[current].gone)
  /\ CheckoutKept

\* "A deploy is atomic" (release.go): while deploys without a flow run one at
\* a time, and none is a rollback, current never links to a release whose
\* install did not succeed for every app.
Plain(r) == cmd[r] # None => cmd[r].flow = << >> /\ cmd[r].pin = None

LiveTreeBuilt ==
  ~overlap /\ (\A r \in Runs : Plain(r)) => (current # 0 => disk[current].todo = {})

\* Waves wait for each other.  Under the stop policy nothing of a later start
\* group (or of a later wave of the flow) has been done unless everything of
\* the earlier ones went well, health checks included.
Doable == Scripts \cup Of(Apps, "run") \cup Of(Apps, "start") \cup Of(Probed, "health")

WavesInOrder ==
  \A r \in Runs : cmd[r] # None /\ cmd[r].policy = "stop" =>
    IF cmd[r].flow = << >>
    THEN \A a, b \in Apps :
           /\ Max({0, StartGroup[a]}) < Max({0, StartGroup[b]})
           /\ run[r].done \cap Of({b}, "start") # {}
           => (Of({a}, "start") \cup Of({a} \cap Probed, "health")) \subseteq run[r].done
    ELSE \A i, j \in DOMAIN cmd[r].flow :
           i < j /\ cmd[r].flow[j] \cap run[r].done # {}
           => (cmd[r].flow[i] \cap Doable) \subseteq run[r].done

\* Success is about the new release.  When a run reports succeeded, each app
\* it started under pm2 or systemd runs once, from the release that the run
\* activated, not from the one of an earlier deploy (unless pm2 failed to
\* delete the old process).  While one deploy runs at a time.
SuccessRunsNew ==
  [][\A r \in Runs : ~overlap /\ report[r] = "started" /\ report'[r] = "succeeded" =>
       \A a \in Startable \ run[r].stale :
         /\ ProcessManager[a] \in {"pm2", "systemd"}
         /\ run[r].done \cap {<<a, "start">>, <<a, "run">>} # {}
         => {p \in alive : p.app = a /\ p.sup} = {Process(a, r, run[r].rel, TRUE)}]_vars

\* A wave that failed under the continue policy fails the run in the end: a
\* run that succeeded did every job of its plan.
SuccessDidAll ==
  \A r \in Runs : report[r] = "succeeded" /\ cmd[r].flow # << >> =>
    \A i \in DOMAIN cmd[r].flow : (cmd[r].flow[i] \cap Doable) \subseteq run[r].done
=============================================================================
