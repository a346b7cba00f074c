---------------------------- MODULE HostProcesses ----------------------------
(***************************************************************************)
(* The processes that deploys leave on a host (agent/internal/deploy       *)
(* process.go, runapp.go, ecosystem.go, procname.go, dotenv.go): how the   *)
(* agent names an app's process, finds and removes the one of the release  *)
(* before, starts the new one with the variables of the .env files, and    *)
(* decides that it runs.  Projects share the host's process managers and   *)
(* deploy at the same time; the runs of one project follow each other      *)
(* (AgentDeploy is about those that do not).                               *)
(*                                                                         *)
(* A name is the sequence of its segments: shop-web is <<"shop", "web">>.  *)
(* pm2 and systemd are external.  pm2 restarts a process that it has under *)
(* the name it is given where that process was, or refuses; the process    *)
(* before a deploy is only deleted because of that.                        *)
(***************************************************************************)
EXTENDS Integers, Sequences, FiniteSets, SequencesExt, TLC

CONSTANTS
  Projects,    \* their names, one segment each
  AppsOf,      \* per project: its apps, [name, base, pm], in the order of the command
  Ecosystem,   \* per project: apps[] of the ecosystem file in its repository, [name, base]
  Commands,    \* the deploy commands that may arrive
  MaxDeploys,  \* bound: commands of all projects
  MaxFaults    \* bound: processes that exit, pm2 commands that fail

VARIABLES
  rel,     \* per project: the release `current` points to, 0 before the first
  tree,    \* per project: per release, its .env and its ecosystem file
  base,    \* per project: the .env of the project's base directory
  procs,   \* what the process managers have
  th,      \* per project: the deploy that is starting apps
  done,    \* per project: how its last deploy ended
  deploys, faults,
  odd,     \* history: apps that lost, or share, or could not replace a process
  robbed   \* history: projects of which another project's deploy took a process

vars == <<rel, tree, base, procs, th, done, deploys, faults, odd, robbed>>

Owners == UNION {{p} \X DOMAIN AppsOf[p] : p \in Projects}

Idle == [pc |-> "idle"]

Init ==
  /\ rel = [p \in Projects |-> 0]
  /\ tree = [p \in Projects |-> << >>]
  /\ base = [p \in Projects |-> << >>]
  /\ procs = {}
  /\ th = [p \in Projects |-> Idle]
  /\ done = [p \in Projects |-> "none"]
  /\ deploys = 0 /\ faults = 0
  /\ odd = {} /\ robbed = {}

-----------------------------------------------------------------------------
(***************************************************************************)
(* Names and directories.                                                  *)
(***************************************************************************)
Multi(p) == Len(AppsOf[p]) > 1

\* appWorkDir: the last element of the work directory.  A release of one app is
\* flat: its directory is the release's, whose name no process has.
AppBase(o) == IF Multi(o[1]) THEN AppsOf[o[1]][o[2]].base ELSE << >>

\* The directory that current/... resolves to.
Work(o) == [project |-> o[1], rel |-> rel[o[1]], base |-> AppBase(o)]

\* pm_cwd is the release's directory, or goes through `current` and moves with it.
Cwd(q) == [Work(q.owner) EXCEPT !.rel = IF q.via = "current" THEN @ ELSE q.rel]

\* HasSuffix(s, "-" + t)
EndsIn(s, t) == t # << >> /\ Len(t) < Len(s) /\ IsSuffix(t, s)

QualifyProcessName(p, a) ==
  IF a = p THEN p
  ELSE IF Len(p) < Len(a) /\ IsPrefix(p, a) THEN a ELSE p \o a

\* Mutant: only equal names match.
PM2NameEqual(got, want, b) == got = want

\* got is a process of this name, or of the app's directory.
PM2NameMatch(got, want, b) ==
  got = want \/ got = b \/ EndsIn(got, b) \/ EndsIn(want, got)

EcosystemNamesForWork(o) ==
  LET file == tree[o[1]][rel[o[1]]].eco
      mine == SelectSeq(file, LAMBDA e : ~Multi(o[1]) \/ e.base = AppBase(o))
      list == IF mine = << >> /\ Len(file) = 1 THEN file ELSE mine
  IN  [k \in DOMAIN list |-> list[k].name]

PreferEcosystemName(want, o) ==
  LET names == EcosystemNamesForWork(o)
      hits  == SelectSeq(names, LAMBDA n : n = want \/ PM2NameMatch(n, want, AppBase(o)))
  IN  IF names = << >> THEN want
      ELSE IF want = << >> \/ hits = << >> THEN names[1] ELSE hits[1]

\* The configured name, else the ecosystem file's, else project-app.
ResolveHostProcessName(o, processName) ==
  IF processName # << >> THEN processName
  ELSE IF EcosystemNamesForWork(o) # << >> THEN PreferEcosystemName(<< >>, o)
  ELSE QualifyProcessName(<<o[1]>>, AppsOf[o[1]][o[2]].name)

\* apps[].name of the app in this directory becomes the name that will be started.
SyncEcosystemProcessName(o, name) ==
  LET file == tree[o[1]][rel[o[1]]].eco
      old  == PreferEcosystemName(name, o)
      at   == {k \in DOMAIN file : file[k].name = old}
  IN  IF old = name \/ at = {} THEN file
      ELSE [file EXCEPT ![CHOOSE k \in at : \A l \in at : k <= l].name = name]

-----------------------------------------------------------------------------
(***************************************************************************)
(* Variables.  env is a function from keys to ports: the keys are those    *)
(* from which an app takes the port it listens on.                         *)
(***************************************************************************)
\* f, and what g has besides.
Under(f, g) == [k \in DOMAIN f \cup DOMAIN g |-> IF k \in DOMAIN f THEN f[k] ELSE g[k]]

\* Mutant: the aliases keep the port of the file.
ApplyPortOnly(env, port) == IF port = 0 THEN env ELSE Under("PORT" :> port, env)

\* The port is PORT, and the aliases if the app is alone with them.
ApplyListenPort(env, port) ==
  LET set == Under("PORT" :> port, env) IN
  IF port = 0 THEN env
  ELSE IF {"FRONTEND_PORT", "BACKEND_PORT"} \cap DOMAIN env # {} THEN set
  ELSE [k \in DOMAIN set |-> port]

\* Mutant: a file that exists is left as it is.
WriteDotEnvOnce(old, env) == IF old = << >> THEN env ELSE old

\* A file is only written when there is something to write.
WriteDotEnvFile(old, env) == IF env = << >> THEN old ELSE env

\* The command's variables first, then those of the files from the work
\* directory upwards: the release's, then the base directory's.
MergeDotEnvAround(p, env) == Under(Under(env, tree[p][rel[p]].env), base[p])

PortFrom(port, env) ==
  IF port > 0 THEN port ELSE IF "PORT" \in DOMAIN env THEN env["PORT"] ELSE 0

\* Where an app that prefers its own key to PORT listens; 0 if it has no port.
Listens(env) ==
  IF "PROXY_PORT" \in DOMAIN env THEN env["PROXY_PORT"]
  ELSE IF "PORT" \in DOMAIN env THEN env["PORT"] ELSE 0

-----------------------------------------------------------------------------
(***************************************************************************)
(* A deploy.                                                               *)
(***************************************************************************)
At(p, pc) == th[p].pc = pc
Me(p)     == <<p, th[p].app>>
Go(p, pc) == th' = [th EXCEPT ![p].pc = pc]
PM(o)     == AppsOf[o[1]][o[2]].pm

Fault == faults < MaxFaults /\ faults' = faults + 1

\* A deploy makes a release, writes the .env files and moves `current`; a rollback
\* only moves it.  What the run does besides is in AgentDeploy.
Activate(c) ==
  LET p == c.project
      new == [env |-> WriteDotEnvFile(<< >>, c.env), eco |-> Ecosystem[p]] IN
  /\ At(p, "idle") /\ deploys < MaxDeploys /\ deploys' = deploys + 1
  /\ IF c.kind = "new"
       THEN /\ tree' = [tree EXCEPT ![p] = Append(@, new)]
            /\ rel' = [rel EXCEPT ![p] = Len(tree'[p])]
            /\ base' = [base EXCEPT ![p] = WriteDotEnvFile(@, c.env)]
       ELSE /\ rel[p] > 1
            /\ rel' = [rel EXCEPT ![p] = @ - 1]
            /\ UNCHANGED <<tree, base>>
  /\ th' = [th EXCEPT ![p] = [pc |-> "app", cmd |-> c, app |-> 1, name |-> << >>,
                              real |-> << >>, env |-> << >>, port |-> 0, bad |-> FALSE]]
  /\ done' = [done EXCEPT ![p] = "none"]
  /\ UNCHANGED <<procs, faults, odd, robbed>>

\* The app is over, well or not: the next one, or the end of the run phase.
EndApp(p, ok) ==
  LET bad == th[p].bad \/ ~ok IN
  IF th[p].app < Len(AppsOf[p])
    THEN /\ th' = [th EXCEPT ![p] = [@ EXCEPT !.app = @ + 1, !.bad = bad, !.pc = "app"]]
         /\ UNCHANGED done
    ELSE /\ th' = [th EXCEPT ![p] = Idle]
         /\ done' = [done EXCEPT ![p] = IF bad THEN "failed" ELSE "ok"]

\* startProcess up to the process manager: the name, the variables and the port.
Prepare(p) ==
  LET o == Me(p)
      c == th[p].cmd
      name == ResolveHostProcessName(o, c.names[o[2]])
      env  == MergeDotEnvAround(p, ApplyListenPort(c.env, c.port[o[2]]))
      port == PortFrom(c.port[o[2]], env) IN
  /\ At(p, "app")
  /\ th' = [th EXCEPT ![p].name = name, ![p].env = ApplyListenPort(env, port),
                      ![p].port = port, ![p].pc = IF PM(o) = "pm2" THEN "list" ELSE "unit"]
  /\ IF PM(o) = "pm2"
       THEN tree' = [tree EXCEPT ![p][rel[p]].eco = SyncEcosystemProcessName(o, name)]
       ELSE UNCHANGED tree
  \* The process before has a name that this one does not lead to.
  /\ odd' = IF \E q \in procs :
                 /\ q.owner = o /\ q.name # name
                 /\ PM(o) = "pm2" => ~EndsIn(q.name, AppBase(o))
            THEN odd \cup {o} ELSE odd
  /\ UNCHANGED <<rel, base, procs, done, deploys, faults, robbed>>

\* What the agent looks for: the name, and the ecosystem file's for this directory.
Wants(p) == {th[p].name} \cup ToSet(EcosystemNamesForWork(Me(p)))

PM2 == {q \in procs : q.sup = "pm2"}

PreferOnline(hits) ==
  LET up == {q \in hits : q.status = "online"} IN IF up # {} THEN up ELSE hits

\* pickPM2: by name before by directory.  It takes the first that pm2 lists, which
\* may be any of these.
PickPM2(p) ==
  LET o == Me(p)
      byName == {q \in PM2 : \E w \in Wants(p) : PM2NameMatch(q.name, w, AppBase(o))}
      byCwd  == {q \in PM2 : Cwd(q) = Work(o)}
  IN  PreferOnline(IF byName # {} THEN byName ELSE byCwd)

\* pm2 pid <name>, for the names themselves.
PM2PidOnline(p) == {q \in PM2 : q.name \in Wants(p) /\ q.status = "online"}

\* Mutant: a process that is there already is left to run.
PM2SkipOnline(p) ==
  /\ At(p, "list")
  /\ th' = [th EXCEPT ![p].pc = IF PickPM2(p) = {} THEN "start" ELSE "online"]
  /\ UNCHANGED <<rel, tree, base, procs, done, deploys, faults, odd, robbed>>

\* pm2AlreadyOnline: `pm2 jlist`, and `pm2 pid` when that shows nothing online.
PM2AlreadyOnline(p) ==
  /\ At(p, "list")
  /\ \/ /\ \E q \in PickPM2(p) :
              IF q.status = "online"
                THEN /\ th' = [th EXCEPT ![p].real = q.name, ![p].pc = "delete"]
                     /\ UNCHANGED odd
                \* It is there and not online: it is not deleted.
                ELSE Go(p, "start") /\ odd' = odd \cup {Me(p)}
        /\ UNCHANGED faults
     \/ PickPM2(p) = {} /\ Go(p, "start") /\ UNCHANGED <<odd, faults>>
     \* jlist hangs or fails.
     \/ /\ Fault
        /\ \/ \E q \in PM2PidOnline(p) :
                th' = [th EXCEPT ![p].real = q.name, ![p].pc = "delete"]
           \/ Go(p, "start")
        /\ odd' = odd \cup {Me(p)}
  /\ UNCHANGED <<rel, tree, base, procs, done, deploys, robbed>>

\* `pm2 delete real`; the start follows also when it fails.
PM2Delete(p) ==
  LET gone   == {q \in PM2 : q.name = th[p].real}
      others == {q.owner : q \in gone} \ {Me(p)} IN
  /\ At(p, "delete")
  /\ Go(p, "start")
  /\ \/ /\ procs' = procs \ gone
        /\ odd' = IF others = {} THEN odd ELSE odd \cup others \cup {Me(p)}
        /\ robbed' = robbed \cup ({o[1] : o \in others} \ {p})
        /\ UNCHANGED faults
     \/ Fault /\ odd' = odd \cup {Me(p)} /\ UNCHANGED <<procs, robbed>>
  /\ UNCHANGED <<rel, tree, base, done, deploys>>

\* A process of the app as it is now; one that crashes at once is restarted
\* for a while, and one that does not get its port crashes.
Process(p, via, status) ==
  [name |-> th[p].name, sup |-> PM(Me(p)), owner |-> Me(p), rel |-> rel[p], via |-> via,
   status |-> status, env |-> th[p].env,
   serves |-> /\ status = "online"
              /\ \A q \in procs : q.serves => Listens(q.env) # Listens(th[p].env)]

\* No process of the app but the new one.
Clean(p) == \A q \in procs : q.owner # Me(p)

\* pm2 start, of the ecosystem file with --only or of the run script with --name.
PM2Start(p) ==
  LET same == {q \in PM2 : q.name = th[p].name} IN
  /\ At(p, "start")
  /\ \/ /\ same = {}
        /\ \E via \in {"release", "current"}, status \in {"online", "errored"} :
             procs' = procs \cup {Process(p, via, status)}
        /\ Go(p, "online")
        /\ odd' = IF Clean(p) THEN odd \ {Me(p)} ELSE odd
        /\ UNCHANGED done
     \/ \E q \in same :
          /\ odd' = IF q.owner = Me(p) THEN odd ELSE odd \cup {Me(p), q.owner}
          \* The process that has the name is restarted where it is, or pm2 refuses.
          /\ \/ /\ procs' = (procs \ {q}) \cup {[q EXCEPT !.status = "online"]}
                /\ Go(p, "online") /\ UNCHANGED done
             \/ EndApp(p, FALSE) /\ UNCHANGED procs
  /\ UNCHANGED <<rel, tree, base, deploys, faults, robbed>>

\* waitPM2Online: the process that is picked is online, or not, or none is found
\* until the time is over.
WaitPM2Online(p) ==
  /\ At(p, "online")
  /\ \/ \E q \in PickPM2(p) :
          IF q.status = "online"
            THEN /\ Go(p, "port") /\ UNCHANGED done
                 /\ odd' = IF q.owner = Me(p) THEN odd ELSE odd \cup {Me(p)}
            ELSE EndApp(p, FALSE) /\ UNCHANGED odd
     \/ PickPM2(p) = {} /\ EndApp(p, FALSE) /\ UNCHANGED odd
  /\ UNCHANGED <<rel, tree, base, procs, deploys, faults, robbed>>

\* The units of the app's name; there is at most one.
Units(p) == {q \in procs \ PM2 : q.name = th[p].name}

\* The unit is written over the one of that name, enabled and restarted.
StartUnit(p) ==
  LET others == {q.owner : q \in Units(p)} \ {Me(p)}
      left == procs \ Units(p) IN
  /\ At(p, "unit")
  /\ \E status \in {"online", "errored"} :
       procs' = left \cup
         {[Process(p, "release", status) EXCEPT
             !.serves = /\ status = "online"
                        /\ \A q \in left : q.serves => Listens(q.env) # Listens(th[p].env)]}
  /\ Go(p, "port")
  /\ odd' = LET mine == \E q \in left : q.owner = Me(p)
            IN  (IF mine \/ others # {} THEN odd ELSE odd \ {Me(p)}) \cup others
                  \cup (IF others # {} THEN {Me(p)} ELSE {})
  /\ robbed' = robbed \cup ({o[1] : o \in others} \ {p})
  /\ UNCHANGED <<rel, tree, base, done, deploys, faults>>

\* Mutant: without a budget, until the port accepts connections.
WaitReadyForever(p) ==
  /\ At(p, "port")
  /\ \E q \in procs : q.serves /\ Listens(q.env) = th[p].port
  /\ EndApp(p, TRUE)
  /\ UNCHANGED <<rel, tree, base, procs, deploys, faults, odd, robbed>>

\* waitReady: something accepts connections on the port; an app without a port is
\* not waited for.
WaitReady(p) ==
  /\ At(p, "port")
  /\ EndApp(p, th[p].port = 0 \/ \E q \in procs : q.serves /\ Listens(q.env) = th[p].port)
  /\ UNCHANGED <<rel, tree, base, procs, deploys, faults, odd, robbed>>

\* A process ends, and its manager gives it up.
Exit(q) ==
  /\ q \in procs /\ q.status = "online" /\ Fault
  /\ procs' = (procs \ {q}) \cup {[q EXCEPT !.status = "errored", !.serves = FALSE]}
  /\ odd' = odd \cup {q.owner}
  /\ UNCHANGED <<rel, tree, base, th, done, deploys, robbed>>

Step(p) ==
  \/ Prepare(p) \/ PM2AlreadyOnline(p) \/ PM2Delete(p) \/ PM2Start(p) \/ WaitPM2Online(p)
  \/ StartUnit(p) \/ WaitReady(p)

System == \E p \in Projects : Step(p)

Next == System \/ (\E c \in Commands : Activate(c)) \/ (\E q \in procs : Exit(q))

Spec == Init /\ [][Next]_vars

-----------------------------------------------------------------------------
\* A deploy that ended well has replaced every app's process: there is one, it
\* is of the release that `current` points to, and it is online, which for a systemd
\* unit is only found out if it has a port.  Not where the process before had exited,
\* was named after neither the app nor its directory, or could not be listed or
\* deleted, nor where apps take each other's processes: odd (startProcess,
\* process.go:183; waitPM2Online, waitReady).
ReleaseRuns ==
  \A o \in Owners \ odd : done[o[1]] = "ok" =>
    \E q \in procs :
      /\ {x \in procs : x.owner = o} = {q}
      /\ q.rel = rel[o[1]]
      /\ PM(o) = "pm2" \/ "PORT" \in DOMAIN q.env => q.status = "online"

\* The port that is waited for is the one the process was told to listen on, and the
\* process has no variable that the command does not have; except where the file
\* names the ports of a frontend and a backend, where the command has no variables
\* and the files of an earlier one remain, and after a rollback (applyListenPort,
\* mergeDotEnvAround, writeDeployDotEnvs).
EnvRight ==
  \A p \in Projects : At(p, "online") \/ At(p, "port") =>
    LET t == th[p] IN
    /\ t.port # 0 /\ {"FRONTEND_PORT", "BACKEND_PORT"} \cap DOMAIN t.env = {}
         => Listens(t.env) = t.port
    /\ t.cmd.kind = "new" /\ t.cmd.env # << >>
         => DOMAIN t.env \subseteq DOMAIN t.cmd.env \cup {"PORT"}

\* "so two projects that both ship a "web" app do not collide in pm2/systemd"
\* (QualifyProcessName, procname.go:22): no deploy takes another project's process.
NoCollision == robbed = {}

\* Every run phase ends: the waits have a budget.
RunPhaseEnds == \A p \in Projects : At(p, "idle")
==============================================================================
