------------------------------ MODULE Projects -------------------------------
(***************************************************************************)
(* Deploy projects of one repository (control-plane/internal/deploys): the *)
(* import, which registers a webhook and commits files at the provider,    *)
(* settings and sealed environment values, removal, the provider's push    *)
(* deliveries, and the statuses that runs leave on commits.                *)
(*                                                                         *)
(* Requests and finished hooks run at the same time; a step is a database  *)
(* statement or a call of the provider.  The agent is connected, and a     *)
(* trigger is checked and its run inserted in one step: DeployRuns has the *)
(* rest of a run, triggers that race one another included.  The provider   *)
(* answers, but may refuse a webhook.                                      *)
(***************************************************************************)
EXTENDS Naturals, Sequences, FiniteSets, FiniteSetsExt, TLC

CONSTANTS
  MaxProjects, \* bound: imports of the repository
  MaxPatches,  \* bound: requests that change settings
  Imports,     \* what imports ask for: [secret, auto, keep, write]
  Forms,       \* what changes ask for: [apps, auto, pm], << >> if left out
  MaxActs,     \* bound: changes, removals, pushes, Redeploys, failures
  None

Ids       == 1..MaxProjects            \* project ids in the order of created_at
Requests  == 1..(MaxProjects + MaxPatches)   \* an import has the id of its project
Providers == {"github", "gitlab"}
Files     == {"spec", "workflow"}      \* croncompose.yml and the CI file
Absent    == 0                         \* besides the projects, whose a file is
User      == MaxProjects + 1

VARIABLES
  provider, \* where the repository is
  hooks,    \* the projects whose secrets the repository's webhooks have
  files,    \* per file: whose it is
  head,     \* commits on the branch
  wire,     \* push deliveries on their way
  rows,     \* deploy_projects
  runs,     \* deploy_runs; those of a removed project are "gone"
  req,      \* create and patch handlers
  finished, \* DeployRunFinished calls that have not returned
  status,   \* per commit: the status that the provider shows
  acts,     \* bound counter
  had,      \* history: the values that were entered, with their projects and apps
  verdict,  \* history: per commit, the outcome of the deploy that ended last
  odd,      \* history: what the properties below excuse
  owed      \* history: the project that is to deploy the tip, 0 for none

provided == <<provider, hooks, files, head, wire>>
history  == <<had, verdict, odd, owed>>
vars == <<provided, rows, runs, req, finished, status, acts, history>>

NoRow  == [st |-> "none"]
Idle   == [pc |-> "idle"]
Live   == {p \in Ids : rows[p].st = "live"}
Active == {"pending", "running"}

TypeOK ==
  /\ provider \in Providers /\ hooks \subseteq Ids
  /\ files \in [Files -> 0..User]
  /\ \A d \in wire : d.key \in Ids /\ d.commit \in 1..head
  /\ \A p \in Live : rows[p].pm \in {"none", "pm2"} /\ rows[p].auto \in BOOLEAN
  /\ \A r \in DOMAIN runs :
       runs[r].project \in Ids /\ runs[r].st \in Active \cup {"succeeded", "failed", "gone"}
  /\ DOMAIN req = Requests
  /\ \A f \in finished : f.run \in DOMAIN runs
  /\ DOMAIN status = 1..head /\ DOMAIN verdict = 1..head
  /\ acts \in 0..MaxActs /\ owed \in 0..MaxProjects

Init ==
  /\ provider \in Providers
  /\ hooks = {} /\ wire = {} /\ head = 1
  /\ \E spec \in {Absent, User} : files = "spec" :> spec @@ "workflow" :> Absent
  /\ rows = [p \in Ids |-> NoRow]
  /\ runs = << >>
  /\ req = [q \in Requests |-> Idle]
  /\ finished = {}
  /\ status = <<"none">> /\ verdict = <<"none">>
  /\ acts = 0
  /\ had = {} /\ odd = {} /\ owed = 0

Act == acts < MaxActs /\ acts' = acts + 1
Odd(what) == odd' = odd \cup what

-----------------------------------------------------------------------------
(***************************************************************************)
(* Settings.  A project has one app, with one sensitive variable.          *)
(***************************************************************************)
\* Two requests about one row whose reads and writes interleave.
Overlaps(q, p) ==
  {<<"overlap", p>> : k \in {k \in Requests \ {q} : req[k].pc \in {"read", "write"} /\ req[k].p = p}}

\* normalizeCreateApps, extras and specFiles.
NewRow(in) == [st |-> "live", app |-> "web", secret |-> in.secret, auto |-> FALSE, pm |-> "none"]
Extras(in) == IF in.auto THEN [apps |-> << >>, auto |-> <<TRUE>>, pm |-> << >>] ELSE None
SpecFiles(in) ==
  IF in.write THEN (IF in.keep THEN << >> ELSE <<"spec">>) \o <<"workflow">> ELSE << >>

\* create: the row is inserted with the sealed values of its app.  A form that
\* was filled from croncompose.yml keeps that file.
Insert(p, in) ==
  /\ rows[p].st = "none" /\ \A k \in 1..(p - 1) : rows[k].st # "none"
  /\ in.keep => files["spec"] # Absent
  /\ rows' = [rows EXCEPT ![p] = NewRow(in)]
  /\ req' = [req EXCEPT ![p] =
       [pc |-> IF in.auto THEN "read" ELSE "hook", p |-> p, row |-> rows'[p],
        form |-> Extras(in), todo |-> SpecFiles(in), wrote |-> in.write, warned |-> FALSE]]
  /\ had' = had \cup {<<p, "web", in.secret>>}
  /\ owed' = 0
  /\ Odd({<<"together", p>> : k \in {k \in 1..(p - 1) : req[k].pc \notin {"idle", "done"}}})
  /\ UNCHANGED <<provided, runs, finished, status, acts, verdict>>

\* MergeAppsEnv: a blank sensitive value keeps the stored one of the app with
\* that name.  (Mutant: of the app in that place.)
MergeByPlace(old, app) == [app EXCEPT !.secret = IF @ = None THEN old.secret ELSE @]
MergeAppsEnv(old, app) ==
  [app EXCEPT !.secret = IF @ = None /\ app.name = old.app THEN old.secret ELSE @]

\* patch reads the row and merges the form's apps with it ...
Patch(q, p, form) ==
  /\ q > MaxProjects /\ req[q].pc = "idle" /\ p \in Live
  /\ Act
  /\ LET merged == [i \in DOMAIN form.apps |-> MergeAppsEnv(rows[p], form.apps[i])]
     IN  /\ req' = [req EXCEPT ![q] = [pc |-> "read", p |-> p, before |-> rows[p],
                                        form |-> [form EXCEPT !.apps = merged]]]
         /\ had' = had \cup {<<p, form.apps[i].name, form.apps[i].secret>> : i \in DOMAIN form.apps}
         /\ Odd(Overlaps(q, p) \cup {<<"renamed", p>> : i \in {i \in DOMAIN form.apps :
                                                          form.apps[i].name # rows[p].app}})
  /\ UNCHANGED <<provided, rows, runs, finished, status, verdict, owed>>

\* applyUpdate.
ApplyUpdate(row, form) ==
  [row EXCEPT !.app = IF form.apps = << >> THEN @ ELSE form.apps[1].name,
              !.secret = IF form.apps = << >> THEN @ ELSE form.apps[1].secret,
              !.auto = IF form.auto = << >> THEN @ ELSE form.auto[1],
              !.pm = IF form.pm = << >> THEN @ ELSE form.pm[1]]

\* ... and then Update, which create too calls for what the insert leaves out,
\* reads it again ...
UpdateRead(q) ==
  /\ req[q].pc = "read"
  /\ IF req[q].p \in Live
     THEN req' = [req EXCEPT ![q].pc = "write",
                             ![q].form = ApplyUpdate(rows[req[q].p], @)]
     ELSE req' = [req EXCEPT ![q] = Idle]
  /\ Odd(Overlaps(q, req[q].p))
  /\ UNCHANGED <<provided, rows, runs, finished, status, acts, had, verdict, owed>>

\* ... and writes every column back.
UpdateWrite(q) ==
  /\ req[q].pc = "write"
  /\ LET p == req[q].p
         row == req[q].form
         changed == q > MaxProjects /\ row.pm # req[q].before.pm /\ row.pm # "none"
     IN  IF p \notin Live
         THEN req' = [req EXCEPT ![q] = Idle] /\ UNCHANGED rows
         ELSE /\ rows' = [rows EXCEPT ![p] = row]
              /\ req' = [req EXCEPT ![q] =
                   IF q = p THEN [@ EXCEPT !.pc = "hook", !.row = row, !.form = None]
                   ELSE IF changed THEN [pc |-> "run", p |-> p, row |-> row] ELSE Idle]
  /\ UNCHANGED <<provided, runs, finished, status, acts, history>>

\* remove: the row, and by cascade its runs.
Remove(p) ==
  /\ p \in Live
  /\ Act
  /\ rows' = [rows EXCEPT ![p].st = "gone"]
  /\ runs' = [r \in DOMAIN runs |-> IF runs[r].project = p
                                    THEN [project |-> p, st |-> "gone", commit |-> 0]
                                    ELSE runs[r]]
  /\ Odd({<<"dropped", runs[r].commit>> :
            r \in {r \in DOMAIN runs : runs[r].project = p
                     /\ (runs[r].st \in Active \/ \E f \in finished : f.run = r)}})
  /\ owed' = 0
  /\ UNCHANGED <<provided, req, finished, status, had, verdict>>

-----------------------------------------------------------------------------
(***************************************************************************)
(* Runs.                                                                   *)
(***************************************************************************)
\* startRun with the row that its caller read; of a removed project it fails.
StartRun(p, row, trigger, pin) ==
  runs' = IF p \notin Live THEN runs
          ELSE Append(runs, [project |-> p, trigger |-> trigger, commit |-> pin,
                             app |-> row.app, secret |-> row.secret,
                             st |-> IF pin = 0 THEN "running" ELSE "pending"])

\* An operator's Redeploy, and the runs that create and patch start.
Redeploy(p) ==
  /\ p \in Live
  /\ Act
  /\ StartRun(p, rows[p], "manual", 0)
  /\ UNCHANGED <<provided, rows, req, finished, status, history>>

RequestRun(q) ==
  /\ req[q].pc = "run"
  /\ StartRun(req[q].p, req[q].row, "manual", 0)
  /\ req' = [req EXCEPT ![q] = IF q = req[q].p /\ q \in Live
                                   THEN [pc |-> "done", wrote |-> @.wrote, warned |-> @.warned]
                                   ELSE Idle]
  /\ UNCHANGED <<provided, rows, finished, status, acts, history>>

\* The agent checks the tip out, or the pinned commit.
Checkout(r) ==
  /\ runs[r].st = "running" /\ runs[r].commit = 0
  /\ runs' = [runs EXCEPT ![r].commit = head]
  /\ UNCHANGED <<provided, rows, req, finished, status, acts, history>>

Word(s) == IF s = "succeeded" THEN "success" ELSE "failure"

Finish(r, s) ==
  /\ runs[r].st = "running" /\ runs[r].commit # 0
  /\ IF s = "failed" THEN Act ELSE UNCHANGED acts
  /\ runs' = [runs EXCEPT ![r] = [@ EXCEPT !.st = s, !.app = None, !.secret = None]]
  /\ finished' = finished \cup {[run |-> r, pc |-> "post", row |-> NoRow]}
  /\ verdict' = [verdict EXCEPT ![runs[r].commit] = Word(s)]
  /\ Odd({<<"mixed", runs[f.run].commit>> :
            f \in {f \in finished : f.pc = "post" /\ runs[f.run].commit = runs[r].commit}})
  /\ UNCHANGED <<provided, rows, req, status, had, owed>>

Becomes(f, g) == finished' = (finished \ {f}) \cup g
RollsBack(f) ==
  runs[f.run].st = "failed" /\ runs[f.run].trigger # "rollback" /\ rows[runs[f.run].project].auto

ReportIf(f, told) ==
  /\ f \in finished /\ f.pc = "post"
  /\ IF runs[f.run].st = "gone"
     THEN Becomes(f, {}) /\ UNCHANGED status
     ELSE /\ Becomes(f, IF RollsBack(f)
                      THEN {[f EXCEPT !.pc = "back", !.row = rows[runs[f.run].project]]} ELSE {})
          /\ status' = IF told THEN [status EXCEPT ![runs[f.run].commit] = Word(runs[f.run].st)]
                       ELSE status
  /\ UNCHANGED <<provided, rows, runs, req, acts, history>>

\* DeployRunFinished reads the run and its project and reports the outcome ...
\* (Mutant: after the return of a rollback.)
ReportForwardOnly(f) == ReportIf(f, runs[f.run].trigger # "rollback")
ReportStatusFinish(f) == ReportIf(f, TRUE)

\* ... and inserts a rollback to the last commit that was deployed ...
RollBack(f) ==
  /\ f \in finished /\ f.pc = "back"
  /\ LET p == runs[f.run].project
         good == {r \in DOMAIN runs : runs[r].project = p /\ runs[r].st = "succeeded"}
         pin == IF good = {} THEN 0 ELSE runs[Max(good)].commit
     IN  IF pin \in {0, runs[f.run].commit}
         THEN Becomes(f, {}) /\ UNCHANGED runs
         ELSE /\ StartRun(p, f.row, "rollback", pin)
              /\ Becomes(f, {[f EXCEPT !.pc = "announce", !.run = Len(runs')]})
  /\ UNCHANGED <<provided, rows, req, status, acts, history>>

\* ... which is announced on that commit and sent.
ReportStatusStart(f) ==
  /\ f \in finished /\ f.pc = "announce"
  /\ status' = [status EXCEPT ![runs[f.run].commit] = "pending"]
  /\ runs' = [runs EXCEPT ![f.run].st = IF @ = "pending" THEN "running" ELSE @]
  /\ Becomes(f, {})
  /\ UNCHANGED <<provided, rows, req, acts, history>>

-----------------------------------------------------------------------------
(***************************************************************************)
(* The provider: provisionRemote, pushes and their deliveries.             *)
(***************************************************************************)
\* GetByRepo: the newest project of the repository.  (Mutant: the oldest.)
OldestByRepo == IF Live = {} THEN 0 ELSE Min(Live)
GetByRepo == IF Live = {} THEN 0 ELSE Max(Live)

\* A commit, by the user or by this program; every webhook is called.
NewCommit ==
  /\ head' = head + 1
  /\ wire' = wire \cup {[commit |-> head', key |-> k] : k \in hooks}
  /\ status' = Append(status, "none") /\ verdict' = Append(verdict, "none")
  /\ owed' = IF Live # {} /\ Max(Live) \in hooks THEN Max(Live) ELSE 0

Push ==
  /\ Live # {}
  /\ Act
  /\ NewCommit
  /\ UNCHANGED <<provider, hooks, files, rows, runs, req, finished, had, odd>>

Warn(q, pc) == req' = [req EXCEPT ![q].pc = pc, ![q].warned = TRUE]

\* The owner has no token, or the provider refuses.
NoWebhook(p) ==
  /\ req[p].pc = "hook"
  /\ Act
  /\ \E pc \in {"run"} \cup (IF req[p].todo = << >> THEN {} ELSE {"files"}) : Warn(p, pc)
  /\ UNCHANGED <<provided, rows, runs, finished, status, history>>

\* EnsureWebhook: GitHub has one webhook for a URL and refuses a second, which
\* counts as success.
EnsureWebhook(p) ==
  /\ req[p].pc = "hook"
  /\ IF provider = "github" /\ hooks # {}
     THEN Odd({<<"refused", p>>}) /\ UNCHANGED hooks
     ELSE hooks' = hooks \cup {p} /\ UNCHANGED odd
  /\ req' = [req EXCEPT ![p] = [@ EXCEPT !.pc = IF req[p].todo = << >> THEN "run" ELSE "files"]]
  /\ UNCHANGED <<provider, files, head, wire, rows, runs, finished, status, acts, had, verdict, owed>>

\* commitGitHub takes one file after the other.  commitGitLab makes one commit
\* of them; it creates all, or else updates all.
Commit(p) ==
  LET todo == req[p].todo
      now == IF provider = "github" THEN {todo[1]} ELSE {todo[i] : i \in DOMAIN todo}
  IN  IF provider = "gitlab" /\ \E f, g \in now : files[f] = Absent /\ files[g] # Absent
      THEN Warn(p, "run") /\ UNCHANGED <<files, head, wire, status, verdict, owed>>
      ELSE /\ files' = [f \in Files |-> IF f \in now THEN p ELSE files[f]]
           /\ NewCommit
           /\ req' = [req EXCEPT ![p].todo = IF provider = "github" THEN Tail(todo) ELSE << >>,
                                  ![p].pc = IF provider = "github" /\ Len(todo) > 1
                                            THEN "files" ELSE "run"]

EnsureRepoFiles(p) ==
  /\ req[p].pc = "files"
  /\ Commit(p)
  /\ UNCHANGED <<provider, hooks, rows, runs, finished, acts, had, odd>>

\* githubWebhook, gitlabWebhook and triggerFromWebhook.
Deliver(d) ==
  /\ d \in wire
  /\ wire' = wire \ {d}
  /\ LET p == GetByRepo
         mine == {r \in DOMAIN runs : runs[r].project = p}
     IN  \/ d.key # p /\ UNCHANGED <<runs, odd>>
         \/ /\ d.key = p
            /\ \E r \in mine : runs[r].commit = d.commit
            /\ UNCHANGED <<runs, odd>>
         \/ /\ d.key = p
            /\ \A r \in mine : runs[r].commit # d.commit
            /\ IF \E r \in mine : runs[r].st \in Active
               THEN Odd({<<"missed", d.commit>>}) /\ UNCHANGED runs
               ELSE StartRun(p, rows[p], "webhook", 0) /\ UNCHANGED odd
  /\ UNCHANGED <<provider, hooks, files, head, rows, req, finished, status, acts, had, verdict, owed>>

-----------------------------------------------------------------------------
Next ==
  \/ \E p \in Ids :
       \/ \E in \in Imports : Insert(p, in)
       \/ \E q \in Requests, form \in Forms : Patch(q, p, form)
       \/ Remove(p) \/ Redeploy(p)
       \/ NoWebhook(p) \/ EnsureWebhook(p) \/ EnsureRepoFiles(p)
  \/ \E q \in Requests : UpdateRead(q) \/ UpdateWrite(q) \/ RequestRun(q)
  \/ \E r \in DOMAIN runs : Checkout(r) \/ \E s \in {"succeeded", "failed"} : Finish(r, s)
  \/ \E f \in finished : ReportStatusFinish(f) \/ RollBack(f) \/ ReportStatusStart(f)
  \/ \E d \in wire : Deliver(d)
  \/ Push

Spec == Init /\ [][Next]_vars

-----------------------------------------------------------------------------
(***************************************************************************)
(* Properties.                                                             *)
(***************************************************************************)
\* A run gives an app no value but one that was entered for that app, however
\* the requests and renames overlapped; and an app that was given a value has
\* one, unless two requests about its project overlapped ("overlap") or it
\* was renamed ("renamed": its value is dropped, without a word).
SecretsKept ==
  /\ \A r \in DOMAIN runs :
       runs[r].st \in Active /\ runs[r].secret # None => <<runs[r].project, runs[r].app, runs[r].secret>> \in had
  /\ \A p \in Live :
       rows[p].secret = None /\ {<<"overlap", p>>, <<"renamed", p>>} \cap odd = {} =>
         \/ \A v \in had : v[1] = p /\ v[2] = rows[p].app => v[3] = None
         \/ \E q \in Requests : req[q].pc \in {"read", "write"} /\ req[q].p = p

\* An import that ended without a warning is wired: the repository calls with
\* the project's secret, and its CI file names the project or a later one (an
\* earlier one, if two imports ran "together").  Not when GitHub has a
\* webhook of an earlier project ("refused"), which is taken for success,
\* though its deliveries fail the project's check.
Wired ==
  \A p \in Live : req[p].pc = "done" /\ ~req[p].warned =>
    /\ p \in hooks \/ <<"refused", p>> \in odd
    /\ req[p].wrote =>
         files["workflow"] \in p..MaxProjects \/ <<"together", p>> \in odd

\* "the question 'is this commit live?' is answered" (status.go): when no
\* deploy of a commit runs and no report about it is under way, the provider
\* shows how the deploy of it that ended last went.  Not when two of its
\* reports were under way at once and may have come out of order ("mixed"),
\* or the project was removed meanwhile ("dropped").
StatusRight ==
  \A c \in 1..head :
    \/ {<<"mixed", c>>, <<"dropped", c>>} \cap odd # {}
    \/ \E r \in DOMAIN runs : runs[r].commit = c /\ runs[r].st \in Active
    \/ \E f \in finished : f.pc = "post" /\ runs[f.run].commit = c
    \/ status[c] = verdict[c]

\* Nothing is under way.
Quiet ==
  /\ wire = {} /\ finished = {}
  /\ \A r \in DOMAIN runs : runs[r].st \notin Active
  /\ \A q \in Requests : req[q].pc \in {"idle", "done"}

\* When all is quiet, the last push to a repository that calls with its newest
\* project's secret is deployed by that project; unless the delivery met a
\* deploy that was running ("missed"): then it was skipped, and nobody comes
\* back to it.
PushesDeploy ==
  Quiet /\ owed # 0 =>
    \/ <<"missed", head>> \in odd
    \/ \E r \in DOMAIN runs : runs[r].project = owed /\ runs[r].commit = head
=============================================================================
