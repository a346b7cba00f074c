------------------------------ MODULE MCPlatform ------------------------------
(***************************************************************************)
(* What users of the platform see of it: the processes that their deploys  *)
(* leave on a host, and the project itself with its repository.  A         *)
(* behaviour is about one of the two.                                      *)
(***************************************************************************)
EXTENDS HostProcesses

CONSTANTS Repos, Acts, None

VARIABLES
  part,
  provider, hooks, files, head, wire, rows, runs, req, finished, status, acts, had, verdict,
  excused, owed

projectVars ==
  <<provider, hooks, files, head, wire, rows, runs, req, finished, status, acts, had, verdict,
    excused, owed>>

\* Two projects: two apps under two process managers, and one app whose repository
\* has an ecosystem file.
App(n, b, pm) == [name |-> <<n>>, base |-> <<b>>, pm |-> pm]
TwoProjects ==
  "shop" :> <<App("web", "web", "pm2"), App("api", "api", "systemd")>>
  @@ "blog" :> <<App("site", "site", "pm2")>>
EcoFiles == "shop" :> << >> @@ "blog" :> <<[name |-> <<"blog">>, base |-> <<".">>]>>
Deploy(p, k, names, env, port) ==
  [project |-> p, kind |-> k, names |-> names, env |-> env, port |-> port]
Unnamed == <<<< >>, << >>>>
Deploys ==
  {Deploy("shop", "new", Unnamed, "PROXY_PORT" :> 5, <<1, 0>>),
   Deploy("shop", "new", <<<<"front">>, << >>>>,
          "PROXY_PORT" :> 5 @@ "FRONTEND_PORT" :> 1, <<1, 0>>)}
  \cup {Deploy("blog", "new", <<<<"web">>>>, << >>, <<0>>),
        Deploy("blog", "new", <<<< >>>>, "PORT" :> 3, <<0>>),
        Deploy("blog", "back", <<<< >>>>, "PORT" :> 3, <<0>>)}

\* Two projects that both ship a "web" app, and nothing else remarkable.
BothWeb ==
  "shop" :> <<App("web", "web", "pm2"), App("api", "api", "pm2")>>
  @@ "blog" :> <<App("web", "web", "pm2"), App("admin", "admin", "pm2")>>
NoFiles == "shop" :> << >> @@ "blog" :> << >>
PlainDeploys == {Deploy(p, "new", Unnamed, << >>, <<0, 0>>) : p \in {"shop", "blog"}}

\* Imports with files, from the user's croncompose.yml or not; or without.
Import(auto, keep, write) == [secret |-> 1, auto |-> auto, keep |-> keep, write |-> write]
Importing == {Import(FALSE, TRUE, TRUE), Import(FALSE, FALSE, TRUE), Import(TRUE, FALSE, FALSE)}
\* The app as it is under a process manager, a new value, another name.
Form(name, value, auto, pm) ==
  [apps |-> <<[name |-> name, secret |-> value]>>, auto |-> auto, pm |-> pm]
Settings ==
  {Form("web", None, << >>, <<"pm2">>), Form("web", 2, << >>, << >>),
   Form("site", None, <<FALSE>>, << >>)}

Prj == INSTANCE Projects
  WITH MaxProjects <- Repos, MaxPatches <- Repos, Imports <- Importing, Forms <- Settings,
       MaxActs <- Acts, odd <- excused

allVars == <<part, vars, projectVars>>

\* The part that a behaviour is not about has one initial state.
MCInit ==
  /\ part \in {"host", "settings", "imports"}
  /\ Init
  /\ Prj!Init
  /\ part # "imports" => provider = "github" /\ files["spec"] = 0

\* Bounds: changes of one project that has no files in its repository; or imports,
\* each when what the former started is over, and one act besides.
Changing ==
  /\ \A p \in Prj!Ids \ {1} : rows'[p] = Prj!NoRow
  /\ req'[1].pc # "idle" => ~req'[1].wrote
Importing1By1 ==
  /\ \A p \in Prj!Ids :
       /\ rows'[p] # Prj!NoRow => rows[p] # Prj!NoRow \/ Prj!Quiet
       /\ req'[p].pc # "idle" => req'[p].wrote
  /\ \A q \in Prj!Requests \ Prj!Ids : req'[q] = Prj!Idle
  /\ acts' <= 1
InBounds == IF part = "settings" THEN Changing ELSE Importing1By1

MCNext ==
  /\ part' = part
  /\ \/ part = "host" /\ Next /\ UNCHANGED projectVars
     \/ /\ part \in {"settings", "imports"}
        /\ Prj!Next /\ InBounds /\ UNCHANGED vars

MCSystem == part = "host" /\ part' = part /\ System /\ UNCHANGED projectVars

\* The agent goes on, and its waits have a budget.  Deploys, requests and faults need
\* not happen, and there are finitely many.
MCSpec == MCInit /\ [][MCNext]_allVars /\ WF_allVars(MCSystem)
MCSafe == MCInit /\ [][MCNext]_allVars

\* ReleaseRuns and EnvRight of HostProcesses: after a deploy that succeeded the
\* release that runs is the one that was deployed, with the variables it was given.
HostRight == ReleaseRuns /\ EnvRight

\* SecretsKept, StatusRight, Wired and PushesDeploy of Projects: those variables are
\* the ones its user entered; a commit shows how its deploy went, an import shows no
\* warning only if it is wired to its repository, and what is pushed there is deployed.
ProjectsRight == Prj!SecretsKept /\ Prj!StatusRight /\ Prj!Wired /\ Prj!PushesDeploy

\* What users see of their deploys is right: the processes, and the project.
PlatformRight == HostRight /\ ProjectsRight

\* RunPhaseEnds: the run phase of every deploy comes to an end.
PlatformSettles == <>[](part = "host" => RunPhaseEnds)
==============================================================================
