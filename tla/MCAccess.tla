------------------------------- MODULE MCAccess ------------------------------
(***************************************************************************)
(* Who may act on the control plane, as whom the control plane acts, and   *)
(* whom it tells: users who sign in, tokens of their git providers, hosts  *)
(* that enrol, notifications.  A behaviour is about one of the four.       *)
(***************************************************************************)
EXTENDS SignIn, TLC

CONSTANTS
  e1, Calls, Logins, Hosts, Servers, MaxTime, MaxTokens, MaxEnrolls, GitFaults, EnrollFaults,
  Targets, Events, Patches, Subscribing, Endpoints, MaxEvents, MaxTurns

ASSUME AccessAssumption == IsFiniteSet(Emails) /\ None \notin Emails \cup UserRows

\* The scopes that the form of a target offers.
ASSUME TargetsAssumption == \A t \in DOMAIN Targets : Targets[t].scope \in {"all", "server", "other"}

VARIABLES
  part,
  rotating, minted, good, row, cache, flight, calls, now, gfaults, lost, gcrossed, burned,
  mode, pki, boot, cas, rows, tokens, cmds, disk, agent, auth, stream, efaults, torn, raced,
  trow, patch, turns, fire, sent, subs, gone, vapid, ensure, cached, put, mixed, strayed

gitVars == <<rotating, minted, good, row, cache, flight, calls, now, gfaults, lost, gcrossed, burned>>
enrollVars ==
  <<mode, pki, boot, cas, rows, tokens, cmds, disk, agent, auth, stream, efaults, torn, raced>>
notifyVars ==
  <<trow, patch, turns, fire, sent, subs, gone, vapid, ensure, cached, put, mixed, strayed>>

Git == INSTANCE GitTokens
  WITH Accounts <- Logins, MaxFaults <- GitFaults, faults <- gfaults, crossed <- gcrossed
Enrolling == INSTANCE Enroll WITH MaxFaults <- EnrollFaults, faults <- efaults
Ntf == INSTANCE Notify WITH row <- trow

\* Every account has the first address: a second one is the configured owner's.
OneAddress == [a \in Accounts |-> e1]

\* Mail about one server's jobs and deploys; a chat for failures; a receiver for
\* servers with other labels, made later.
Tgts ==
  "ops" :> [kind |-> "email", families |-> {"job_run", "deploy"}, statuses |-> {},
            scope |-> "server", later |-> FALSE]
  @@ "chat" :> [kind |-> "slack", families |-> {}, statuses |-> {"failed"},
                scope |-> "all", later |-> FALSE]
  @@ "lab" :> [kind |-> "webhook", families |-> {}, statuses |-> {},
               scope |-> "other", later |-> TRUE]
Event(family, outcome, push, name) ==
  [family |-> family, status |-> outcome, push |-> push, name |-> name]
Happenings ==
  {Event("job_run", "timed_out", FALSE, "job_failed"),
   Event("deploy", "failed", FALSE, "deploy_failed"),
   Event("deploy", "succeeded", TRUE, "deploy_succeeded")}
Opts == {{"job_failed"}, {"job_failed", "deploy_failed", "deploy_succeeded"}}
\* The form sent back as it was, a switch turned, a new secret.
Forms == {[enabled |-> None, secret |-> 0], [enabled |-> [to |-> FALSE], secret |-> None],
          [enabled |-> None, secret |-> 1]}

allVars == <<part, vars, gitVars, enrollVars, notifyVars>>

\* The parts that a behaviour is not about have one initial state.
MCInit ==
  /\ part \in {"signin", "git", "enroll", "notify"}
  /\ Init /\ (part # "signin" => seeded = {})
  /\ Git!Init /\ (part # "git" => rotating /\ row = None)
  /\ Enrolling!Init /\ (part # "enroll" => mode = "mtls")
  /\ Ntf!Init

MCNext ==
  /\ part' = part
  /\ \/ part = "signin" /\ Next /\ UNCHANGED <<gitVars, enrollVars, notifyVars>>
     \/ part = "git" /\ Git!Next /\ UNCHANGED <<vars, enrollVars, notifyVars>>
     \/ part = "enroll" /\ Enrolling!Next /\ UNCHANGED <<vars, gitVars, notifyVars>>
     \/ part = "notify" /\ Ntf!Next /\ UNCHANGED <<vars, gitVars, enrollVars>>

MCSystem ==
  /\ part' = part
  /\ \/ part = "git" /\ Git!System /\ UNCHANGED <<vars, enrollVars, notifyVars>>
     \/ part = "enroll" /\ Enrolling!System /\ UNCHANGED <<vars, gitVars, notifyVars>>
     \/ part = "notify" /\ Ntf!System /\ UNCHANGED <<vars, gitVars, enrollVars>>

\* Handlers and goroutines go on, the provider answers or times out, agents are
\* started and dial again.  Users, operators and faults need not do anything.
MCSafe == MCInit /\ [][MCNext]_allVars
MCSpec == MCSafe /\ WF_allVars(MCSystem)

\* NoneBurned, OneAccount and ServedFresh of GitTokens: parallel requests do not
\* use up a grant, and what they are served is of the account shown, and in time.
GrantKept == Git!NoneBurned /\ Git!OneAccount /\ Git!ServedFresh

\* CeremoniesWarrant, SessionsRight and OwnerKept of SignIn: who is let in was
\* vouched for, as the user of that session, and the owner stays the owner.
LetInRight == CeremoniesWarrant /\ SessionsRight /\ OwnerKept

\* TokensAreOneTime, FilesAgree and BundleWhole of Enroll: a token makes one
\* server, and what a crash leaves on either side's disk fits together.
EnrolledRight == Enrolling!TokensAreOneTime /\ Enrolling!FilesAgree /\ Enrolling!BundleWhole

\* Told, SecretKept and KeysAgree of Notify: those who asked are told, once, and
\* what they entered is kept.
NotifyRight == Ntf!Told /\ Ntf!SecretKept /\ Ntf!KeysAgree

\* CallsEnd of GitTokens, EnrolledConnects of Enroll and EventsEnd of Notify: requests
\* that need a token are answered, a host that has enrolled gets its stream, and
\* notifications come to an end.
AccessSettles == <>[](/\ part = "git" => Git!Answered
                      /\ part = "enroll" => Enrolling!Connected
                      /\ part = "notify" => Ntf!EventsEnd)
=============================================================================
