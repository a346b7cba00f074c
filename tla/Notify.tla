-------------------------------- MODULE Notify --------------------------------
(***************************************************************************)
(* Notifications (control-plane/internal/notify): the Notifier, which      *)
(* loads the targets that care about an event, delivers to each, and then  *)
(* pushes to the browsers; the rows of targets and subscriptions with the  *)
(* requests that change them; the key with which pushes are signed.        *)
(*                                                                         *)
(* An event is one call of the gateway's hooks, in a goroutine of its own. *)
(* Slack, the webhook receivers, the SMTP servers and the push services    *)
(* are external: they accept, refuse or do not answer.  An HTTP call ends  *)
(* after ten seconds; an SMTP server that accepts the connection and then  *)
(* says nothing is waited for without a deadline.                          *)
(***************************************************************************)
EXTENDS Integers, Sequences, FiniteSets

CONSTANTS
  Targets,      \* per target: kind, families, statuses, scope; whether it is made later
  Events,       \* the events that may happen: family, status, rollback, push
  Patches,      \* what a patch may hold: enabled, and the secret
  Subscribing,  \* the sets of push events that a browser may ask for
  Endpoints,    \* the browsers' push endpoints
  MaxEvents,    \* bound: events and test deliveries
  MaxTurns,     \* bound: requests, queries that fail, replicas that start again
  None

VARIABLES
  row,      \* table notification_targets: what requests change
  patch,    \* per request: the patch it is making
  turns,    \* requests and failures so far
  fire,     \* per event: its goroutine
  sent,     \* per event: the deliveries, in their order
  subs,     \* table push_subscriptions, by endpoint
  gone,     \* endpoints the push services no longer know
  vapid,    \* table push_vapid: the key
  ensure,   \* per replica: where EnsureVAPID is
  cached,   \* per replica: vapidSingleton
  put,      \* history: per target, the last secret that was submitted
  mixed,    \* history: targets of which a patch overwrote what it had not read
  strayed   \* history: replicas that did not get to read the key back

targetVars == <<row, patch, put, mixed>>
pushVars   == <<subs, gone, vapid, ensure, cached, strayed>>
vars == <<targetVars, turns, fire, sent, pushVars>>

Names    == DOMAIN Targets
Fires    == 1..MaxEvents
Turns == 1..MaxTurns
Replicas == {1, 2}    \* processes on one database; events happen in the first
Hidden   == 0         \* redactedPlaceholder
NoSecret == -1

Row(state) == [state |-> state, enabled |-> TRUE, secret |-> NoSecret]
There(t)   == row[t].state = "there"
NoPatch == [target |-> None]
NewFire(pc, ev) == [pc |-> pc, ev |-> ev, known |-> TRUE, todo |-> {}, rec |-> {},
                    enabled |-> {}, push |-> {}]
NoFire == NewFire("none", None)

Init ==
  /\ row = [t \in Names |-> Row(IF Targets[t].later THEN "none" ELSE "there")]
  /\ patch = [r \in Turns |-> NoPatch] /\ turns = 0
  /\ fire = [f \in Fires |-> NoFire] /\ sent = [f \in Fires |-> << >>]
  /\ subs = [e \in Endpoints |-> None] /\ gone = {}
  /\ vapid = None /\ ensure = [p \in Replicas |-> "idle"] /\ cached = [p \in Replicas |-> None]
  /\ put = [t \in Names |-> NoSecret] /\ mixed = {} /\ strayed = {}

Turn == turns < MaxTurns /\ turns' = turns + 1

-----------------------------------------------------------------------------
(***************************************************************************)
(* Targets.                                                                *)
(***************************************************************************)
\* POST: enabled, and told of runs of jobs if no events are named.
CreateTarget(t) ==
  /\ row[t].state = "none" /\ Turn
  /\ row' = [row EXCEPT ![t] = [Row("there") EXCEPT !.secret = turns']]
  /\ put' = [put EXCEPT ![t] = turns']
  /\ UNCHANGED <<patch, mixed, fire, sent, pushVars>>

\* PATCH, first half: the row is read, or not found.
PatchRead(t, in) ==
  /\ There(t) /\ Turn
  /\ patch' = [patch EXCEPT ![turns + 1] = [target |-> t, in |-> in, copy |-> row[t]]]
  /\ UNCHANGED <<row, put, mixed, fire, sent, pushVars>>

\* Mutant: a value that comes back as the placeholder is dropped.
MergedBlank(in, old, r) ==
  IF in.secret = None THEN old ELSE IF in.secret = Hidden THEN NoSecret ELSE r

\* A patch without config keeps the secret, and so does the placeholder that the
\* form was shown; another value is new.
Merged(in, old, r) == IF in.secret \in {None, Hidden} THEN old ELSE r

\* PATCH, second half: every column is written from the copy.
PatchWrite(r) ==
  LET q == patch[r]
      t == q.target IN
  /\ t # None
  /\ patch' = [patch EXCEPT ![r] = NoPatch]
  /\ IF ~There(t) THEN UNCHANGED <<row, put, mixed>>
     ELSE /\ row' = [row EXCEPT ![t] =
                [state |-> "there",
                 enabled |-> IF q.in.enabled = None THEN q.copy.enabled ELSE q.in.enabled.to,
                 secret |-> Merged(q.in, q.copy.secret, r)]]
          /\ put' = IF q.in.secret \in {None, Hidden} THEN put ELSE [put EXCEPT ![t] = r]
          /\ mixed' = IF row[t] = q.copy THEN mixed ELSE mixed \cup {t}
  /\ UNCHANGED <<turns, fire, sent, pushVars>>

DeleteTarget(t) ==
  /\ There(t) /\ Turn
  /\ row' = [row EXCEPT ![t] = Row("deleted")]
  /\ put' = [put EXCEPT ![t] = NoSecret] /\ mixed' = mixed \ {t}
  /\ UNCHANGED <<patch, fire, sent, pushVars>>

-----------------------------------------------------------------------------
(***************************************************************************)
(* Events.                                                                 *)
(***************************************************************************)
\* wantsEvent: a target without events is told of runs of jobs.
WantsEvent(t, family) ==
  family \in (IF Targets[t].families = {} THEN {"job_run"} ELSE Targets[t].families)

\* Mutant: the scope is not looked at.
MatchesAnyServer(t, ev, known) ==
  /\ WantsEvent(t, ev.family)
  /\ Targets[t].statuses = {} \/ ev.status \in Targets[t].statuses

\* Target.Matches.  An event has the labels of its server, or none if the server's
\* row could not be read.
Matches(t, ev, known) ==
  /\ WantsEvent(t, ev.family)
  /\ Targets[t].statuses = {} \/ ev.status \in Targets[t].statuses
  /\ Targets[t].scope = "all" \/ (known /\ Targets[t].scope = "server")

At(f, pc) == fire[f].pc = pc
Go(f, pc) == fire' = [fire EXCEPT ![f].pc = pc]
Begin(f, u) ==
  /\ At(f, "none") /\ \A g \in 1..(f - 1) : ~At(g, "none")
  /\ fire' = [fire EXCEPT ![f] = u]

\* FireRunFailed, FireDeployFailed: a failure, or a rollback however it ends.
FireFailed(f, ev) ==
  /\ ~ev.push /\ Begin(f, NewFire("enrich", ev))
  /\ UNCHANGED <<targetVars, turns, sent, pushVars>>

\* A deploy that has started or succeeded, and an agent release, are for browsers only.
FirePush(f, ev) ==
  /\ ev.push /\ Begin(f, NewFire("push", ev))
  /\ UNCHANGED <<targetVars, turns, sent, pushVars>>

\* POST /test: the target alone, whatever it wants.
FireTest(f, t) ==
  /\ There(t)
  /\ Begin(f, [NewFire("test", None) EXCEPT !.todo = {t}])
  /\ UNCHANGED <<targetVars, turns, sent, pushVars>>

\* enrich, enrichDeploy: a lookup that fails is not fatal.
Enrich(f) ==
  /\ At(f, "enrich")
  /\ \/ Go(f, "list") /\ UNCHANGED turns
     \/ Turn /\ fire' = [fire EXCEPT ![f].pc = "list", ![f].known = FALSE]
  /\ UNCHANGED <<targetVars, sent, pushVars>>

\* EnabledList and Matches; without the list nobody is told, browsers neither.
ListTargets(f) ==
  LET on == {t \in Names : There(t) /\ row[t].enabled} IN
  /\ At(f, "list")
  /\ \/ /\ fire' = [fire EXCEPT ![f] = [@ EXCEPT !.pc = "deliver", !.enabled = on,
              !.todo = {t \in on : Matches(t, fire[f].ev, fire[f].known)}]]
        /\ UNCHANGED turns
     \/ Turn /\ Go(f, "over")
  /\ UNCHANGED <<targetVars, sent, pushVars>>

\* deliver, in a goroutine per target: delivered, or refused with an error.
Deliver(f, t) ==
  /\ fire[f].pc \in {"deliver", "test"} /\ t \in fire[f].todo
  /\ fire' = [fire EXCEPT ![f].todo = @ \ {t}, ![f].rec = @ \cup {t}]
  /\ sent' = [sent EXCEPT ![f] = Append(@, t)]
  /\ UNCHANGED <<targetVars, turns, pushVars>>

\* RecordDelivery; last_error decides nothing and is left out.
Record(f, t) ==
  /\ t \in fire[f].rec
  /\ fire' = [fire EXCEPT ![f].rec = @ \ {t}]
  /\ UNCHANGED <<targetVars, turns, sent, pushVars>>

\* Mutant: the browsers are told without waiting.
WaitedNot(f) ==
  /\ fire[f].pc \in {"deliver", "test"}
  /\ fire' = [fire EXCEPT ![f].pc = IF At(f, "test") THEN "over" ELSE "push", ![f].todo = {}]
  /\ UNCHANGED <<targetVars, turns, sent, pushVars>>

\* Every delivery was waited for, however long it took; then come the browsers.
Waited(f) ==
  /\ fire[f].pc \in {"deliver", "test"} /\ fire[f].todo = {} /\ fire[f].rec = {}
  /\ Go(f, IF At(f, "test") THEN "over" ELSE "push")
  /\ UNCHANGED <<targetVars, turns, sent, pushVars>>

-----------------------------------------------------------------------------
(***************************************************************************)
(* Browsers.                                                               *)
(***************************************************************************)
\* EnsureVAPID: the cached key, the one of the table, or a new one.
EnsureRead(p) ==
  /\ ensure[p] = "idle" /\ cached[p] = None
  /\ IF vapid # None
       THEN cached' = [cached EXCEPT ![p] = vapid] /\ UNCHANGED ensure
       ELSE ensure' = [ensure EXCEPT ![p] = "insert"] /\ UNCHANGED cached
  /\ UNCHANGED <<targetVars, turns, fire, sent, subs, gone, vapid, strayed>>

\* on conflict (id) do nothing: the first replica's key stays.
EnsureInsert(p) ==
  /\ ensure[p] = "insert"
  /\ vapid' = IF vapid = None THEN p ELSE vapid
  /\ ensure' = [ensure EXCEPT ![p] = "reread"]
  /\ UNCHANGED <<targetVars, turns, fire, sent, subs, gone, cached, strayed>>

\* Mutant: the key that was generated is the one that is used.
EnsureOwn(p) ==
  /\ ensure[p] = "reread"
  /\ ensure' = [ensure EXCEPT ![p] = "idle"]
  /\ cached' = [cached EXCEPT ![p] = p]
  /\ UNCHANGED <<targetVars, turns, fire, sent, subs, gone, vapid, strayed>>

\* The key is read back; if that fails, which is ignored, its own is cached.
EnsureReread(p) ==
  /\ ensure[p] = "reread"
  /\ ensure' = [ensure EXCEPT ![p] = "idle"]
  /\ \/ cached' = [cached EXCEPT ![p] = vapid] /\ UNCHANGED <<turns, strayed>>
     \/ Turn /\ cached' = [cached EXCEPT ![p] = p] /\ strayed' = strayed \cup {p}
  /\ UNCHANGED <<targetVars, fire, sent, subs, gone, vapid>>

\* A browser subscribes with the key that a replica told it; an endpoint has one row.
Subscribe(e, p, asked) ==
  /\ e \notin gone /\ cached[p] # None /\ Turn
  /\ subs' = [subs EXCEPT ![e] = [key |-> cached[p], events |-> asked]]
  /\ UNCHANGED <<targetVars, fire, sent, gone, vapid, ensure, cached, strayed>>

\* PATCH: the events alone.
PatchSubscription(e, asked) ==
  /\ subs[e] # None /\ Turn
  /\ subs' = [subs EXCEPT ![e].events = asked]
  /\ UNCHANGED <<targetVars, fire, sent, gone, vapid, ensure, cached, strayed>>

\* DELETE of a subscription, or the browser drops it at its push service.
Unsubscribe(e) ==
  /\ subs[e] # None /\ Turn
  /\ \/ subs' = [subs EXCEPT ![e] = None] /\ UNCHANGED gone
     \/ gone' = gone \cup {e} /\ UNCHANGED subs
  /\ UNCHANGED <<targetVars, fire, sent, vapid, ensure, cached, strayed>>

\* sendPush: the subscriptions that asked for the event, and the key; or a query fails.
ListPush(f) ==
  /\ At(f, "push") /\ cached[1] # None
  /\ \/ /\ fire' = [fire EXCEPT ![f] = [@ EXCEPT !.pc = "pushing",
              !.push = {e \in Endpoints : subs[e] # None /\ fire[f].ev.name \in subs[e].events}]]
        /\ UNCHANGED turns
     \/ Turn /\ Go(f, "over")
  /\ UNCHANGED <<targetVars, sent, pushVars>>

\* Mutant: an endpoint that is gone is waited for.
DeliverPushStuck(f, e) ==
  /\ At(f, "pushing") /\ e \in fire[f].push /\ e \notin gone
  /\ fire' = [fire EXCEPT ![f].push = @ \ {e}]
  /\ subs' = IF e \in gone THEN [subs EXCEPT ![e] = None] ELSE subs
  /\ UNCHANGED <<targetVars, turns, sent, gone, vapid, ensure, cached, strayed>>

\* deliverPush: 404 and 410 delete the endpoint's row.
DeliverPush(f, e) ==
  /\ At(f, "pushing") /\ e \in fire[f].push
  /\ fire' = [fire EXCEPT ![f].push = @ \ {e}]
  /\ subs' = IF e \in gone THEN [subs EXCEPT ![e] = None] ELSE subs
  /\ UNCHANGED <<targetVars, turns, sent, gone, vapid, ensure, cached, strayed>>

PushEnds(f) ==
  /\ At(f, "pushing") /\ fire[f].push = {}
  /\ Go(f, "over")
  /\ UNCHANGED <<targetVars, turns, sent, pushVars>>

\* A replica is started again, with the events that were in it.
Restart(p) ==
  /\ Turn
  /\ ensure' = [ensure EXCEPT ![p] = "idle"] /\ cached' = [cached EXCEPT ![p] = None]
  /\ strayed' = strayed \ {p}
  /\ fire' = IF p = 1 THEN [f \in Fires |-> IF At(f, "none") \/ At(f, "over") THEN fire[f]
                                            ELSE [NoFire EXCEPT !.pc = "lost"]]
             ELSE fire
  /\ UNCHANGED <<targetVars, sent, subs, gone, vapid>>

-----------------------------------------------------------------------------
\* deliverSlack, deliverWebhook: the client has a timeout.  deliverEmail: only the
\* connection has one, and what the server does then is not the control plane's.
Slack(t)   == Targets[t].kind = "slack"
Webhook(t) == Targets[t].kind = "webhook"
Smtp(t)    == Targets[t].kind = "email"

System ==
  \/ \E f \in Fires :
       \/ Enrich(f) \/ ListTargets(f) \/ Waited(f) \/ ListPush(f) \/ PushEnds(f)
       \/ \E t \in Names : Record(f, t) \/ ((Slack(t) \/ Webhook(t)) /\ Deliver(f, t))
       \/ \E e \in Endpoints : DeliverPush(f, e)
  \/ \E r \in Turns : PatchWrite(r)
  \/ \E p \in Replicas : EnsureRead(p) \/ EnsureInsert(p) \/ EnsureReread(p)

Next ==
  \/ System
  \/ \E f \in Fires, t \in Names : Smtp(t) /\ Deliver(f, t)
  \/ \E f \in Fires, ev \in Events : FireFailed(f, ev) \/ FirePush(f, ev)
  \/ \E f \in Fires, t \in Names : FireTest(f, t)
  \/ \E t \in Names, in \in Patches : PatchRead(t, in)
  \/ \E t \in Names : CreateTarget(t) \/ DeleteTarget(t)
  \/ \E e \in Endpoints, p \in Replicas, asked \in Subscribing : Subscribe(e, p, asked)
  \/ \E e \in Endpoints : Unsubscribe(e) \/ \E asked \in Subscribing : PatchSubscription(e, asked)
  \/ \E p \in Replicas : Restart(p)

Spec == Init /\ [][Next]_vars
FairSpec == Spec /\ WF_vars(System)

-----------------------------------------------------------------------------
\* What an operator asked for: the families, jobs if none are named; the outcomes; and
\* every server, or those with its labels.
Asked(t, ev) ==
  /\ \/ ev.family = "job_run" /\ Targets[t].families = {}
     \/ ev.family \in Targets[t].families
  /\ Targets[t].statuses \cap {ev.status} # {} \/ Targets[t].statuses = {}
  /\ Targets[t].scope # "other"

\* Of an event that was told to the browsers, exactly the enabled targets that asked for
\* it have been told before, each once; only when the server's row could not be read
\* are those with a scope left out (FireRunFailed, notifier.go:43; Matches, model.go:109).
Told ==
  \A f \in Fires :
    fire[f].pc \in {"pushing", "over"} /\ fire[f].ev # None =>
      LET asked == {t \in fire[f].enabled : Asked(t, fire[f].ev)}
          had   == {sent[f][i] : i \in DOMAIN sent[f]} IN
      /\ Len(sent[f]) = Cardinality(had)
      /\ had \subseteq asked
      /\ \A t \in asked \ had : ~fire[f].known /\ Targets[t].scope = "server"

\* The secret of a target is the one that was submitted last, whatever forms were sent
\* back with the placeholder; unless a patch wrote over what it had not read
\* (Patch, store.go:116).
SecretKept == \A t \in Names \ mixed : There(t) => row[t].secret = put[t]

\* Every replica signs with the key of the table, and browsers subscribe with it, but
\* for a replica that could not read it back and what it was asked (EnsureVAPID).
KeysAgree == \A p \in Replicas \ strayed : cached[p] \in {None, vapid}

\* No event waits for ever, unless for a mail server that says nothing
\* (FireRunFailed, notifier.go:66; dialSMTP).
Ended(f) ==
  \/ fire[f].pc \in {"none", "over", "lost"}
  \/ fire[f].pc \in {"deliver", "test"} /\ \E t \in fire[f].todo : Smtp(t)
EventsEnd == \A f \in Fires : Ended(f)
==============================================================================
