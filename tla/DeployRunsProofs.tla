--------------------------- MODULE DeployRunsProofs ---------------------------
(***************************************************************************)
(* Proofs about DeployRuns, for any number of requests, deliveries,        *)
(* commits, runs, faults and restarts.                                     *)
(***************************************************************************)
EXTENDS DeployRuns, SequenceTheorems, WellFoundedInduction, TLAPS

RowType   == [trigger : Triggers, status : Active \cup Closed, commit : Commits \cup {Unknown},
              pin : Commits \cup {Unknown}, delivery : Deliveries \cup {"none"}, cause : Nat]
ReqType   == [pc : {"new", "check", "insert", "done"}, trigger : Triggers \cup {"none"},
              delivery : Deliveries \cup {"none"}, commit : Commits \cup {Unknown}]
AgentType == [st : {"none", "sent", "building", "succeeded", "failed", "dead"},
              commit : Commits \cup {Unknown}]
EventType == [run : Ids, kind : {"started"}]
               \cup [run : Ids, kind : {"commit"}, commit : Commits]
               \cup [run : Ids, kind : {"finished"}, status : {"succeeded", "failed"}]
HookType  == [run : Ids, status : {"succeeded", "failed"}, by : {"agent", "sweeper"}]

\* The types; events, hooks and the sweeper speak of rows that exist, and a
\* rollback's cause is an older row.
RunsTyped  == /\ runs \in Seq(RowType)
              /\ Len(runs) <= MaxRuns
              /\ \A i \in 1..Len(runs) : runs[i].cause < i
ReqsTyped  == /\ req \in [Reqs -> ReqType]
              /\ \A q \in Reqs : req[q].pc \in {"check", "insert"}
                                   => req[q].trigger \in {"api", "webhook"}
AgentTyped == /\ agent \in [Ids -> AgentType]
              /\ \A i \in Ids : agent[i].st \in {"building", "succeeded"}
                                  => agent[i].commit \in Commits
CallsTyped == /\ ReqsTyped
              /\ AgentTyped
              /\ start \in [Ids -> {"none", "inserted", "sent", "done"}]
ReportsTyped == /\ events \in Seq(EventType)
                /\ \A k \in 1..Len(events) : events[k].run <= Len(runs)
                /\ hooks \in SUBSET HookType
                /\ \A h \in hooks : h.run <= Len(runs)
                /\ sweep \in 0..Len(runs)
RestTyped == /\ rollback \in BOOLEAN
             /\ health \in Healths
             /\ deliveries \in SUBSET Deliveries
             /\ connected \in BOOLEAN
             /\ head \in Commits
             /\ inputs \in 0..MaxInputs
             /\ proved \in SUBSET Commits

TypeInv == RunsTyped /\ CallsTyped /\ ReportsTyped /\ RestTyped

\* A delivery id that a row or an undecided request carries has been claimed,
\* and nothing else carries it.
Claimed ==
  /\ \A i \in 1..Len(runs) : runs[i].delivery # "none" => runs[i].delivery \in deliveries
  /\ \A q \in Reqs : req[q].delivery # "none" =>
       /\ req[q].delivery \in deliveries
       /\ \A i \in 1..Len(runs) : runs[i].delivery # req[q].delivery
       /\ \A p \in Reqs \ {q} : req[p].delivery # req[q].delivery

\* The agent hears of a run only from its startRun call.
Unsent == \A i \in Ids : (i > Len(runs) \/ start[i] = "inserted") => agent[i].st = "none"

\* Until the agent has a run its row holds the pinned commit; from then on the
\* commit of the deploy, or none yet.
Pinned ==
  \A i \in 1..Len(runs) :
    /\ agent[i].st \in {"none", "sent"} => runs[i].commit = runs[i].pin
    /\ agent[i].st \in {"building", "succeeded"} => runs[i].commit \in {Unknown, agent[i].commit}

\* What an event says is what the agent did.
Truthful ==
  \A k \in 1..Len(events) :
    /\ agent[events[k].run].st \notin {"none", "sent"}
    /\ (events[k].kind = "commit" /\ agent[events[k].run].st \in {"building", "succeeded"}) =>
         events[k].commit = agent[events[k].run].commit
    /\ events[k].kind = "finished" =>
         /\ agent[events[k].run].st # "building"
         /\ events[k].status = "succeeded" => agent[events[k].run].st = "succeeded"

\* A commit that the row does not know yet is on its way, ahead of every
\* report that the deploy finished.
Ordered ==
  \A i \in 1..Len(runs) :
    (agent[i].st \in {"building", "succeeded"} /\ runs[i].commit = Unknown) =>
      \E k \in 1..Len(events) :
        /\ events[k].run = i /\ events[k].kind = "commit"
        /\ \A m \in 1..Len(events) :
             (events[m].run = i /\ events[m].kind = "finished") => k < m

\* The deploy of a commit that succeeded is on record.
Proved == \A i \in Ids : agent[i].st = "succeeded" => agent[i].commit \in proved

\* A rollback names the row that caused it.
Caused == \A i \in 1..Len(runs) : runs[i].trigger = "rollback" => runs[i].cause # 0

AgentInv == Unsent /\ Pinned /\ Truthful /\ Ordered /\ Proved /\ SucceededIsTrue
DeployInv == TypeInv /\ Claimed /\ DeliveryOnce /\ AgentInv /\ Caused /\ RollbackWarranted

-----------------------------------------------------------------------------
(***************************************************************************)
(* Lemmas about the operators.                                             *)
(***************************************************************************)
\* The newest run of a set of runs is one of them: Max picks an element.
LEMMA MaxIsMember ==
  ASSUME NEW n \in Nat, NEW S \in SUBSET (1..n), S # {}
  PROVE  Max(S) \in S
<1> DEFINE R == OpToRel(<, Nat)
           T == { n - x : x \in S }
<1>1. T \subseteq Nat /\ T # {}
  <2>1. \A x \in S : n - x \in Nat
    OBVIOUS
  <2>2. PICK x \in S : TRUE
    OBVIOUS
  <2>3. n - x \in T
    OBVIOUS
  <2> QED BY <2>1, <2>3
<1>2. PICK t \in T : \A u \in T : ~(<<u, t>> \in R)
  <2> HIDE DEF R, T
  <2>1. IsWellFoundedOn(R, Nat)
    BY NatLessThanWellFounded DEF R
  <2> QED BY <1>1, <2>1, WFMin
<1>3. \A u \in T : ~(u < t)
  BY <1>1, <1>2 DEF OpToRel
<1>4. PICK x \in S : t = n - x
  BY <1>2
<1>5. \A y \in S : x >= y
  BY <1>3, <1>4
<1> QED BY <1>4, <1>5 DEF Max

\* MarkRun changes the status of one row.
LEMMA MarkRunRows ==
  ASSUME NEW r \in 1..Len(runs), NEW s \in Active \cup Closed, RunsTyped, MarkRun(r, s)
  PROVE  /\ RunsTyped' /\ Len(runs') = Len(runs)
         /\ \A j \in 1..Len(runs) :
              /\ runs'[j].status = (IF j = r THEN s ELSE runs[j].status)
              /\ runs'[j].trigger = runs[j].trigger /\ runs'[j].commit = runs[j].commit
              /\ runs'[j].pin = runs[j].pin /\ runs'[j].delivery = runs[j].delivery
              /\ runs'[j].cause = runs[j].cause
<1> DEFINE row == [runs[r] EXCEPT !.status = s]
<1>1. runs \in Seq(RowType) /\ runs[r] \in RowType
  BY ElementOfSeq DEF RunsTyped
<1>2. row \in RowType
  BY <1>1 DEF RowType
<1>3. runs' = [runs EXCEPT ![r] = row]
  BY DEF MarkRun
<1>4. /\ runs' \in Seq(RowType) /\ Len(runs') = Len(runs)
      /\ \A j \in 1..Len(runs) : runs'[j] = IF j = r THEN row ELSE runs[j]
  <2> HIDE DEF row
  <2> QED BY <1>1, <1>2, <1>3, ExceptSeq
<1>5. \A j \in 1..Len(runs) : runs[j] \in RowType
  BY <1>1, ElementOfSeq
<1> HIDE DEF row
<1>6. /\ row.status = s /\ row.trigger = runs[r].trigger /\ row.commit = runs[r].commit
      /\ row.pin = runs[r].pin /\ row.delivery = runs[r].delivery /\ row.cause = runs[r].cause
  BY <1>1 DEF row, RowType
<1> QED BY <1>4, <1>6 DEF RunsTyped

\* InsertRun adds one row at the end.
LEMMA InsertRunRows ==
  ASSUME NEW row \in RowType, row.cause <= Len(runs), RunsTyped, InsertRun(row)
  PROVE  /\ RunsTyped' /\ Len(runs') = Len(runs) + 1 /\ Len(runs') \in Ids
         /\ \A j \in 1..Len(runs) : runs'[j] = runs[j]
         /\ runs'[Len(runs')] = row
<1>1. runs \in Seq(RowType) /\ runs' = Append(runs, row) /\ Len(runs) < MaxRuns
  BY DEF RunsTyped, InsertRun
<1>2. /\ runs' \in Seq(RowType) /\ Len(runs') = Len(runs) + 1
      /\ \A j \in 1..Len(runs) : runs'[j] = runs[j]
      /\ runs'[Len(runs) + 1] = row
  BY <1>1, AppendProperties
<1>3. Len(runs) \in Nat
  BY <1>1, LenProperties
<1> QED BY <1>1, <1>2, <1>3, DeployAssumption DEF RunsTyped, Ids, RowType

\* A commit event fills a commit that the row does not know.
LEMMA CommitRows ==
  ASSUME NEW r \in 1..Len(runs), NEW c \in Commits, RunsTyped,
         runs' = [runs EXCEPT ![r].commit = IF @ = Unknown THEN c ELSE @]
  PROVE  /\ RunsTyped' /\ Len(runs') = Len(runs)
         /\ \A j \in 1..Len(runs) :
              /\ runs'[j].commit = (IF j = r /\ runs[r].commit = Unknown THEN c
                                    ELSE runs[j].commit)
              /\ runs'[j].trigger = runs[j].trigger /\ runs'[j].status = runs[j].status
              /\ runs'[j].pin = runs[j].pin /\ runs'[j].delivery = runs[j].delivery
              /\ runs'[j].cause = runs[j].cause
<1> DEFINE row == [runs[r] EXCEPT !.commit = IF @ = Unknown THEN c ELSE @]
<1>1. runs \in Seq(RowType) /\ runs[r] \in RowType
  BY ElementOfSeq DEF RunsTyped
<1>2. row \in RowType
  BY <1>1 DEF RowType
<1>3. runs' = [runs EXCEPT ![r] = row]
  OBVIOUS
<1>4. /\ runs' \in Seq(RowType) /\ Len(runs') = Len(runs)
      /\ \A j \in 1..Len(runs) : runs'[j] = IF j = r THEN row ELSE runs[j]
  <2> HIDE DEF row
  <2> QED BY <1>1, <1>2, <1>3, ExceptSeq, SMTT(30)
<1> HIDE DEF row
<1>5. /\ row.commit = (IF runs[r].commit = Unknown THEN c ELSE runs[r].commit)
      /\ row.trigger = runs[r].trigger /\ row.status = runs[r].status
      /\ row.pin = runs[r].pin /\ row.delivery = runs[r].delivery /\ row.cause = runs[r].cause
  BY <1>1 DEF row, RowType
<1> QED BY <1>4, <1>5 DEF RunsTyped

\* The commit that a rollback returns to is that of a run that succeeded.
LEMMA GoodCommit ==
  ASSUME RunsTyped, NEW h, DeployRunFinished(h)
  PROVE  \/ UNCHANGED <<runs, start>>
         \/ \E i \in 1..Len(runs) :
              /\ runs[i].status = "succeeded" /\ runs[i].commit \in Commits
              /\ MayRollBack(h)
              /\ InsertRun(Row("rollback", runs[i].commit, "none", h.run))
<1>1. /\ runs \in Seq(RowType) /\ Len(runs) \in Nat /\ DOMAIN runs = 1..Len(runs)
      /\ \A i \in 1..Len(runs) : runs[i] \in RowType
  BY LenProperties, ElementOfSeq DEF RunsTyped
<1> SUFFICES ASSUME ~UNCHANGED <<runs, start>>
             PROVE  \E i \in 1..Len(runs) :
                      /\ runs[i].status = "succeeded" /\ runs[i].commit \in Commits
                      /\ MayRollBack(h)
                      /\ InsertRun(Row("rollback", runs[i].commit, "none", h.run))
  OBVIOUS
<1>2. Succeeded # {} /\ MayRollBack(h)
      /\ InsertRun(Row("rollback", runs[Max(Succeeded)].commit, "none", h.run))
  BY DEF DeployRunFinished
<1>3. Succeeded \in SUBSET (1..Len(runs))
  BY <1>1 DEF Succeeded
<1>4. Max(Succeeded) \in Succeeded
  BY <1>1, <1>2, <1>3, MaxIsMember
<1>5. runs[Max(Succeeded)].status = "succeeded" /\ runs[Max(Succeeded)].commit \in Commits
  BY <1>1, <1>3, <1>4 DEF Succeeded, RowType
<1> QED BY <1>2, <1>3, <1>4, <1>5

\* The row that startRun inserts.
LEMMA RowTyped ==
  ASSUME NEW t \in Triggers, NEW c \in Commits \cup {Unknown},
         NEW d \in Deliveries \cup {"none"}, NEW k \in Nat
  PROVE  Row(t, c, d, k) \in RowType
BY DEF Row, RowType, Active

\* What a handler's next state may be.
LEMMA HandledTyped ==
  ASSUME NEW q \in Reqs, NEW pc \in {"check", "insert", "done"},
         NEW t \in Triggers \cup {"none"}, NEW d \in Deliveries \cup {"none"},
         NEW c \in Commits \cup {Unknown},
         pc = "done" \/ t \in {"api", "webhook"}, ReqsTyped, Handled(q, pc, t, d, c)
  PROVE  /\ ReqsTyped'
         /\ \A p \in Reqs \ {q} : req'[p] = req[p]
         /\ req'[q].delivery \in {"none", d}
<1> DEFINE new == IF pc = "done" THEN Done
                  ELSE [pc |-> pc, trigger |-> t, delivery |-> d, commit |-> c]
<1>1. /\ new \in ReqType /\ new.delivery \in {"none", d}
      /\ new.pc \in {"check", "insert"} => new.trigger \in {"api", "webhook"}
  BY DEF Done, NewReq, ReqType
<1>2. req' = [req EXCEPT ![q] = new]
  BY DEF Handled
<1> HIDE DEF ReqType, new
<1>3. /\ req' \in [Reqs -> ReqType] /\ req'[q] = new
      /\ \A p \in Reqs \ {q} : req'[p] = req[p]
  BY <1>1, <1>2 DEF ReqsTyped
<1> QED BY <1>1, <1>3 DEF ReqsTyped

\* The agent's events are typed, and are added at the end of the queue.
LEMMA EmitTyped ==
  ASSUME NEW es \in Seq(EventType), ReportsTyped, Emit(es),
         \A k \in 1..Len(es) : es[k].run <= Len(runs)
  PROVE  /\ events' \in Seq(EventType) /\ Len(events') = Len(events) + Len(es)
         /\ Len(events) \in Nat /\ Len(es) \in Nat
         /\ \A k \in 1..Len(events) : events'[k] = events[k]
         /\ \A k \in 1..Len(es) : events'[Len(events) + k] = es[k]
         /\ \A k \in 1..Len(events') : events'[k].run <= Len(runs)
<1>1. events \in Seq(EventType) /\ events' = events \o es
  BY DEF ReportsTyped, Emit
<1>2. Len(events) \in Nat /\ Len(es) \in Nat
  BY <1>1, LenProperties
<1>3. /\ events' \in Seq(EventType) /\ Len(events') = Len(events) + Len(es)
      /\ \A k \in 1..Len(events) + Len(es) :
           events'[k] = IF k <= Len(events) THEN events[k] ELSE es[k - Len(events)]
  BY <1>1, ConcatProperties
<1>4. \A k \in 1..Len(es) : events'[Len(events) + k] = es[k]
  BY <1>2, <1>3, SMTT(30)
<1>5. \A k \in 1..Len(events) : events'[k] = events[k]
  BY <1>2, <1>3
<1>6. ASSUME NEW k \in 1..Len(events') PROVE events'[k].run <= Len(runs)
  <2>1. CASE k <= Len(events)
    BY <1>2, <1>5, <2>1 DEF ReportsTyped
  <2>2. CASE k > Len(events)
    <3>1. k - Len(events) \in 1..Len(es)
      BY <1>2, <1>3, <2>2
    <3>2. events'[k] = es[k - Len(events)]
      BY <1>2, <1>3, <2>2
    <3> QED BY <3>1, <3>2
  <2> QED BY <1>2, <1>3, <2>1, <2>2
<1> HIDE DEF EventType
<1> QED BY <1>2, <1>3, <1>4, <1>5, <1>6

\* The three kinds of events.
LEMMA EventsTyped ==
  ASSUME NEW r \in Ids
  PROVE  /\ Started(r) \in EventType
         /\ \A c \in Commits : Commit(r, c) \in EventType
         /\ \A s \in {"succeeded", "failed"} : Finished(r, s) \in EventType
BY DEF Started, Commit, Finished, EventType

\* The gateway takes the head of the queue; the others move up by one.
LEMMA TakeTyped ==
  ASSUME ReportsTyped, RunsTyped, events # << >>
  PROVE  /\ Head(events) = events[1] /\ Head(events) \in EventType
         /\ Head(events).run \in 1..Len(runs)
         /\ Tail(events) \in Seq(EventType) /\ Len(events) \in Nat \ {0}
         /\ Len(Tail(events)) = Len(events) - 1
         /\ \A k \in 1..Len(events) - 1 : Tail(events)[k] = events[k + 1]
         /\ \A k \in 1..Len(events) - 1 : Tail(events)[k].run <= Len(runs)
<1>1. events \in Seq(EventType)
  BY DEF ReportsTyped
<1>2. /\ Head(events) \in EventType /\ Tail(events) \in Seq(EventType)
      /\ Len(Tail(events)) = Len(events) - 1
      /\ \A k \in 1..Len(Tail(events)) : Tail(events)[k] = events[k + 1]
  BY <1>1, HeadTailProperties
<1>3. Len(events) \in Nat \ {0}
  BY <1>1, EmptySeq
<1>4. Head(events) = events[1]
  BY <1>1, <1>3
<1>5. Head(events).run \in Ids
  BY <1>2 DEF EventType
<1>6. Len(runs) \in Nat
  BY LenProperties DEF RunsTyped
<1>7. Head(events).run <= Len(runs)
  BY <1>3, <1>4 DEF ReportsTyped
<1>8. Head(events).run \in 1..Len(runs)
  BY <1>5, <1>6, <1>7 DEF Ids
<1>9. \A k \in 1..Len(events) - 1 : events[k + 1].run <= Len(runs)
  BY <1>3 DEF ReportsTyped
<1> HIDE DEF EventType
<1> QED BY <1>2, <1>3, <1>4, <1>8, <1>9

\* A broken stream or a dead agent changes only what the agent does.
LEMMA LostTyped ==
  ASSUME NEW dies \in BOOLEAN, AgentTyped, agent' = Lost(agent, dies)
  PROVE  /\ AgentTyped'
         /\ \A i \in Ids : agent'[i].commit = agent[i].commit
         /\ \A i \in Ids : agent'[i].st = agent[i].st
                            \/ (agent'[i].st = "dead" /\ agent[i].st \in {"sent", "building"})
<1>1. \A i \in Ids : agent'[i] = IF agent[i].st = "sent" \/ (dies /\ agent[i].st = "building")
                                  THEN [agent[i] EXCEPT !.st = "dead"] ELSE agent[i]
  BY DEF Lost
<1>2. \A i \in Ids : [agent[i] EXCEPT !.st = "dead"] \in AgentType
  BY DEF AgentType, AgentTyped
<1>3. \A i \in Ids : agent'[i] \in AgentType
  BY <1>1, <1>2, Zenon DEF AgentTyped
<1>4. agent' = [i \in Ids |-> agent'[i]]
  BY DEF Lost
<1>5. \A i \in Ids : [agent[i] EXCEPT !.st = "dead"].st = "dead"
                      /\ [agent[i] EXCEPT !.st = "dead"].commit = agent[i].commit
  BY DEF AgentType, AgentTyped
<1> HIDE DEF AgentType
<1> QED BY <1>1, <1>3, <1>4, <1>5 DEF AgentTyped

-----------------------------------------------------------------------------
(***************************************************************************)
(* The types.                                                              *)
(***************************************************************************)
\* What speaks of a row still does when rows were added.
LEMMA ReportsStay ==
  ASSUME RunsTyped, RunsTyped', Len(runs) <= Len(runs'), ReportsTyped,
         UNCHANGED <<events, sweep>>, hooks' \in SUBSET hooks
  PROVE  ReportsTyped'
<1>1. Len(runs) \in Nat /\ Len(runs') \in Nat
  BY LenProperties DEF RunsTyped
<1>2. \A k \in 1..Len(events) : events[k].run \in Ids
  BY ElementOfSeq DEF ReportsTyped, EventType
<1>3. \A h \in hooks : h.run \in Ids
  BY DEF ReportsTyped, HookType
<1> HIDE DEF EventType, HookType
<1> QED BY <1>1, <1>2, <1>3 DEF ReportsTyped, Ids

\* Rows are only added and their types kept; so what spoke of a row still does.
LEMMA TypeStep == TypeInv /\ [Next]_vars => TypeInv'
<1> SUFFICES ASSUME TypeInv, [Next]_vars PROVE TypeInv'
  OBVIOUS
<1> USE DeployAssumption DEF TypeInv, tables
<1>n. Len(runs) \in Nat /\ Len(runs) <= MaxRuns /\ MaxRuns \in Nat
  BY LenProperties DEF RunsTyped
<1>i. 1..Len(runs) \subseteq Ids /\ DOMAIN runs = 1..Len(runs)
  BY <1>n, LenProperties DEF Ids, RunsTyped
<1>m. Input => inputs' \in 0..MaxInputs
  BY DEF Input, RestTyped
<1>1. CASE Push
  <2>1. RestTyped'
    BY <1>1 DEF Push, RestTyped, Commits
  <2> QED BY <1>1, <2>1 DEF Push, RunsTyped, CallsTyped, ReqsTyped, AgentTyped, ReportsTyped
<1>2. CASE Connect
  BY <1>2 DEF Connect, RunsTyped, CallsTyped, ReqsTyped, AgentTyped, ReportsTyped, RestTyped
<1>3. CASE Drop \/ AgentDies
  <2>1. AgentTyped'
    BY <1>3, LostTyped DEF Drop, AgentDies, Fault, CallsTyped
  <2>2. inputs' \in 0..MaxInputs
    BY <1>3, <1>m DEF Drop, AgentDies, Fault
  <2> QED BY <1>3, <2>1, <2>2
          DEF Drop, AgentDies, Fault, RunsTyped, CallsTyped, ReqsTyped, AgentTyped, ReportsTyped, RestTyped
<1>4. CASE Restart
  <2>1. AgentTyped'
    BY <1>4, LostTyped DEF Restart, Fault, CallsTyped
  <2>2. inputs' \in 0..MaxInputs
    BY <1>4 DEF Restart, Fault, Input, RestTyped
  <2>3. ReqsTyped'
    <3>1. Done \in ReqType
      BY DEF Done, NewReq, ReqType
    <3>2. Done.pc = "done" /\ Done.trigger = "none"
      BY DEF Done, NewReq
    <3> HIDE DEF ReqType
    <3> QED BY <1>4, <3>1, <3>2 DEF Restart, CallsTyped, ReqsTyped
  <2>4. start' \in [Ids -> {"none", "inserted", "sent", "done"}]
    BY <1>4 DEF Restart, CallsTyped
  <2>5. RestTyped'
    BY <1>4, <2>2 DEF Restart, Fault, RestTyped
  <2>6. RunsTyped' /\ ReportsTyped'
    BY <1>n, <1>4 DEF Restart, RunsTyped, ReportsTyped
  <2> QED BY <2>1, <2>3, <2>4, <2>5, <2>6 DEF CallsTyped
<1>5. ASSUME NEW q \in Reqs, Report(q) PROVE TypeInv'
  <2>1. PICK c \in 1..head : Handled(q, "check", "api", "none", c)
    BY <1>5 DEF Report
  <2>2. c \in Commits
    BY DEF RestTyped, Commits
  <2>3. ReqsTyped'
    BY <2>1, <2>2, HandledTyped DEF CallsTyped, Triggers
  <2>4. inputs' \in 0..MaxInputs
    BY <1>5 DEF Report, Arrives, Input, RestTyped
  <2> QED BY <1>5, <2>3, <2>4 DEF Report, RunsTyped, CallsTyped, ReqsTyped, AgentTyped, ReportsTyped, RestTyped
<1>6. ASSUME NEW q \in Reqs, NEW d \in Deliveries, Claim(q, d) PROVE TypeInv'
  <2> DEFINE pc == IF d \notin deliveries THEN "check" ELSE "done"
  <2>1. PICK c \in 1..head : Handled(q, pc, "webhook", d, c)
    BY <1>6 DEF Claim, ClaimIf
  <2>2. c \in Commits
    BY DEF RestTyped, Commits
  <2>3. ReqsTyped'
    BY <2>1, <2>2, HandledTyped DEF CallsTyped, Triggers
  <2>4. inputs' \in 0..MaxInputs
    BY <1>6 DEF Claim, ClaimIf, Arrives, Input, RestTyped
  <2> QED BY <1>6, <2>3, <2>4
          DEF Claim, ClaimIf, RunsTyped, CallsTyped, ReqsTyped, AgentTyped, ReportsTyped, RestTyped
<1>7. ASSUME NEW q \in Reqs, Check(q) PROVE TypeInv'
  <2>1. req[q] \in ReqType
    BY DEF CallsTyped, ReqsTyped
  <2>2. ReqsTyped'
    <3>1. CASE Handled(q, "done", "none", "none", Unknown)
      BY <3>1, HandledTyped DEF CallsTyped
    <3>2. CASE Handled(q, "insert", req[q].trigger, req[q].delivery, Unknown)
      <4>1. req[q].trigger \in Triggers \cap {"api", "webhook"} /\ req[q].delivery \in Deliveries \cup {"none"}
        BY <1>7, <2>1 DEF Check, ReqType, CallsTyped, ReqsTyped, Triggers
      <4> QED BY <3>2, <4>1, HandledTyped DEF CallsTyped
    <3> QED BY <1>7, <3>1, <3>2 DEF Check
  <2> QED BY <1>7, <2>2 DEF Check, RunsTyped, CallsTyped, ReqsTyped, AgentTyped, ReportsTyped, RestTyped

<1>8. ASSUME NEW row \in RowType, row.cause <= Len(runs), InsertRun(row)
      PROVE  /\ RunsTyped' /\ Len(runs) <= Len(runs')
             /\ start' \in [Ids -> {"none", "inserted", "sent", "done"}]
  <2>1. RunsTyped' /\ Len(runs) <= Len(runs')
    BY <1>n, <1>8, InsertRunRows
  <2> QED BY <1>8, <2>1 DEF InsertRun, CallsTyped
<1>9. ASSUME NEW q \in Reqs, Insert(q) PROVE TypeInv'
  <2>1. req[q] \in ReqType /\ req[q].trigger \in Triggers
    BY <1>9 DEF CallsTyped, ReqsTyped, Insert, Triggers
  <2> DEFINE row == Row(req[q].trigger, Unknown, req[q].delivery, 0)
  <2>2. row \in RowType /\ row.cause = 0
    <3>1. req[q].delivery \in Deliveries \cup {"none"}
      BY <2>1 DEF ReqType
    <3> QED BY <2>1, <3>1, RowTyped DEF Row
  <2>3. InsertRun(row)
    BY <1>9 DEF Insert
  <2> HIDE DEF row
  <2>4. RunsTyped' /\ Len(runs) <= Len(runs')
        /\ start' \in [Ids -> {"none", "inserted", "sent", "done"}]
    BY <1>n, <1>8, <2>2, <2>3
  <2>5. ReqsTyped'
    BY <1>9, HandledTyped DEF Insert, CallsTyped
  <2>6. ReportsTyped'
    BY <1>9, <2>4, ReportsStay DEF Insert
  <2>7. AgentTyped' /\ RestTyped'
    BY <1>9 DEF Insert, CallsTyped, AgentTyped, RestTyped
  <2> QED BY <2>4, <2>5, <2>6, <2>7 DEF CallsTyped
<1>10. ASSUME NEW q \in Reqs, Redeploy(q) PROVE TypeInv'
  <2> DEFINE row == Row("manual", Unknown, "none", 0)
  <2>1. row \in RowType /\ row.cause = 0
    BY RowTyped DEF Row, Triggers
  <2>2. InsertRun(row)
    BY <1>10 DEF Redeploy
  <2> HIDE DEF row
  <2>3. RunsTyped' /\ Len(runs) <= Len(runs')
        /\ start' \in [Ids -> {"none", "inserted", "sent", "done"}]
    BY <1>n, <1>8, <2>1, <2>2
  <2>4. ReqsTyped'
    BY <1>10, HandledTyped DEF Redeploy, CallsTyped
  <2>5. ReportsTyped'
    BY <1>10, <2>3, ReportsStay DEF Redeploy
  <2>6. inputs' \in 0..MaxInputs
    BY <1>10, <1>m DEF Redeploy, Arrives
  <2>7. AgentTyped' /\ RestTyped'
    BY <1>10, <2>6 DEF Redeploy, CallsTyped, AgentTyped, RestTyped
  <2> QED BY <2>3, <2>4, <2>5, <2>7 DEF CallsTyped
<1>11. ASSUME NEW r \in DOMAIN runs, Abandon(r) PROVE TypeInv'
  BY <1>11 DEF Abandon, RunsTyped, CallsTyped, ReqsTyped, AgentTyped, ReportsTyped, RestTyped
<1>12. ASSUME NEW r \in DOMAIN runs, NEW s \in Active \cup Closed, MarkRun(r, s)
       PROVE  RunsTyped' /\ Len(runs') = Len(runs)
  BY <1>i, <1>12, MarkRunRows
<1>13. ASSUME NEW r \in DOMAIN runs, SendDeploy(r) PROVE TypeInv'
  <2>1. RunsTyped' /\ Len(runs') = Len(runs)
    BY <1>12, <1>13 DEF SendDeploy, Closed, RunsTyped
  <2>2. AgentTyped'
    BY <1>i, <1>13, SMTT(30) DEF SendDeploy, CallsTyped, AgentType, AgentTyped
  <2>3. start' \in [Ids -> {"none", "inserted", "sent", "done"}]
    BY <1>13 DEF SendDeploy, CallsTyped
  <2> QED BY <1>13, <2>1, <2>2, <2>3
          DEF SendDeploy, CallsTyped, ReqsTyped, AgentTyped, ReportsTyped, RestTyped
<1>14. ASSUME NEW r \in DOMAIN runs, MarkRunning(r) PROVE TypeInv'
  <2>1. RunsTyped' /\ Len(runs') = Len(runs)
    BY <1>12, <1>14 DEF MarkRunning, Active
  <2> QED BY <1>14, <2>1 DEF MarkRunning, CallsTyped, ReqsTyped, AgentTyped, ReportsTyped, RestTyped
<1>15. ASSUME NEW r \in DOMAIN runs, AgentStart(r) PROVE TypeInv'
  <2> DEFINE c == IF runs[r].pin # Unknown THEN runs[r].pin ELSE head
  <2>1. c \in Commits
    <3>1. runs[r] \in RowType
      BY <1>i, ElementOfSeq DEF RunsTyped
    <3> QED BY <3>1 DEF RowType, RestTyped, Unknown
  <2>2. StartOn(r, c)
    BY <1>15 DEF AgentStart
  <2> HIDE DEF c
  <2>3. AgentTyped'
    BY <1>i, <2>1, <2>2, SMTT(30) DEF StartOn, CallsTyped, AgentType, AgentTyped
  <2>4. PICK es : /\ es \in Seq(EventType) /\ Emit(es)
                  /\ \A k \in 1..Len(es) : es[k].run <= Len(runs)
    <3>1. /\ Started(r) \in EventType /\ Commit(r, c) \in EventType
          /\ Finished(r, "failed") \in EventType
      BY <1>i, <2>1, EventsTyped
    <3>2. \A k \in 1..2 : <<Started(r), Commit(r, c)>>[k].run = r
                          /\ <<Started(r), Finished(r, "failed")>>[k].run = r
      BY DEF Started, Commit, Finished
    <3> HIDE DEF EventType
    <3>3. /\ <<Started(r), Commit(r, c)>> \in Seq(EventType)
          /\ <<Started(r), Finished(r, "failed")>> \in Seq(EventType)
      BY <3>1
    <3>4. r <= Len(runs)
      BY <1>i, <1>n
    <3> QED BY <2>2, <3>2, <3>3, <3>4 DEF StartOn
  <2>5. events' \in Seq(EventType) /\ \A k \in 1..Len(events') : events'[k].run <= Len(runs)
    BY <2>4, EmitTyped
  <2> QED BY <2>2, <2>3, <2>5 DEF StartOn, RunsTyped, CallsTyped, ReqsTyped, AgentTyped, ReportsTyped, RestTyped
<1>16. ASSUME NEW r \in DOMAIN runs, AgentFinish(r) PROVE TypeInv'
  <2>1. PICK s \in {"succeeded", "failed"} :
          /\ agent' = [agent EXCEPT ![r].st = s]
          /\ Emit(<<Finished(r, s)>>)
          /\ proved' = IF s = "succeeded" THEN proved \cup {agent[r].commit} ELSE proved
    BY <1>16 DEF AgentFinish
  <2>2. AgentTyped'
    BY <1>i, <1>16, <2>1 DEF AgentFinish, CallsTyped, AgentTyped, AgentType
  <2>3. r \in Ids /\ agent[r].commit \in Commits
    BY <1>i, <1>16 DEF AgentFinish, CallsTyped, AgentTyped
  <2>4. Finished(r, s) \in EventType /\ Finished(r, s).run = r
    BY <2>3, EventsTyped DEF Finished
  <2>5. events' \in Seq(EventType) /\ \A k \in 1..Len(events') : events'[k].run <= Len(runs)
    <3> DEFINE es == <<Finished(r, s)>>
    <3>1. es \in Seq(EventType) /\ \A k \in 1..Len(es) : es[k].run <= Len(runs)
      <4> HIDE DEF EventType
      <4> QED BY <1>i, <1>n, <2>4
    <3> HIDE DEF es
    <3>2. Emit(es)
      BY <2>1 DEF es
    <3> QED BY <3>1, <3>2, EmitTyped
  <2>6. proved' \in SUBSET Commits
    BY <2>1, <2>3 DEF RestTyped
  <2> QED BY <1>16, <2>2, <2>5, <2>6
          DEF AgentFinish, RunsTyped, CallsTyped, ReqsTyped, ReportsTyped, RestTyped
<1>17. CASE OnDeployEvent
  <2> DEFINE e == Head(events)
  <2>1. /\ e \in EventType /\ e.run \in 1..Len(runs) /\ events' = Tail(events)
        /\ events' \in Seq(EventType)
        /\ \A k \in 1..Len(events') : events'[k].run <= Len(runs)
    BY <1>17, TakeTyped DEF OnDeployEvent
  <2>2. RunsTyped' /\ Len(runs') = Len(runs)
        /\ hooks' \in SUBSET HookType /\ \A h \in hooks' : h.run <= Len(runs)
    <3>1. CASE e.kind = "started" /\ MarkRun(e.run, "running") /\ UNCHANGED hooks
      BY <1>i, <1>12, <2>1, <3>1 DEF Active, ReportsTyped
    <3>2. CASE /\ e.kind = "commit" /\ UNCHANGED hooks
               /\ runs' = [runs EXCEPT ![e.run].commit = IF @ = Unknown THEN e.commit ELSE @]
      <4>1. e.commit \in Commits
        BY <2>1, <3>2 DEF EventType
      <4>2. RunsTyped' /\ Len(runs') = Len(runs)
        BY <2>1, <3>2, <4>1, CommitRows
      <4> QED BY <3>2, <4>2 DEF ReportsTyped
    <3>3. CASE /\ e.kind = "finished" /\ MarkRun(e.run, e.status)
               /\ hooks' = hooks \cup {Hook(e.run, e.status, "agent")}
      <4>1. e.status \in {"succeeded", "failed"} /\ e.run \in Ids
        BY <1>i, <2>1, <3>3 DEF EventType
      <4>2. RunsTyped' /\ Len(runs') = Len(runs)
        BY <1>i, <1>12, <2>1, <3>3, <4>1 DEF Closed
      <4>3. Hook(e.run, e.status, "agent") \in HookType
            /\ Hook(e.run, e.status, "agent").run <= Len(runs)
        BY <1>n, <2>1, <4>1 DEF Hook, HookType
      <4> QED BY <3>3, <4>2, <4>3 DEF ReportsTyped
    <3> QED BY <1>17, <3>1, <3>2, <3>3 DEF OnDeployEvent
  <2> QED BY <1>17, <2>1, <2>2
          DEF OnDeployEvent, CallsTyped, ReqsTyped, AgentTyped, ReportsTyped, RestTyped
<1>18. ASSUME NEW h \in hooks, DeployRunFinished(h) PROVE TypeInv'
  <2>1. h \in HookType /\ h.run \in 1..Len(runs)
    BY <1>n DEF ReportsTyped, HookType, Ids
  <2>2. /\ RunsTyped' /\ Len(runs) <= Len(runs')
        /\ start' \in [Ids -> {"none", "inserted", "sent", "done"}]
    <3>1. CASE UNCHANGED <<runs, start>>
      BY <1>n, <3>1 DEF RunsTyped, CallsTyped
    <3>2. CASE \E good \in Commits : InsertRun(Row("rollback", good, "none", h.run))
      <4>1. PICK good \in Commits : InsertRun(Row("rollback", good, "none", h.run))
        BY <3>2
      <4> DEFINE row == Row("rollback", good, "none", h.run)
      <4>2. row \in RowType /\ row.cause <= Len(runs)
        BY <1>n, <2>1, RowTyped DEF Row, Triggers
      <4> HIDE DEF row
      <4> QED BY <1>8, <4>1, <4>2 DEF row
    <3> QED BY <1>18, <3>1, <3>2, GoodCommit
  <2>3. health' \in Healths
    BY <1>18 DEF DeployRunFinished, HealthAfter, Healths
  <2>4. hooks' \in SUBSET hooks
    BY <1>18 DEF DeployRunFinished
  <2>5. ReportsTyped'
    BY <1>18, <2>2, <2>4, ReportsStay DEF DeployRunFinished
  <2>6. RestTyped'
    BY <1>18, <2>3 DEF DeployRunFinished, RestTyped
  <2>7. ReqsTyped' /\ AgentTyped'
    BY <1>18 DEF DeployRunFinished, CallsTyped, ReqsTyped, AgentTyped
  <2> QED BY <2>2, <2>5, <2>6, <2>7 DEF CallsTyped
<1>19. ASSUME NEW r \in DOMAIN runs, Sweep(r) PROVE TypeInv'
  BY <1>i, <1>n, <1>19
     DEF Sweep, RunsTyped, CallsTyped, ReqsTyped, AgentTyped, ReportsTyped, RestTyped
<1>20. CASE SweepMark
  <2>1. sweep \in 1..Len(runs)
    BY <1>n, <1>20 DEF SweepMark, ReportsTyped
  <2>2. RunsTyped' /\ Len(runs') = Len(runs)
    BY <1>i, <1>12, <1>20, <2>1 DEF SweepMark, Closed
  <2>3. Hook(sweep, "failed", "sweeper") \in HookType
        /\ Hook(sweep, "failed", "sweeper").run <= Len(runs)
    BY <1>i, <1>n, <2>1 DEF Hook, HookType
  <2> QED BY <1>n, <1>20, <2>2, <2>3
          DEF SweepMark, CallsTyped, ReqsTyped, AgentTyped, ReportsTyped, RestTyped
<1>21. CASE UNCHANGED vars
  BY <1>21 DEF vars, RunsTyped, CallsTyped, ReqsTyped, AgentTyped, ReportsTyped, RestTyped
<1> QED
  BY <1>1, <1>2, <1>3, <1>4, <1>5, <1>6, <1>7, <1>9, <1>10, <1>11, <1>13, <1>14, <1>15, <1>16,
     <1>17, <1>18, <1>19, <1>20, <1>21 DEF Next, System

-----------------------------------------------------------------------------
(***************************************************************************)
(* Deliveries.                                                             *)
(***************************************************************************)
\* The rows stay, but for what a status or a commit report changes; one row
\* may be new.
SameRows(n) == /\ Len(runs') = n
               /\ \A j \in 1..Len(runs) :
                    /\ runs'[j].delivery = runs[j].delivery /\ runs'[j].trigger = runs[j].trigger
                    /\ runs'[j].pin = runs[j].pin /\ runs'[j].cause = runs[j].cause

\* What each step does to the rows.
LEMMA RowsStep ==
  ASSUME TypeInv, [Next]_vars
  PROVE  \/ SameRows(Len(runs)) /\ runs' = runs
         \/ SameRows(Len(runs)) /\ req' = req /\ deliveries' = deliveries
         \/ \E q \in Reqs : Insert(q) \/ Redeploy(q)
         \/ \E h \in hooks : DeployRunFinished(h)
<1> USE DEF TypeInv, tables
<1>n. Len(runs) \in Nat /\ DOMAIN runs = 1..Len(runs)
  BY LenProperties DEF RunsTyped
<1>1. CASE runs' = runs
  BY <1>1 DEF SameRows
<1>2. ASSUME NEW r \in 1..Len(runs), NEW s \in Active \cup Closed, MarkRun(r, s)
      PROVE  SameRows(Len(runs))
  BY <1>2, MarkRunRows DEF SameRows
<1>3. ASSUME NEW r \in DOMAIN runs, SendDeploy(r), runs' # runs
      PROVE  SameRows(Len(runs)) /\ req' = req /\ deliveries' = deliveries
  <2>1. MarkRun(r, "agent_offline") /\ "agent_offline" \in Closed
    BY <1>3 DEF SendDeploy, Closed
  <2>2. SameRows(Len(runs))
    BY <1>n, <1>2, <2>1
  <2> QED BY <1>3, <2>2 DEF SendDeploy
<1>4. ASSUME NEW r \in DOMAIN runs, MarkRunning(r)
      PROVE  SameRows(Len(runs)) /\ req' = req /\ deliveries' = deliveries
  <2>1. MarkRun(r, "running") /\ "running" \in Active
    BY <1>4 DEF MarkRunning, Active
  <2>2. SameRows(Len(runs))
    BY <1>n, <1>2, <2>1
  <2> QED BY <1>4, <2>2 DEF MarkRunning
<1>5. ASSUME OnDeployEvent
      PROVE  SameRows(Len(runs)) /\ req' = req /\ deliveries' = deliveries
  <2> DEFINE e == Head(events)
  <2>1. e \in EventType /\ e.run \in 1..Len(runs)
    BY <1>5, TakeTyped DEF OnDeployEvent
  <2>2. ASSUME e.kind = "started", MarkRun(e.run, "running") PROVE SameRows(Len(runs))
    BY <1>2, <2>1, <2>2 DEF Active
  <2>3. ASSUME e.kind = "commit",
               runs' = [runs EXCEPT ![e.run].commit = IF @ = Unknown THEN e.commit ELSE @]
        PROVE  SameRows(Len(runs))
    <3>1. e.commit \in Commits
      BY <2>1, <2>3 DEF EventType
    <3> QED BY <2>1, <2>3, <3>1, CommitRows DEF SameRows
  <2>4. ASSUME e.kind = "finished", MarkRun(e.run, e.status) PROVE SameRows(Len(runs))
    <3>1. e.status \in {"succeeded", "failed"}
      BY <2>1, <2>4 DEF EventType
    <3> QED BY <1>2, <2>1, <2>4, <3>1 DEF Closed
  <2>5. SameRows(Len(runs))
    BY <1>5, <2>2, <2>3, <2>4 DEF OnDeployEvent
  <2> QED BY <1>5, <2>5 DEF OnDeployEvent
<1>6. ASSUME SweepMark
      PROVE  SameRows(Len(runs)) /\ req' = req /\ deliveries' = deliveries
  <2>1. sweep \in 1..Len(runs)
    BY <1>n, <1>6 DEF SweepMark, ReportsTyped
  <2> QED BY <1>2, <1>6, <2>1 DEF SweepMark, Closed
<1>7. CASE Push \/ Connect \/ Drop \/ AgentDies \/ Restart \/ UNCHANGED vars
  BY <1>1, <1>7 DEF Push, Connect, Drop, AgentDies, Restart, vars
<1>8. ASSUME NEW q \in Reqs,
             Report(q) \/ Check(q) \/ (\E d \in Deliveries : Claim(q, d))
      PROVE  runs' = runs
  BY <1>8 DEF Report, Check, Claim, ClaimIf
<1>9. ASSUME NEW r \in DOMAIN runs,
             Abandon(r) \/ AgentStart(r) \/ AgentFinish(r) \/ Sweep(r)
      PROVE  runs' = runs
  BY <1>9 DEF Abandon, AgentStart, StartOn, AgentFinish, Sweep
<1> QED
  BY <1>1, <1>3, <1>4, <1>5, <1>6, <1>7, <1>8, <1>9 DEF Next, System

\* A row or a request with a delivery id is the only one with it, step by step.
LEMMA ClaimStep ==
  TypeInv /\ Claimed /\ DeliveryOnce /\ [Next]_vars => Claimed' /\ DeliveryOnce'
<1> SUFFICES ASSUME TypeInv, Claimed, DeliveryOnce, [Next]_vars
             PROVE  Claimed' /\ DeliveryOnce'
  OBVIOUS
<1> USE DEF tables
<1>t. TypeInv'
  BY TypeStep
<1>n. /\ Len(runs) \in Nat /\ DOMAIN runs = 1..Len(runs)
      /\ Len(runs') \in Nat /\ DOMAIN runs' = 1..Len(runs')
  BY <1>t, LenProperties DEF RunsTyped, TypeInv
<1>d. \A i, k \in 1..Len(runs) :
        (i # k /\ runs[i].delivery # "none") => runs[i].delivery # runs[k].delivery
  BY <1>n DEF DeliveryOnce
<1>e. ReqsTyped
  BY DEF TypeInv, CallsTyped
<1>1. CASE SameRows(Len(runs)) /\ req' = req /\ deliveries' = deliveries
  BY <1>n, <1>d, <1>1 DEF SameRows, Claimed, DeliveryOnce
<1>2. CASE runs' = runs
  <2>1. DeliveryOnce'
    BY <1>n, <1>d, <1>2 DEF DeliveryOnce
  <2>2. CASE req' = req /\ deliveries' = deliveries
    BY <1>2, <2>1, <2>2 DEF Claimed
  <2>3. ASSUME NEW q \in Reqs, Report(q) \/ Check(q) \/ (\E d \in Deliveries : Claim(q, d))
        PROVE  Claimed'
    <3>1. CASE Report(q)
      <4>1. PICK c \in 1..head : Handled(q, "check", "api", "none", c)
        BY <3>1 DEF Report
      <4>2. c \in Commits
        BY DeployAssumption DEF TypeInv, RestTyped, Commits
      <4>3. (\A p \in Reqs \ {q} : req'[p] = req[p]) /\ req'[q].delivery = "none"
        BY <1>e, <4>1, <4>2, HandledTyped DEF Triggers
      <4>4. deliveries' = deliveries
        BY <3>1 DEF Report
      <4> QED BY <1>2, <4>3, <4>4 DEF Claimed
    <3>2. CASE Check(q)
      <4>1. req[q] \in ReqType /\ req[q].trigger \in Triggers \cap {"api", "webhook"}
        BY <1>e, <3>2 DEF Check, ReqsTyped, Triggers
      <4>2. req[q].delivery \in Deliveries \cup {"none"}
        BY <4>1 DEF ReqType
      <4>3. (\A p \in Reqs \ {q} : req'[p] = req[p])
            /\ req'[q].delivery \in {"none", req[q].delivery}
        <5>1. CASE Handled(q, "done", "none", "none", Unknown)
          BY <1>e, <5>1, HandledTyped
        <5>2. CASE Handled(q, "insert", req[q].trigger, req[q].delivery, Unknown)
          BY <1>e, <4>1, <4>2, <5>2, HandledTyped
        <5> QED BY <3>2, <5>1, <5>2 DEF Check
      <4>4. deliveries' = deliveries
        BY <3>2 DEF Check
      <4> QED BY <1>2, <4>3, <4>4 DEF Claimed
    <3>3. ASSUME NEW d \in Deliveries, Claim(q, d) PROVE Claimed'
      <4> DEFINE pc == IF d \notin deliveries THEN "check" ELSE "done"
      <4>1. PICK c \in 1..head : Handled(q, pc, "webhook", d, c)
        BY <3>3 DEF Claim, ClaimIf
      <4>2. c \in Commits
        BY DeployAssumption DEF TypeInv, RestTyped, Commits
      <4>3. (\A p \in Reqs \ {q} : req'[p] = req[p]) /\ req'[q].delivery \in {"none", d}
        BY <1>e, <4>1, <4>2, HandledTyped DEF Triggers
      <4>4. deliveries' = deliveries \cup {d}
        BY <3>3 DEF Claim, ClaimIf
      <4>5. d \in deliveries => req'[q].delivery = "none"
        BY <1>e, <4>1 DEF Handled, Done, NewReq, ReqsTyped
      <4>6. CASE req'[q].delivery = "none"
        BY <1>2, <4>3, <4>4, <4>6 DEF Claimed
      <4>7. CASE req'[q].delivery = d /\ d \notin deliveries
        BY <1>2, <4>3, <4>4, <4>7 DEF Claimed
      <4> QED BY <4>3, <4>5, <4>6, <4>7
    <3> QED BY <2>3, <3>1, <3>2, <3>3
  <2>4. CASE Restart
    <3>1. deliveries' = deliveries /\ \A q \in Reqs : req'[q].delivery \in {"none", req[q].delivery}
      BY <1>e, <2>4 DEF Restart, Done, NewReq, ReqsTyped
    <3> QED BY <1>2, <2>1, <3>1 DEF Claimed
  <2>5. ASSUME ~(req' = req /\ deliveries' = deliveries)
        PROVE  \/ Restart
               \/ \E q \in Reqs : \/ Report(q) \/ Check(q)
                                  \/ \E d \in Deliveries : Claim(q, d)
               \/ \E q \in Reqs : Insert(q) \/ Redeploy(q)
    BY <2>5 DEF Next, System, vars, Push, Connect, Drop, AgentDies, Abandon, SendDeploy, MarkRunning,
       AgentStart, StartOn, AgentFinish, Sweep, OnDeployEvent, SweepMark, DeployRunFinished
  <2>6. ~\E q \in Reqs : Insert(q) \/ Redeploy(q)
    <3>1. ASSUME NEW q \in Reqs, Insert(q) \/ Redeploy(q) PROVE FALSE
      <4>1. PICK row : runs' = Append(runs, row)
        BY <3>1 DEF Insert, Redeploy, InsertRun
      <4>2. Len(Append(runs, row)) = Len(runs) + 1
        OBVIOUS
      <4> QED BY <1>2, <1>n, <4>1, <4>2
    <3> QED BY <3>1
  <2> QED BY <2>1, <2>2, <2>3, <2>4, <2>5, <2>6
<1>3. ASSUME NEW q \in Reqs, Insert(q) PROVE Claimed' /\ DeliveryOnce'
  <2>1. req[q] \in ReqType /\ req[q].trigger \in Triggers
    BY <1>e, <1>3 DEF ReqsTyped, Insert, Triggers
  <2> DEFINE row == Row(req[q].trigger, Unknown, req[q].delivery, 0)
  <2>2. row \in RowType /\ row.cause = 0 /\ row.delivery = req[q].delivery
    <3>1. req[q].delivery \in Deliveries \cup {"none"}
      BY <2>1 DEF ReqType
    <3> QED BY <2>1, <3>1, RowTyped DEF Row
  <2>3. InsertRun(row)
    BY <1>3 DEF Insert
  <2> HIDE DEF row
  <2>4. /\ Len(runs') = Len(runs) + 1 /\ runs'[Len(runs) + 1] = row
        /\ \A j \in 1..Len(runs) : runs'[j] = runs[j]
    <3>1. RunsTyped
      BY DEF TypeInv
    <3>2. row.cause <= Len(runs)
      BY <1>n, <2>2
    <3>3. /\ Len(runs') = Len(runs) + 1 /\ runs'[Len(runs')] = row
          /\ \A j \in 1..Len(runs) : runs'[j] = runs[j]
      BY <2>2, <2>3, <3>1, <3>2, InsertRunRows
    <3> QED BY <3>3
  <2>5. (\A p \in Reqs \ {q} : req'[p] = req[p]) /\ req'[q].delivery = "none"
    BY <1>e, <1>3, HandledTyped DEF Insert
  <2>6. deliveries' = deliveries
    BY <1>3 DEF Insert
  <2>7. DeliveryOnce'
    BY <1>n, <1>d, <2>2, <2>4 DEF DeliveryOnce, Claimed
  <2>8. Claimed'
    BY <1>n, <2>2, <2>4, <2>5, <2>6 DEF Claimed
  <2> QED BY <2>7, <2>8
<1>4. ASSUME NEW row \in RowType, row.cause <= Len(runs), row.delivery = "none", InsertRun(row),
             deliveries' = deliveries,
             \A p \in Reqs : req'[p].delivery \in {"none", req[p].delivery}
      PROVE  Claimed' /\ DeliveryOnce'
  <2>1. /\ Len(runs') = Len(runs) + 1 /\ runs'[Len(runs) + 1] = row
        /\ \A j \in 1..Len(runs) : runs'[j] = runs[j]
    <3>1. RunsTyped
      BY DEF TypeInv
    <3>2. /\ Len(runs') = Len(runs) + 1 /\ runs'[Len(runs')] = row
          /\ \A j \in 1..Len(runs) : runs'[j] = runs[j]
      BY <1>4, <3>1, InsertRunRows
    <3> QED BY <3>2
  <2>2. DeliveryOnce'
    BY <1>n, <1>d, <1>4, <2>1 DEF DeliveryOnce
  <2>3. Claimed'
    BY <1>n, <1>4, <2>1 DEF Claimed
  <2> QED BY <2>2, <2>3
<1>5. ASSUME NEW q \in Reqs, Redeploy(q) PROVE Claimed' /\ DeliveryOnce'
  <2> DEFINE row == Row("manual", Unknown, "none", 0)
  <2>1. row \in RowType /\ row.cause = 0 /\ row.delivery = "none"
    BY RowTyped DEF Row, Triggers
  <2>2. InsertRun(row) /\ deliveries' = deliveries
    BY <1>5 DEF Redeploy
  <2> HIDE DEF row
  <2>3. (\A p \in Reqs \ {q} : req'[p] = req[p]) /\ req'[q].delivery = "none"
    BY <1>e, <1>5, HandledTyped DEF Redeploy
  <2> QED BY <1>n, <1>4, <2>1, <2>2, <2>3
<1>6. ASSUME NEW h \in hooks, DeployRunFinished(h) PROVE Claimed' /\ DeliveryOnce'
  <2>1. h.run \in 1..Len(runs) /\ req' = req /\ deliveries' = deliveries
    BY <1>n, <1>6 DEF TypeInv, ReportsTyped, HookType, Ids, DeployRunFinished
  <2>2. CASE runs' = runs
    BY <1>1, <2>1, <2>2 DEF SameRows
  <2>3. ASSUME NEW good \in Commits, InsertRun(Row("rollback", good, "none", h.run))
        PROVE  Claimed' /\ DeliveryOnce'
    <3> DEFINE row == Row("rollback", good, "none", h.run)
    <3>1. row \in RowType /\ row.cause <= Len(runs) /\ row.delivery = "none"
      BY <1>n, <2>1, RowTyped DEF Row, Triggers
    <3>2. InsertRun(row)
      BY <2>3
    <3> HIDE DEF row
    <3> QED BY <1>4, <2>1, <3>1, <3>2
  <2> QED BY <1>6, <2>2, <2>3, GoodCommit DEF TypeInv
<1> QED BY <1>1, <1>2, <1>3, <1>5, <1>6, RowsStep

-----------------------------------------------------------------------------
(***************************************************************************)
(* What the agent did and what the rows say of it.                         *)
(***************************************************************************)
\* The rows keep what they say, the reports and the agent stay, and no
\* startRun call is new.
Quiet == /\ runs' = runs /\ agent' = agent /\ events' = events /\ proved' = proved
         /\ \A i \in Ids : start'[i] = "inserted" => start[i] = "inserted"

LEMMA QuietStep == AgentInv /\ Quiet => AgentInv'
BY DEF AgentInv, Quiet, Unsent, Pinned, Truthful, Ordered, Proved, SucceededIsTrue

\* A deploy that is lost or dies makes no claim any more.
LEMMA LostStep ==
  ASSUME TypeInv, AgentInv, NEW dies \in BOOLEAN, agent' = Lost(agent, dies),
         UNCHANGED <<runs, events, proved>>,
         \A i \in Ids : start'[i] = "inserted" => start[i] = "inserted"
  PROVE  AgentInv'
<1>1. /\ \A i \in Ids : agent'[i].commit = agent[i].commit
      /\ \A i \in Ids : agent'[i].st = agent[i].st
                         \/ (agent'[i].st = "dead" /\ agent[i].st \in {"sent", "building"})
  BY LostTyped DEF TypeInv, CallsTyped
<1>2. Len(runs) \in Nat /\ DOMAIN runs = 1..Len(runs) /\ 1..Len(runs) \subseteq Ids
  BY LenProperties, DeployAssumption DEF TypeInv, RunsTyped, Ids
<1>3. \A k \in 1..Len(events) : events[k].run \in Ids
  BY ElementOfSeq DEF TypeInv, ReportsTyped, EventType
<1>4. Unsent' /\ Proved'
  BY <1>1 DEF AgentInv, Unsent, Proved
<1>5. Pinned'
  BY <1>1, <1>2 DEF AgentInv, Pinned
<1>6. Truthful'
  BY <1>1, <1>3 DEF AgentInv, Truthful
<1>7. Ordered'
  BY <1>1, <1>2 DEF AgentInv, Ordered
<1>8. SucceededIsTrue'
  BY <1>1, <1>2 DEF AgentInv, SucceededIsTrue
<1> QED BY <1>4, <1>5, <1>6, <1>7, <1>8 DEF AgentInv

\* A new row has its pin and nothing else to claim.
LEMMA InsertStep ==
  ASSUME TypeInv, AgentInv, NEW row \in RowType, row.cause <= Len(runs), InsertRun(row),
         row.status = "pending", row.commit = row.pin, UNCHANGED <<agent, events, proved>>
  PROVE  AgentInv'
<1>1. Len(runs) \in Nat /\ DOMAIN runs = 1..Len(runs)
  BY LenProperties DEF TypeInv, RunsTyped
<1>2. /\ RunsTyped' /\ Len(runs') = Len(runs) + 1 /\ Len(runs') \in Ids
      /\ \A j \in 1..Len(runs) : runs'[j] = runs[j]
      /\ runs'[Len(runs')] = row
  BY InsertRunRows DEF TypeInv
<1>3. DOMAIN runs' = 1..Len(runs')
  BY <1>2, LenProperties DEF RunsTyped
<1>4. agent[Len(runs')].st = "none"
  BY <1>1, <1>2 DEF AgentInv, Unsent, Ids
<1>5. Unsent'
  <2>1. ASSUME NEW i \in Ids, i > Len(runs') \/ start'[i] = "inserted" PROVE agent[i].st = "none"
    <3>1. i = Len(runs') \/ start'[i] = start[i]
      BY <1>2 DEF InsertRun, TypeInv, CallsTyped
    <3> QED BY <1>1, <1>2, <1>4, <2>1, <3>1 DEF AgentInv, Unsent, Ids
  <2> QED BY <2>1 DEF Unsent
<1>6. \A j \in 1..Len(runs') : j \in 1..Len(runs) \/ j = Len(runs')
  BY <1>1, <1>2
<1>7. Pinned'
  BY <1>2, <1>4, <1>6 DEF AgentInv, Pinned
<1>8. Truthful' /\ Proved'
  BY DEF AgentInv, Truthful, Proved
<1>9. Ordered'
  BY <1>2, <1>4, <1>6, SMTT(30) DEF AgentInv, Ordered
<1>10. SucceededIsTrue'
  BY <1>1, <1>2, <1>3, <1>6 DEF AgentInv, SucceededIsTrue
<1> QED BY <1>5, <1>7, <1>8, <1>9, <1>10 DEF AgentInv

\* A status other than succeeded claims nothing.
LEMMA MarkStep ==
  ASSUME TypeInv, AgentInv, NEW r \in 1..Len(runs), NEW s \in Active \cup Closed, s # "succeeded",
         MarkRun(r, s), UNCHANGED <<agent, events, proved>>,
         \A i \in Ids : start'[i] = "inserted" => start[i] = "inserted"
  PROVE  AgentInv'
<1>1. /\ Len(runs) \in Nat /\ DOMAIN runs = 1..Len(runs)
  BY LenProperties DEF TypeInv, RunsTyped
<1>2. /\ RunsTyped' /\ Len(runs') = Len(runs)
      /\ \A j \in 1..Len(runs) :
           /\ runs'[j].status = (IF j = r THEN s ELSE runs[j].status)
           /\ runs'[j].commit = runs[j].commit /\ runs'[j].pin = runs[j].pin
  BY MarkRunRows DEF TypeInv
<1>3. DOMAIN runs' = 1..Len(runs)
  BY <1>2, LenProperties DEF RunsTyped
<1>4. Unsent' /\ Proved' /\ Truthful'
  BY <1>2 DEF AgentInv, Unsent, Proved, Truthful
<1>5. Pinned' /\ Ordered'
  BY <1>2 DEF AgentInv, Pinned, Ordered
<1>6. SucceededIsTrue'
  BY <1>1, <1>2, <1>3 DEF AgentInv, SucceededIsTrue
<1> QED BY <1>4, <1>5, <1>6 DEF AgentInv

\* The agent gets a run whose row holds its pin.
LEMMA SendStep ==
  ASSUME TypeInv, AgentInv, NEW r \in 1..Len(runs), SendDeploy(r)
  PROVE  AgentInv'
<1>1. /\ Len(runs) \in Nat /\ DOMAIN runs = 1..Len(runs) /\ r \in Ids /\ 1..Len(runs) \subseteq Ids
  BY LenProperties, DeployAssumption DEF TypeInv, RunsTyped, Ids
<1>2. start \in [Ids -> {"none", "inserted", "sent", "done"}] /\ agent \in [Ids -> AgentType]
  BY DEF TypeInv, CallsTyped, AgentTyped
<1>3. CASE connected
  <2>1. /\ agent' = [agent EXCEPT ![r].st = "sent"] /\ start' = [start EXCEPT ![r] = "sent"]
        /\ start[r] = "inserted" /\ UNCHANGED <<runs, events, proved>>
    BY <1>3 DEF SendDeploy
  <2>2. agent[r].st = "none"
    BY <1>1, <2>1 DEF AgentInv, Unsent
  <2>3. /\ agent'[r].st = "sent"
        /\ \A i \in Ids \ {r} : agent'[i] = agent[i]
    BY <1>1, <1>2, <2>1 DEF AgentType
  <2>4. Unsent'
    BY <1>1, <1>2, <2>1, <2>3 DEF AgentInv, Unsent
  <2>5. Pinned'
    BY <1>1, <2>1, <2>2, <2>3 DEF AgentInv, Pinned
  <2>6. Truthful'
    <3>1. \A k \in 1..Len(events) : events[k].run \in Ids \ {r}
      <4>1. \A k \in 1..Len(events) : events[k].run \in Ids
        BY ElementOfSeq DEF TypeInv, ReportsTyped, EventType
      <4> QED BY <2>2, <4>1 DEF AgentInv, Truthful
    <3> QED BY <2>1, <2>3, <3>1 DEF AgentInv, Truthful
  <2>7. Ordered'
    BY <1>1, <2>1, <2>3 DEF AgentInv, Ordered
  <2>8. Proved'
    BY <2>1, <2>3 DEF AgentInv, Proved
  <2>9. SucceededIsTrue'
    BY <1>1, <2>1, <2>2, <2>3 DEF AgentInv, SucceededIsTrue
  <2> QED BY <2>4, <2>5, <2>6, <2>7, <2>8, <2>9 DEF AgentInv
<1>4. CASE ~connected
  <2>1. MarkRun(r, "agent_offline") /\ UNCHANGED <<agent, events, proved>>
        /\ start' = [start EXCEPT ![r] = "done"]
    BY <1>4 DEF SendDeploy
  <2> QED BY <1>2, <2>1, MarkStep DEF Closed
<1> QED BY <1>3, <1>4

\* The agent starts what was sent, at the pinned commit if there is one; the
\* commit is reported ahead of anything that can follow.
LEMMA StartStep ==
  ASSUME TypeInv, AgentInv, NEW r \in 1..Len(runs), AgentStart(r)
  PROVE  AgentInv'
<1> DEFINE c == IF runs[r].pin # Unknown THEN runs[r].pin ELSE head
<1>1. /\ Len(runs) \in Nat /\ DOMAIN runs = 1..Len(runs) /\ r \in Ids /\ 1..Len(runs) \subseteq Ids
  BY LenProperties, DeployAssumption DEF TypeInv, RunsTyped, Ids
<1>2. c \in Commits /\ runs[r].commit = runs[r].pin /\ runs[r].commit \in {Unknown, c}
  <2>1. runs[r] \in RowType
    BY ElementOfSeq DEF TypeInv, RunsTyped
  <2>2. agent[r].st = "sent"
    BY DEF AgentStart, StartOn
  <2>3. runs[r].commit = runs[r].pin
    BY <2>2 DEF AgentInv, Pinned
  <2> QED BY <2>1, <2>3 DEF RowType, TypeInv, RestTyped, Unknown
<1>3. /\ StartOn(r, c) /\ agent[r].st = "sent"
      /\ UNCHANGED <<runs, start, proved>>
  BY DEF AgentStart, StartOn, tables
<1>4. agent \in [Ids -> AgentType] /\ ReportsTyped
  BY DEF TypeInv, CallsTyped, AgentTyped
<1>5. /\ \A k \in 1..Len(events) : events[k].run \in Ids \ {r}
      /\ Len(events) \in Nat
  <2>1. \A k \in 1..Len(events) : events[k].run \in Ids
    BY ElementOfSeq DEF TypeInv, ReportsTyped, EventType
  <2>2. Len(events) \in Nat
    BY LenProperties DEF TypeInv, ReportsTyped
  <2> QED BY <1>3, <2>1, <2>2 DEF AgentInv, Truthful
<1> HIDE DEF c
<1>6. /\ Started(r) \in EventType /\ Started(r).run = r /\ Started(r).kind = "started"
      /\ Commit(r, c) \in EventType /\ Commit(r, c).run = r /\ Commit(r, c).kind = "commit"
      /\ Commit(r, c).commit = c
      /\ Finished(r, "failed") \in EventType /\ Finished(r, "failed").run = r
      /\ Finished(r, "failed").kind = "finished" /\ Finished(r, "failed").status = "failed"
  BY <1>1, <1>2, EventsTyped DEF Started, Commit, Finished
<1>7. ASSUME NEW e \in EventType, e.run = r, Emit(<<Started(r), e>>)
      PROVE  /\ Len(events') = Len(events) + 2
             /\ \A k \in 1..Len(events) : events'[k] = events[k]
             /\ events'[Len(events) + 1] = Started(r) /\ events'[Len(events) + 2] = e
             /\ \A k \in 1..Len(events') :
                  k \in 1..Len(events) \/ k = Len(events) + 1 \/ k = Len(events) + 2
  <2> DEFINE es == <<Started(r), e>>
  <2>1. es \in Seq(EventType) /\ Len(es) = 2 /\ es[1] = Started(r) /\ es[2] = e
    <3> HIDE DEF EventType
    <3> QED BY <1>6
  <2>2. \A k \in 1..Len(es) : es[k].run <= Len(runs)
    BY <1>1, <1>6, <1>7, <2>1
  <2>3. Emit(es)
    BY <1>7
  <2> HIDE DEF es
  <2>4. /\ Len(events') = Len(events) + Len(es)
        /\ \A k \in 1..Len(events) : events'[k] = events[k]
        /\ \A k \in 1..Len(es) : events'[Len(events) + k] = es[k]
    BY <1>4, <2>1, <2>2, <2>3, EmitTyped
  <2> QED BY <1>5, <2>1, <2>4
<1>8. CASE /\ agent' = [agent EXCEPT ![r] = [st |-> "building", commit |-> c]]
           /\ Emit(<<Started(r), Commit(r, c)>>)
  <2>1. /\ agent'[r].st = "building" /\ agent'[r].commit = c
        /\ \A i \in Ids \ {r} : agent'[i] = agent[i]
    BY <1>1, <1>4, <1>8
  <2>2. /\ Len(events') = Len(events) + 2
        /\ \A k \in 1..Len(events) : events'[k] = events[k]
        /\ events'[Len(events) + 1] = Started(r) /\ events'[Len(events) + 2] = Commit(r, c)
        /\ \A k \in 1..Len(events') :
             k \in 1..Len(events) \/ k = Len(events) + 1 \/ k = Len(events) + 2
    BY <1>6, <1>7, <1>8
  <2>3. Unsent'
    BY <1>1, <1>3, <2>1 DEF AgentInv, Unsent
  <2>4. Pinned'
    BY <1>1, <1>2, <1>3, <2>1 DEF AgentInv, Pinned
  <2>5. Truthful'
    BY <1>5, <1>6, <2>1, <2>2 DEF AgentInv, Truthful
  <2>6. Ordered'
    <3>1. ASSUME NEW i \in 1..Len(runs), i # r,
                 agent[i].st \in {"building", "succeeded"}, runs[i].commit = Unknown
          PROVE  \E k \in 1..Len(events') :
                   /\ events'[k].run = i /\ events'[k].kind = "commit"
                   /\ \A m \in 1..Len(events') :
                        (events'[m].run = i /\ events'[m].kind = "finished") => k < m
      <4>1. PICK k \in 1..Len(events) :
              /\ events[k].run = i /\ events[k].kind = "commit"
              /\ \A m \in 1..Len(events) :
                   (events[m].run = i /\ events[m].kind = "finished") => k < m
        BY <3>1 DEF AgentInv, Ordered
      <4>2. k \in 1..Len(events')
        BY <1>5, <2>2
      <4> QED BY <1>6, <2>2, <3>1, <4>1, <4>2, SMTT(30)
    <3>2. \A m \in 1..Len(events') : events'[m].run = r => events'[m].kind # "finished"
      BY <1>5, <1>6, <2>2
    <3>3. Len(events) + 2 \in 1..Len(events')
      BY <1>5, <2>2
    <3> QED BY <1>1, <1>3, <1>6, <2>1, <2>2, <3>1, <3>2, <3>3 DEF Ordered
  <2>7. Proved'
    BY <1>3, <2>1 DEF AgentInv, Proved
  <2>8. SucceededIsTrue'
    BY <1>1, <1>3, <2>1 DEF AgentInv, SucceededIsTrue
  <2> QED BY <2>3, <2>4, <2>5, <2>6, <2>7, <2>8 DEF AgentInv
<1>9. CASE /\ agent' = [agent EXCEPT ![r].st = "failed"]
           /\ Emit(<<Started(r), Finished(r, "failed")>>)
  <2>1. /\ agent'[r].st = "failed"
        /\ \A i \in Ids \ {r} : agent'[i] = agent[i]
    BY <1>1, <1>4, <1>9 DEF AgentType
  <2>2. /\ Len(events') = Len(events) + 2
        /\ \A k \in 1..Len(events) : events'[k] = events[k]
        /\ events'[Len(events) + 1] = Started(r)
        /\ events'[Len(events) + 2] = Finished(r, "failed")
        /\ \A k \in 1..Len(events') :
             k \in 1..Len(events) \/ k = Len(events) + 1 \/ k = Len(events) + 2
    BY <1>6, <1>7, <1>9
  <2>3. Unsent'
    BY <1>1, <1>3, <2>1 DEF AgentInv, Unsent
  <2>4. Pinned'
    BY <1>1, <1>3, <2>1 DEF AgentInv, Pinned
  <2>5. Truthful'
    BY <1>5, <1>6, <2>1, <2>2 DEF AgentInv, Truthful
  <2>6. Ordered'
    <3>1. ASSUME NEW i \in 1..Len(runs), i # r,
                 agent[i].st \in {"building", "succeeded"}, runs[i].commit = Unknown
          PROVE  \E k \in 1..Len(events') :
                   /\ events'[k].run = i /\ events'[k].kind = "commit"
                   /\ \A m \in 1..Len(events') :
                        (events'[m].run = i /\ events'[m].kind = "finished") => k < m
      <4>1. PICK k \in 1..Len(events) :
              /\ events[k].run = i /\ events[k].kind = "commit"
              /\ \A m \in 1..Len(events) :
                   (events[m].run = i /\ events[m].kind = "finished") => k < m
        BY <3>1 DEF AgentInv, Ordered
      <4>2. k \in 1..Len(events')
        BY <1>5, <2>2
      <4>3. \A m \in 1..Len(events') :
              (events'[m].run = i /\ events'[m].kind = "finished") => m \in 1..Len(events)
        BY <1>6, <2>2, <3>1
      <4>4. \A m \in 1..Len(events') :
              (events'[m].run = i /\ events'[m].kind = "finished") => k < m
        BY <2>2, <4>1, <4>3
      <4> QED BY <2>2, <4>1, <4>2, <4>4
    <3> QED BY <1>1, <1>3, <2>1, <3>1 DEF Ordered
  <2>7. Proved'
    BY <1>3, <2>1 DEF AgentInv, Proved
  <2>8. SucceededIsTrue'
    BY <1>1, <1>3, <2>1 DEF AgentInv, SucceededIsTrue
  <2> QED BY <2>3, <2>4, <2>5, <2>6, <2>7, <2>8 DEF AgentInv
<1> QED BY <1>3, <1>8, <1>9 DEF StartOn

\* A deploy ends behind the report of its commit.
LEMMA FinishStep ==
  ASSUME TypeInv, AgentInv, NEW r \in 1..Len(runs), AgentFinish(r)
  PROVE  AgentInv'
<1>1. /\ Len(runs) \in Nat /\ DOMAIN runs = 1..Len(runs) /\ r \in Ids /\ 1..Len(runs) \subseteq Ids
  BY LenProperties, DeployAssumption DEF TypeInv, RunsTyped, Ids
<1>2. PICK s \in {"succeeded", "failed"} :
        /\ agent' = [agent EXCEPT ![r].st = s]
        /\ Emit(<<Finished(r, s)>>)
        /\ proved' = IF s = "succeeded" THEN proved \cup {agent[r].commit} ELSE proved
  BY DEF AgentFinish
<1>3. agent[r].st = "building" /\ UNCHANGED <<runs, start>>
  BY DEF AgentFinish, tables
<1>4. agent \in [Ids -> AgentType] /\ ReportsTyped
  BY DEF TypeInv, CallsTyped, AgentTyped
<1>5. /\ \A k \in 1..Len(events) : events[k].run \in Ids
      /\ Len(events) \in Nat
  BY ElementOfSeq, LenProperties DEF TypeInv, ReportsTyped, EventType
<1>6. /\ agent'[r].st = s /\ agent'[r].commit = agent[r].commit
      /\ \A i \in Ids \ {r} : agent'[i] = agent[i]
  BY <1>1, <1>2, <1>4 DEF AgentType
<1>7. /\ Finished(r, s) \in EventType /\ Finished(r, s).run = r
      /\ Finished(r, s).kind = "finished" /\ Finished(r, s).status = s
  BY <1>1, EventsTyped DEF Finished
<1>8. /\ Len(events') = Len(events) + 1
      /\ \A k \in 1..Len(events) : events'[k] = events[k]
      /\ events'[Len(events) + 1] = Finished(r, s)
      /\ \A k \in 1..Len(events') : k \in 1..Len(events) \/ k = Len(events) + 1
  <2> DEFINE es == <<Finished(r, s)>>
  <2>1. es \in Seq(EventType) /\ Len(es) = 1 /\ es[1] = Finished(r, s)
    <3> HIDE DEF EventType
    <3> QED BY <1>7
  <2>2. \A k \in 1..Len(es) : es[k].run <= Len(runs)
    BY <1>1, <1>7, <2>1
  <2>3. Emit(es)
    BY <1>2
  <2> HIDE DEF es
  <2>4. /\ Len(events') = Len(events) + Len(es)
        /\ \A k \in 1..Len(events) : events'[k] = events[k]
        /\ \A k \in 1..Len(es) : events'[Len(events) + k] = es[k]
    BY <1>4, <2>1, <2>2, <2>3, EmitTyped
  <2> QED BY <1>5, <2>1, <2>4
<1>9. Unsent'
  BY <1>1, <1>3, <1>6 DEF AgentInv, Unsent
<1>10. Pinned'
  BY <1>1, <1>3, <1>6 DEF AgentInv, Pinned
<1>11. Truthful'
  BY <1>3, <1>5, <1>6, <1>7, <1>8 DEF AgentInv, Truthful
<1>12. Ordered'
  <2>1. ASSUME NEW i \in 1..Len(runs),
               agent[i].st \in {"building", "succeeded"}, runs[i].commit = Unknown
        PROVE  \E k \in 1..Len(events') :
                 /\ events'[k].run = i /\ events'[k].kind = "commit"
                 /\ \A m \in 1..Len(events') :
                      (events'[m].run = i /\ events'[m].kind = "finished") => k < m
    <3>1. PICK k \in 1..Len(events) :
            /\ events[k].run = i /\ events[k].kind = "commit"
            /\ \A m \in 1..Len(events) :
                 (events[m].run = i /\ events[m].kind = "finished") => k < m
      BY <2>1 DEF AgentInv, Ordered
    <3>2. k \in 1..Len(events') /\ k < Len(events) + 1
      BY <1>5, <1>8
    <3> QED BY <1>7, <1>8, <3>1, <3>2
  <2> QED BY <1>1, <1>3, <1>6, <2>1 DEF Ordered
<1>13. Proved'
  BY <1>2, <1>6 DEF AgentInv, Proved
<1>14. SucceededIsTrue'
  BY <1>1, <1>3, <1>6 DEF AgentInv, SucceededIsTrue
<1> QED BY <1>9, <1>10, <1>11, <1>12, <1>13, <1>14 DEF AgentInv

\* The gateway handles the oldest event.
LEMMA EventStep ==
  ASSUME TypeInv, AgentInv, OnDeployEvent
  PROVE  AgentInv'
<1> DEFINE e == Head(events)
<1>1. /\ Len(runs) \in Nat /\ DOMAIN runs = 1..Len(runs) /\ 1..Len(runs) \subseteq Ids
  BY LenProperties, DeployAssumption DEF TypeInv, RunsTyped, Ids
<1>2. /\ e = events[1] /\ e \in EventType /\ e.run \in 1..Len(runs)
      /\ Len(events) \in Nat \ {0} /\ events' = Tail(events)
      /\ Len(events') = Len(events) - 1
      /\ \A k \in 1..Len(events) - 1 : events'[k] = events[k + 1]
  BY TakeTyped DEF OnDeployEvent, TypeInv
<1>3. UNCHANGED <<agent, proved, start>>
  BY DEF OnDeployEvent
<1>4. /\ agent[e.run].st \notin {"none", "sent"}
      /\ (e.kind = "commit" /\ agent[e.run].st \in {"building", "succeeded"}) =>
           e.commit = agent[e.run].commit
      /\ (e.kind = "finished" /\ e.status = "succeeded") => agent[e.run].st = "succeeded"
  BY <1>2 DEF AgentInv, Truthful
<1>5. (e.kind = "finished" /\ agent[e.run].st = "succeeded") => runs[e.run].commit # Unknown
  <2> SUFFICES ASSUME e.kind = "finished", agent[e.run].st = "succeeded",
                      runs[e.run].commit = Unknown
               PROVE  FALSE
    OBVIOUS
  <2>1. PICK k \in 1..Len(events) : \A m \in 1..Len(events) :
          (events[m].run = e.run /\ events[m].kind = "finished") => k < m
    BY <1>2 DEF AgentInv, Ordered
  <2>2. 1 \in 1..Len(events)
    BY <1>2
  <2>3. k < 1
    BY <1>2, <2>1, <2>2
  <2> QED BY <2>3
<1>6. Truthful'
  <2>1. \A k \in 1..Len(events') : k + 1 \in 1..Len(events) /\ events'[k] = events[k + 1]
    BY <1>2
  <2> QED BY <1>3, <2>1 DEF AgentInv, Truthful
<1>7. \* What the event does to its row.
      /\ Len(runs') = Len(runs) /\ DOMAIN runs' = 1..Len(runs)
      /\ \A j \in 1..Len(runs) :
           /\ runs'[j].pin = runs[j].pin
           /\ runs'[j].commit = (IF j = e.run /\ e.kind = "commit" /\ runs[j].commit = Unknown
                                 THEN e.commit ELSE runs[j].commit)
           /\ runs'[j].status = "succeeded" =>
                \/ runs[j].status = "succeeded"
                \/ j = e.run /\ e.kind = "finished" /\ e.status = "succeeded"
  <2>1. ASSUME NEW s \in Active \cup Closed, MarkRun(e.run, s)
        PROVE  /\ RunsTyped' /\ Len(runs') = Len(runs)
               /\ \A j \in 1..Len(runs) :
                    /\ runs'[j].status = (IF j = e.run THEN s ELSE runs[j].status)
                    /\ runs'[j].commit = runs[j].commit /\ runs'[j].pin = runs[j].pin
    <3> HIDE DEF e
    <3> QED BY <1>2, <2>1, MarkRunRows DEF TypeInv
  <2>2. ASSUME RunsTyped', Len(runs') = Len(runs) PROVE DOMAIN runs' = 1..Len(runs)
    BY <2>2, LenProperties DEF RunsTyped
  <2>3. CASE e.kind = "started" /\ MarkRun(e.run, "running")
    BY <2>1, <2>2, <2>3 DEF Active
  <2>4. CASE /\ e.kind = "commit"
             /\ runs' = [runs EXCEPT ![e.run].commit = IF @ = Unknown THEN e.commit ELSE @]
    <3>1. e.commit \in Commits
      BY <1>2, <2>4 DEF EventType
    <3> HIDE DEF e
    <3>2. RunsTyped /\ e.run \in 1..Len(runs)
      BY <1>2 DEF TypeInv
    <3>3. runs' = [runs EXCEPT ![e.run].commit = IF @ = Unknown THEN e.commit ELSE @]
      BY <2>4
    <3>4. /\ RunsTyped' /\ Len(runs') = Len(runs)
          /\ \A j \in 1..Len(runs) :
               /\ runs'[j].commit = (IF j = e.run /\ runs[e.run].commit = Unknown THEN e.commit
                                     ELSE runs[j].commit)
               /\ runs'[j].status = runs[j].status /\ runs'[j].pin = runs[j].pin
      BY <3>1, <3>2, <3>3, CommitRows
    <3>5. DOMAIN runs' = 1..Len(runs)
      BY <2>2, <3>4
    <3> QED BY <2>4, <3>4, <3>5
  <2>5. CASE e.kind = "finished" /\ MarkRun(e.run, e.status)
    <3>1. e.status \in {"succeeded", "failed"}
      BY <1>2, <2>5 DEF EventType
    <3> HIDE DEF e
    <3> QED BY <2>1, <2>2, <2>5, <3>1 DEF Closed
  <2> QED BY <2>3, <2>4, <2>5 DEF OnDeployEvent
<1> HIDE DEF e
<1>8. Unsent' /\ Proved'
  BY <1>3, <1>7 DEF AgentInv, Unsent, Proved
<1>9. Pinned'
  BY <1>3, <1>4, <1>7 DEF AgentInv, Pinned
<1>10. Ordered'
  <2>1. ASSUME NEW i \in 1..Len(runs),
               agent[i].st \in {"building", "succeeded"}, runs'[i].commit = Unknown
        PROVE  \E k \in 1..Len(events') :
                 /\ events'[k].run = i /\ events'[k].kind = "commit"
                 /\ \A m \in 1..Len(events') :
                      (events'[m].run = i /\ events'[m].kind = "finished") => k < m
    <3>1. i \in Ids /\ agent[i].commit # Unknown
      BY <1>1, <2>1 DEF TypeInv, CallsTyped, AgentTyped, Commits, Unknown
    <3>2. runs[i].commit = Unknown /\ ~(i = e.run /\ e.kind = "commit")
      BY <1>4, <1>7, <2>1, <3>1
    <3>3. PICK k \in 1..Len(events) :
            /\ events[k].run = i /\ events[k].kind = "commit"
            /\ \A m \in 1..Len(events) :
                 (events[m].run = i /\ events[m].kind = "finished") => k < m
      BY <2>1, <3>2 DEF AgentInv, Ordered
    <3>4. k # 1
      BY <1>2, <3>2, <3>3
    <3>5. k - 1 \in 1..Len(events') /\ events'[k - 1] = events[k]
      BY <1>2, <3>4
    <3>6. \A m \in 1..Len(events') : m + 1 \in 1..Len(events) /\ events'[m] = events[m + 1]
      BY <1>2
    <3>7. \A m \in 1..Len(events') :
            (events'[m].run = i /\ events'[m].kind = "finished") => k - 1 < m
      BY <1>2, <3>3, <3>6
    <3> QED BY <3>3, <3>5, <3>7
  <2> QED BY <1>3, <1>7, <2>1 DEF Ordered
<1>11. SucceededIsTrue'
  <2>1. ASSUME NEW i \in 1..Len(runs), runs'[i].status = "succeeded"
        PROVE  agent[i].st = "succeeded" /\ agent[i].commit = runs'[i].commit
    <3>1. i \in Ids
      BY <1>1
    <3>2. CASE runs[i].status = "succeeded"
      <4>1. agent[i].st = "succeeded" /\ agent[i].commit = runs[i].commit
        BY <1>1, <3>2 DEF AgentInv, SucceededIsTrue
      <4>2. agent[i].commit # Unknown
        BY <3>1, <4>1 DEF TypeInv, CallsTyped, AgentTyped, Commits, Unknown
      <4> QED BY <1>7, <4>1, <4>2
    <3>3. CASE i = e.run /\ e.kind = "finished" /\ e.status = "succeeded"
      <4>1. agent[i].st = "succeeded" /\ runs[i].commit # Unknown
        BY <1>4, <1>5, <3>3
      <4>2. runs[i].commit = agent[i].commit
        BY <4>1 DEF AgentInv, Pinned
      <4> QED BY <1>7, <3>3, <4>1, <4>2
    <3> QED BY <1>7, <2>1, <3>2, <3>3
  <2> QED BY <1>3, <1>7, <2>1 DEF SucceededIsTrue
<1> QED BY <1>6, <1>8, <1>9, <1>10, <1>11 DEF AgentInv

\* What the rows say of the agent stays true.
LEMMA AgentStep == TypeInv /\ AgentInv /\ [Next]_vars => AgentInv'
<1> SUFFICES ASSUME TypeInv, AgentInv, [Next]_vars PROVE AgentInv'
  OBVIOUS
<1> USE DEF tables
<1>n. /\ Len(runs) \in Nat /\ DOMAIN runs = 1..Len(runs)
  BY LenProperties DEF RunsTyped, TypeInv
<1>1. CASE Push \/ Connect \/ UNCHANGED vars
  BY <1>1, QuietStep DEF Push, Connect, vars, Quiet
<1>2. CASE Drop \/ AgentDies
  BY <1>2, LostStep DEF Drop, AgentDies, Fault
<1>3. CASE Restart
  <2>1. \A i \in Ids : start'[i] # "inserted"
    BY <1>3 DEF Restart
  <2> QED BY <1>3, <2>1, LostStep DEF Restart, Fault
<1>4. ASSUME NEW q \in Reqs,
             Report(q) \/ Check(q) \/ (\E d \in Deliveries : Claim(q, d))
      PROVE  AgentInv'
  BY <1>4, QuietStep DEF Report, Check, Claim, ClaimIf, Quiet
<1>5. ASSUME NEW q \in Reqs, Insert(q) PROVE AgentInv'
  <2> DEFINE row == Row(req[q].trigger, Unknown, req[q].delivery, 0)
  <2>1. req[q] \in ReqType /\ req[q].trigger \in Triggers
    BY <1>5 DEF TypeInv, CallsTyped, ReqsTyped, Insert, Triggers
  <2>2. req[q].delivery \in Deliveries \cup {"none"}
    BY <2>1 DEF ReqType
  <2>3. /\ row \in RowType /\ row.cause = 0 /\ row.status = "pending" /\ row.commit = row.pin
    BY <2>1, <2>2, RowTyped DEF Row
  <2>4. InsertRun(row) /\ UNCHANGED <<agent, events, proved>>
    BY <1>5 DEF Insert
  <2> HIDE DEF row
  <2> QED BY <1>n, <2>3, <2>4, InsertStep
<1>6. ASSUME NEW q \in Reqs, Redeploy(q) PROVE AgentInv'
  <2> DEFINE row == Row("manual", Unknown, "none", 0)
  <2>1. /\ row \in RowType /\ row.cause = 0 /\ row.status = "pending" /\ row.commit = row.pin
    BY RowTyped DEF Row, Triggers
  <2>2. InsertRun(row) /\ UNCHANGED <<agent, events, proved>>
    BY <1>6 DEF Redeploy
  <2> HIDE DEF row
  <2> QED BY <1>n, <2>1, <2>2, InsertStep
<1>7. ASSUME NEW r \in DOMAIN runs, Abandon(r) \/ Sweep(r) PROVE AgentInv'
  BY <1>7, QuietStep DEF Abandon, Sweep, Quiet, TypeInv, CallsTyped
<1>8. ASSUME NEW r \in DOMAIN runs, MarkRunning(r) PROVE AgentInv'
  <2>1. /\ MarkRun(r, "running") /\ UNCHANGED <<agent, events, proved>>
        /\ \A i \in Ids : start'[i] = "inserted" => start[i] = "inserted"
    BY <1>8 DEF MarkRunning, TypeInv, CallsTyped
  <2> QED BY <1>n, <2>1, MarkStep DEF Active
<1>9. ASSUME NEW r \in DOMAIN runs, SendDeploy(r) PROVE AgentInv'
  BY <1>n, <1>9, SendStep
<1>10. ASSUME NEW r \in DOMAIN runs, AgentStart(r) PROVE AgentInv'
  BY <1>n, <1>10, StartStep
<1>11. ASSUME NEW r \in DOMAIN runs, AgentFinish(r) PROVE AgentInv'
  BY <1>n, <1>11, FinishStep
<1>12. CASE OnDeployEvent
  BY <1>12, EventStep
<1>13. CASE SweepMark
  <2>1. /\ sweep \in 1..Len(runs) /\ MarkRun(sweep, "failed")
        /\ UNCHANGED <<agent, events, proved, start>>
    BY <1>n, <1>13 DEF SweepMark, TypeInv, ReportsTyped
  <2> QED BY <2>1, MarkStep DEF Closed
<1>14. ASSUME NEW h \in hooks, DeployRunFinished(h) PROVE AgentInv'
  <2>1. h.run \in 1..Len(runs) /\ UNCHANGED <<agent, events, proved>>
    BY <1>n, <1>14 DEF TypeInv, ReportsTyped, HookType, Ids, DeployRunFinished
  <2>2. CASE UNCHANGED <<runs, start>>
    BY <2>1, <2>2, QuietStep DEF Quiet
  <2>3. ASSUME NEW good \in Commits, InsertRun(Row("rollback", good, "none", h.run))
        PROVE  AgentInv'
    <3> DEFINE row == Row("rollback", good, "none", h.run)
    <3>1. /\ row \in RowType /\ row.cause <= Len(runs) /\ row.status = "pending"
          /\ row.commit = row.pin
      BY <1>n, <2>1, RowTyped DEF Row, Triggers
    <3>2. InsertRun(row)
      BY <2>3
    <3> HIDE DEF row
    <3> QED BY <2>1, <3>1, <3>2, InsertStep
  <2> QED BY <1>14, <2>2, <2>3, GoodCommit DEF TypeInv
<1> QED
  BY <1>1, <1>2, <1>3, <1>4, <1>5, <1>6, <1>7, <1>8, <1>9, <1>10, <1>11, <1>12, <1>13, <1>14
  DEF Next, System

-----------------------------------------------------------------------------
(***************************************************************************)
(* Rollbacks.                                                              *)
(***************************************************************************)
\* Only the finished hook inserts rollbacks: from a row that is none, to the
\* commit of a row that the agent succeeded with.
LEMMA RollbackStep ==
  TypeInv /\ AgentInv /\ Caused /\ RollbackWarranted /\ [Next]_vars
    => Caused' /\ RollbackWarranted'
<1> SUFFICES ASSUME TypeInv, AgentInv, Caused, RollbackWarranted, [Next]_vars
             PROVE  Caused' /\ RollbackWarranted'
  OBVIOUS
<1> USE DEF tables
<1>t. RunsTyped /\ RunsTyped'
  BY TypeStep DEF TypeInv
<1>n. /\ Len(runs) \in Nat /\ DOMAIN runs = 1..Len(runs)
      /\ Len(runs') \in Nat /\ DOMAIN runs' = 1..Len(runs')
  BY <1>t, LenProperties DEF RunsTyped
<1>c. \A i \in 1..Len(runs) : runs[i].trigger = "rollback" => runs[i].cause \in 1..Len(runs)
  <2>1. \A i \in 1..Len(runs) : runs[i].cause \in Nat
    <3>1. \A i \in 1..Len(runs) : runs[i] \in RowType
      BY <1>t, ElementOfSeq DEF RunsTyped
    <3> QED BY <3>1 DEF RowType
  <2> QED BY <1>n, <1>t, <2>1 DEF RunsTyped, Caused
<1>p. proved \subseteq proved'
  BY DEF Next, System, vars, Push, Connect, Drop, AgentDies, Restart, Report, Check, Insert,
     Redeploy, Claim, ClaimIf, Abandon, SendDeploy, MarkRunning, AgentStart, StartOn, AgentFinish,
     Sweep, OnDeployEvent, SweepMark, DeployRunFinished
<1>w. \A i \in 1..Len(runs) : runs[i].trigger = "rollback" =>
        runs[i].pin \in proved' /\ runs[runs[i].cause].trigger # "rollback"
  BY <1>n, <1>p DEF RollbackWarranted
<1>1. CASE SameRows(Len(runs))
  BY <1>n, <1>c, <1>w, <1>1 DEF SameRows, Caused, RollbackWarranted
<1>2. ASSUME NEW row \in RowType, row.cause <= Len(runs), InsertRun(row),
             row.trigger = "rollback" =>
               /\ row.pin \in proved' /\ row.cause \in 1..Len(runs)
               /\ runs[row.cause].trigger # "rollback"
      PROVE  Caused' /\ RollbackWarranted'
  <2>1. /\ Len(runs') = Len(runs) + 1 /\ runs'[Len(runs')] = row
        /\ \A j \in 1..Len(runs) : runs'[j] = runs[j]
    BY <1>t, <1>2, InsertRunRows
  <2>2. \A j \in 1..Len(runs') : j \in 1..Len(runs) \/ j = Len(runs')
    BY <1>n, <2>1
  <2>3. Caused'
    BY <1>n, <1>2, <2>1, <2>2 DEF Caused
  <2>4. ASSUME NEW i \in 1..Len(runs'), runs'[i].trigger = "rollback"
        PROVE  runs'[i].pin \in proved' /\ runs'[runs'[i].cause].trigger # "rollback"
    <3>1. CASE i \in 1..Len(runs)
      <4>1. runs'[i] = runs[i] /\ runs[i].cause \in 1..Len(runs)
        BY <1>c, <2>1, <2>4, <3>1
      <4> QED BY <1>w, <2>1, <2>4, <3>1, <4>1
    <3>2. CASE i = Len(runs')
      BY <1>2, <2>1, <2>4, <3>2
    <3> QED BY <2>2, <3>1, <3>2
  <2> QED BY <1>n, <2>3, <2>4 DEF RollbackWarranted
<1>3. ASSUME NEW q \in Reqs, Insert(q) PROVE Caused' /\ RollbackWarranted'
  <2> DEFINE row == Row(req[q].trigger, Unknown, req[q].delivery, 0)
  <2>1. req[q] \in ReqType /\ req[q].trigger \in {"webhook", "api"}
    BY <1>3 DEF Insert, TypeInv, CallsTyped, ReqsTyped
  <2>2. row \in RowType /\ row.cause = 0 /\ row.trigger # "rollback"
    <3>1. req[q].delivery \in Deliveries \cup {"none"}
      BY <2>1 DEF ReqType
    <3> QED BY <2>1, <3>1, RowTyped DEF Row, Triggers
  <2>3. InsertRun(row)
    BY <1>3 DEF Insert
  <2> HIDE DEF row
  <2> QED BY <1>n, <1>2, <2>2, <2>3
<1>4. ASSUME NEW q \in Reqs, Redeploy(q) PROVE Caused' /\ RollbackWarranted'
  <2> DEFINE row == Row("manual", Unknown, "none", 0)
  <2>1. row \in RowType /\ row.cause = 0 /\ row.trigger # "rollback"
    BY RowTyped DEF Row, Triggers
  <2>2. InsertRun(row)
    BY <1>4 DEF Redeploy
  <2> HIDE DEF row
  <2> QED BY <1>n, <1>2, <2>1, <2>2
<1>5. ASSUME NEW h \in hooks, DeployRunFinished(h) PROVE Caused' /\ RollbackWarranted'
  <2>1. h.run \in 1..Len(runs)
    BY <1>n DEF TypeInv, ReportsTyped, HookType, Ids
  <2>2. CASE runs' = runs
    BY <1>1, <2>2 DEF SameRows
  <2>3. ASSUME NEW i \in 1..Len(runs), runs[i].status = "succeeded", runs[i].commit \in Commits,
               MayRollBack(h), InsertRun(Row("rollback", runs[i].commit, "none", h.run))
        PROVE  Caused' /\ RollbackWarranted'
    <3> DEFINE row == Row("rollback", runs[i].commit, "none", h.run)
    <3>1. row \in RowType /\ row.cause = h.run /\ row.pin = runs[i].commit
      BY <1>n, <2>1, <2>3, RowTyped DEF Row, Triggers
    <3>2. runs[i].commit \in proved
      <4>1. i \in Ids
        BY <1>n, <1>t, DeployAssumption DEF RunsTyped, Ids
      <4> QED BY <1>n, <2>3, <4>1 DEF AgentInv, SucceededIsTrue, Proved
    <3>3. runs[h.run].trigger # "rollback"
      BY <2>3 DEF MayRollBack
    <3>4. InsertRun(row)
      BY <2>3
    <3> HIDE DEF row
    <3> QED BY <1>n, <1>2, <1>p, <2>1, <3>1, <3>2, <3>3, <3>4
  <2> QED BY <1>5, <1>t, <2>2, <2>3, GoodCommit
<1> QED BY <1>1, <1>3, <1>4, <1>5, RowsStep

-----------------------------------------------------------------------------
(***************************************************************************)
(* The theorems.                                                           *)
(***************************************************************************)
\* A project that was never deployed, or that has one finished deploy.
LEMMA DeployInit == Init => DeployInv
<1> SUFFICES ASSUME Init PROVE DeployInv
  OBVIOUS
<1> USE DeployAssumption
<1> DEFINE first == [Row("manual", Unknown, "none", 0) EXCEPT !.status = "succeeded", !.commit = 1]
<1>1. /\ first \in RowType /\ first.cause = 0 /\ first.trigger = "manual"
      /\ first.delivery = "none" /\ first.commit = 1 /\ first.status = "succeeded"
  <2> DEFINE row == Row("manual", Unknown, "none", 0)
  <2>1. row \in RowType /\ row.cause = 0 /\ row.trigger = "manual" /\ row.delivery = "none"
    BY RowTyped DEF Row, Triggers
  <2> HIDE DEF row
  <2>2. "succeeded" \in Closed /\ 1 \in Commits
    BY DEF Closed, Commits
  <2>3. first = [row EXCEPT !.status = "succeeded", !.commit = 1]
    BY DEF row
  <2> HIDE DEF first
  <2> QED BY <2>1, <2>2, <2>3 DEF RowType
<1>2. \/ runs = << >> /\ health = "unknown" /\ proved = {}
      \/ runs = <<first>> /\ health = "healthy" /\ proved = {1}
  BY DEF Init
<1> HIDE DEF first
<1>3. /\ runs \in Seq(RowType) /\ Len(runs) <= MaxRuns /\ Len(runs) <= 1
      /\ DOMAIN runs = 1..Len(runs) /\ Len(runs) \in Nat
      /\ \A i \in 1..Len(runs) : i = 1 /\ runs[i] = first /\ proved = {1}
  <2>1. CASE runs = << >>
    BY <2>1 DEF RowType
  <2>2. CASE runs = <<first>> /\ proved = {1}
    <3> HIDE DEF RowType
    <3> QED BY <1>1, <2>2
  <2> QED BY <1>2, <2>1, <2>2
<1>4. RunsTyped
  BY <1>1, <1>3 DEF RunsTyped
<1>5. CallsTyped
  <2>1. ReqsTyped
    <3>1. NewReq \in ReqType /\ NewReq.pc = "new"
      BY DEF NewReq, ReqType
    <3> HIDE DEF ReqType
    <3> QED BY <3>1 DEF Init, ReqsTyped
  <2>2. start \in [Ids -> {"none", "inserted", "sent", "done"}]
    BY DEF Init
  <2>3. AgentTyped
    <3>1. /\ NoDeploy \in AgentType /\ NoDeploy.st = "none"
          /\ [st |-> "succeeded", commit |-> 1] \in AgentType /\ 1 \in Commits
      BY DEF NoDeploy, AgentType, Commits, Unknown
    <3> HIDE DEF AgentType, NoDeploy
    <3> QED BY <3>1 DEF Init, AgentTyped
  <2> QED BY <2>1, <2>2, <2>3 DEF CallsTyped
<1>6. ReportsTyped
  BY <1>3 DEF Init, ReportsTyped
<1>7. RestTyped
  BY <1>2 DEF Init, RestTyped, Healths, Commits
<1>8. Claimed /\ DeliveryOnce
  <2>1. \A q \in Reqs : req[q].delivery = "none"
    BY DEF Init, NewReq
  <2> QED BY <1>1, <1>3, <2>1 DEF Claimed, DeliveryOnce
<1>9. /\ \A i \in Ids : i \in 1..Len(runs) => agent[i] = [st |-> "succeeded", commit |-> 1]
      /\ \A i \in Ids : i \notin 1..Len(runs) => agent[i].st = "none"
      /\ \A i \in Ids : start[i] # "inserted"
      /\ events = << >>
  BY <1>3 DEF Init, NoDeploy
<1>10. AgentInv
  <2>1. Unsent
    BY <1>3, <1>9 DEF Unsent
  <2>2. 1..Len(runs) \subseteq Ids
    BY <1>3 DEF Ids
  <2>3. Pinned /\ Ordered /\ SucceededIsTrue
    BY <1>1, <1>3, <1>9, <2>2 DEF Pinned, Ordered, SucceededIsTrue, Unknown
  <2>4. Truthful
    BY <1>9 DEF Truthful
  <2>5. Proved
    BY <1>3, <1>9 DEF Proved
  <2> QED BY <2>1, <2>3, <2>4, <2>5 DEF AgentInv
<1>11. Caused /\ RollbackWarranted
  BY <1>1, <1>3 DEF Caused, RollbackWarranted
<1> QED BY <1>4, <1>5, <1>6, <1>7, <1>8, <1>10, <1>11 DEF DeployInv, TypeInv

\* The inductive invariant holds in every reachable state.
LEMMA DeployInvariant == Spec => []DeployInv
<1>1. DeployInv /\ [Next]_vars => DeployInv'
  BY TypeStep, ClaimStep, AgentStep, RollbackStep DEF DeployInv
<1> QED BY <1>1, DeployInit, PTL DEF Spec

\* The types are correct: requests, startRun calls, events, hooks and the
\* sweeper only speak of rows that exist.
THEOREM TypeCorrect == Spec => []TypeOK
<1>1. DeployInv => TypeOK
  <2> SUFFICES ASSUME TypeInv PROVE TypeOK
    BY DEF DeployInv
  <2>1. Len(runs) \in Nat /\ DOMAIN runs = 1..Len(runs) /\ DOMAIN events = 1..Len(events)
    BY LenProperties DEF TypeInv, RunsTyped, ReportsTyped
  <2>2. \A i \in 1..Len(runs) : runs[i] \in RowType
    BY ElementOfSeq DEF TypeInv, RunsTyped
  <2>3. \A i \in 1..Len(events) : events[i].run \in Ids
    BY ElementOfSeq DEF TypeInv, ReportsTyped, EventType
  <2>4. \A i \in DOMAIN runs :
          /\ runs[i].trigger \in Triggers
          /\ runs[i].status \in Active \cup Closed
          /\ runs[i].commit \in Commits \cup {Unknown}
          /\ runs[i].pin \in Commits \cup {Unknown}
          /\ runs[i].delivery \in Deliveries \cup {"none"}
          /\ runs[i].cause \in 0..(i - 1)
    <3>1. \A i \in 1..Len(runs) : runs[i].cause \in Nat /\ runs[i].cause < i
      BY <2>2 DEF RowType, TypeInv, RunsTyped
    <3>2. \A i \in 1..Len(runs) : runs[i].cause \in 0..(i - 1)
      BY <2>1, <3>1
    <3> QED BY <2>1, <2>2, <3>2 DEF RowType
  <2>5. \A i \in DOMAIN events : events[i].run \in DOMAIN runs
    BY <2>1, <2>3 DEF TypeInv, ReportsTyped, Ids
  <2>6. \A h \in hooks : h.run \in DOMAIN runs
    BY <2>1 DEF TypeInv, ReportsTyped, HookType, Ids
  <2>7. Len(runs) <= MaxRuns /\ sweep \in 0..Len(runs)
    BY DEF TypeInv, RunsTyped, ReportsTyped
  <2> QED BY <2>4, <2>5, <2>6, <2>7
          DEF TypeOK, TypeInv, CallsTyped, ReqsTyped, AgentTyped, ReqType, AgentType, RestTyped
<1> QED BY <1>1, DeployInvariant, PTL

\* However requests for the same delivery interleave, be they retries of one
\* another, and whatever restarts, the delivery starts at most one run.
THEOREM DeliveryStartsOnce == Spec => []DeliveryOnce
<1>1. DeployInv => DeliveryOnce
  BY DEF DeployInv
<1> QED BY <1>1, DeployInvariant, PTL

\* A row is shown succeeded only if the agent succeeded, with that commit:
\* the commit's report overtakes nothing and nothing overtakes it.
THEOREM SucceededTrue == Spec => []SucceededIsTrue
<1>1. DeployInv => SucceededIsTrue
  BY DEF DeployInv, AgentInv
<1> QED BY <1>1, DeployInvariant, PTL

\* An automatic rollback goes to a commit that a deploy succeeded with, and is
\* caused by a run that is no rollback.
THEOREM RollbacksWarranted == Spec => []RollbackWarranted
<1>1. DeployInv => RollbackWarranted
  BY DEF DeployInv
<1> QED BY <1>1, DeployInvariant, PTL

-----------------------------------------------------------------------------
(***************************************************************************)
(* The other side: AgentDeploy implements AgentReport, for any number of   *)
(* commands, apps and faults.  Every step of the deploy manager is a step  *)
(* of the contract or leaves what it speaks of alone.  That an outcome     *)
(* comes in the end, the fairness of the contract, is left to TLC.         *)
(***************************************************************************)
CONSTANTS MaxStarts, NApps, StartGroup, ProcessManager, Scripts, Startable, HasPort, Probed,
          Commands, Shas, Keep, MaxFaults, None

VARIABLES overlap, disk, current, swapping, checkout, clones, cmd, run, cancel, procs, alive,
          report, faults

Dep == INSTANCE AgentDeploy WITH MaxRuns <- MaxStarts


\* A goroutine that works on a deploy it has reported as started.
Working == {"preflight", "migrate", "aside", "find", "clone", "release", "stage", "symlink",
            "rename", "ready", "fail", "win"}

\* Where a run is tells what was reported of it: nothing before Register, then
\* that it started, then an outcome, unless the process ended first.
Reported(r) ==
  /\ run[r].pc \in {"new", "sent"} => report[r] = "none"
  /\ run[r].pc \in Working => report[r] = "started"
  /\ run[r].pc = "dead" => report[r] \in {"none", "started"}
  /\ run[r].pc = "over" => report[r] \in {"succeeded", "failed"}

ReportInv ==
  /\ DOMAIN run = Dep!Runs /\ DOMAIN report = Dep!Runs
  /\ \A r \in Dep!Runs : /\ DOMAIN run[r] = DOMAIN Dep!NewRun
                     /\ run[r].pc \in Dep!Over \cup {"sent"} \cup Working
                     /\ Reported(r)

-----------------------------------------------------------------------------
\* The goroutine of r goes on with its work and reports nothing.  It sets out to
\* migrate only from the preflight, for a checkout of old.
GoesOn(r) ==
  /\ run[r].pc \in Working
  /\ \E u : /\ run' = [run EXCEPT ![r] = u]
            /\ DOMAIN u = DOMAIN Dep!NewRun /\ u.pc \in Working
            /\ u.pc = "migrate" => Dep!Preflight(r) /\ checkout = "base"
  /\ report' = report

\* The next stage, or the end of the plan, is work.
LEMMA LoadWorks ==
  ASSUME NEW u, DOMAIN u = DOMAIN Dep!NewRun, NEW p
  PROVE  /\ DOMAIN Dep!Load(u, p) = DOMAIN Dep!NewRun
         /\ Dep!Load(u, p).pc \in {"win", "stage"}
BY DEF Dep!Load, Dep!NewRun

\* So is what follows a job, whether it went well or not.
LEMMA EndJobWorks ==
  ASSUME NEW r, NEW u, DOMAIN u = DOMAIN Dep!NewRun, NEW j, NEW ok
  PROVE  /\ DOMAIN Dep!EndJob(r, u, j, ok) = DOMAIN Dep!NewRun
         /\ Dep!EndJob(r, u, j, ok).pc \in {"win", "stage", "fail"}
<1> DEFINE v == [u EXCEPT !.todo = @ \ {j}, !.bad = @ \/ ~ok,
                          !.done = IF ok THEN @ \cup {j} ELSE @, !.pc = "stage"]
           w == Head(v.plan).wave
           f == [v EXCEPT !.pc = "fail"]
           e == [v EXCEPT !.werr = TRUE]
           rest == SelectSeq(Tail(v.plan), LAMBDA s : s.wave # w)
<1>1. DOMAIN v = DOMAIN Dep!NewRun /\ v.pc = "stage"
  BY DEF Dep!NewRun
<1>2. DOMAIN f = DOMAIN Dep!NewRun /\ f.pc = "fail" /\ DOMAIN e = DOMAIN Dep!NewRun
  BY <1>1 DEF Dep!NewRun
<1>3. /\ \A p : DOMAIN Dep!Load(v, p) = DOMAIN Dep!NewRun /\ Dep!Load(v, p).pc \in {"win", "stage"}
      /\ \A p : DOMAIN Dep!Load(e, p) = DOMAIN Dep!NewRun /\ Dep!Load(e, p).pc \in {"win", "stage"}
  BY <1>1, <1>2, LoadWorks
<1>4. Dep!EndJob(r, u, j, ok) \in {v, Dep!Load(v, Tail(v.plan)), f, Dep!Load(e, rest)}
  BY DEF Dep!EndJob
<1> HIDE DEF v, w, f, e, rest
<1> QED BY <1>1, <1>2, <1>3, <1>4

\* Every step of a registered run but the last is work that reports nothing.
LEMMA WorkGoesOn ==
  ASSUME ReportInv, NEW r \in Dep!Runs, Dep!Work(r)
  PROVE  Dep!Register(r) \/ Dep!Finish(r) \/ GoesOn(r)
<1> USE DEF ReportInv
<1>u. DOMAIN run[r] = DOMAIN Dep!NewRun
  OBVIOUS
<1>g. ASSUME NEW pc \in Working, Dep!Go(r, pc), run[r].pc \in Working, report' = report,
             pc = "migrate" => Dep!Preflight(r) /\ checkout = "base"
      PROVE  GoesOn(r)
  <2> DEFINE u == [run[r] EXCEPT !.pc = pc]
  <2>1. DOMAIN u = DOMAIN Dep!NewRun /\ u.pc = pc
    BY <1>u DEF Dep!NewRun
  <2>2. run' = [run EXCEPT ![r] = u]
    BY <1>g DEF Dep!Go
  <2> HIDE DEF u
  <2> QED BY <1>g, <2>1, <2>2 DEF GoesOn
<1>e. ASSUME NEW u, DOMAIN u = DOMAIN Dep!NewRun, NEW j, NEW ok, run' = [run EXCEPT ![r] = Dep!EndJob(r, u, j, ok)],
             run[r].pc \in Working, report' = report
      PROVE  GoesOn(r)
  <2> DEFINE v == Dep!EndJob(r, u, j, ok)
  <2>1. DOMAIN v = DOMAIN Dep!NewRun /\ v.pc \in Working \ {"migrate"}
    BY <1>e, EndJobWorks DEF Working
  <2> HIDE DEF v
  <2>2. run' = [run EXCEPT ![r] = v]
    BY <1>e DEF v
  <2> QED BY <1>e, <2>1, <2>2 DEF GoesOn
<1>l. ASSUME NEW u, DOMAIN u = DOMAIN Dep!NewRun, NEW p, run' = [run EXCEPT ![r] = Dep!Load(u, p)],
             run[r].pc \in Working, report' = report
      PROVE  GoesOn(r)
  BY <1>l, LoadWorks DEF GoesOn, Working
<1>1. CASE Dep!Preflight(r)
  <2>1. run[r].pc \in Working /\ report' = report
    BY <1>1 DEF Dep!Preflight, Dep!At, Working
  <2>2. CASE Dep!Go(r, "migrate") /\ checkout = "base"
    BY <1>1, <2>1, <2>2, <1>g DEF Working
  <2>3. CASE Dep!Go(r, "find") \/ Dep!Go(r, "fail")
    BY <2>1, <2>3, <1>g DEF Working
  <2> QED BY <1>1, <2>2, <2>3 DEF Dep!Preflight
<1>2. CASE Dep!MigrateAside(r)
  BY <1>2, <1>g DEF Dep!MigrateAside, Dep!At, Working
<1>3. CASE Dep!MigrateIn(r)
  BY <1>3, <1>g DEF Dep!MigrateIn, Dep!At, Working
<1>4. CASE Dep!Find(r)
  <2> DEFINE hit == IF cmd[r].pin = None THEN 0 ELSE Dep!FindRelease(cmd[r].pin)
             u == [run[r] EXCEPT !.rel = hit]
             c == [run[r] EXCEPT !.pc = "clone"]
  <2>1. /\ run' = [run EXCEPT ![r] = IF hit # 0 THEN Dep!Load(u, Dep!RollbackPlan) ELSE c]
        /\ run[r].pc \in Working /\ report' = report
    BY <1>4 DEF Dep!Find, Dep!At, Working
  <2>2. DOMAIN u = DOMAIN Dep!NewRun /\ DOMAIN c = DOMAIN Dep!NewRun /\ c.pc = "clone"
    BY <1>u DEF Dep!NewRun
  <2> HIDE DEF hit, u, c
  <2>3. CASE hit # 0
    BY <2>1, <2>2, <2>3, <1>l
  <2>4. CASE hit = 0
    BY <2>1, <2>2, <2>4 DEF GoesOn, Working
  <2> QED BY <2>3, <2>4
<1>5. CASE Dep!Clone(r)
  <2>1. ASSUME NEW s \in Dep!CloneInto(r), run' = [run EXCEPT ![r].pc = "release", ![r].sha = s]
        PROVE  GoesOn(r)
    <3> DEFINE u == [run[r] EXCEPT !.pc = "release", !.sha = s]
    <3>1. DOMAIN u = DOMAIN Dep!NewRun /\ u.pc = "release"
      BY <1>u DEF Dep!NewRun
    <3>2. run' = [run EXCEPT ![r] = u]
      BY <2>1
    <3> QED BY <1>5, <3>1, <3>2 DEF Dep!Clone, Dep!At, GoesOn, Working
  <2>2. ASSUME Dep!Go(r, "fail") PROVE GoesOn(r)
    BY <1>5, <2>2, <1>g DEF Dep!Clone, Dep!At, Working
  <2> QED BY <1>5, <2>1, <2>2 DEF Dep!Clone
<1>6. CASE Dep!MaterializeRelease(r)
  <2>0. run[r].pc \in Working /\ report' = report
    BY <1>6 DEF Dep!MaterializeRelease, Dep!At, Working
  <2>1. ASSUME run' = [run EXCEPT ![r] = Dep!Load([@ EXCEPT !.rel = Len(disk) + 1], Dep!Plan(cmd[r]))]
        PROVE  GoesOn(r)
    <3> DEFINE u == [run[r] EXCEPT !.rel = Len(disk) + 1]
    <3>1. DOMAIN u = DOMAIN Dep!NewRun
      BY <1>u DEF Dep!NewRun
    <3>2. run' = [run EXCEPT ![r] = Dep!Load(u, Dep!Plan(cmd[r]))]
      BY <2>1
    <3> HIDE DEF u
    <3> QED BY <2>0, <3>1, <3>2, <1>l
  <2>2. ASSUME Dep!Go(r, "fail") PROVE GoesOn(r)
    BY <2>0, <2>2, <1>g DEF Dep!At, Working
  <2> QED BY <1>6, <2>1, <2>2 DEF Dep!MaterializeRelease
<1>7. ASSUME NEW j \in run[r].todo, NEW ok \in BOOLEAN, Dep!RunAppScripts(r, j, ok) PROVE GoesOn(r)
  BY <1>7, <1>u, <1>e DEF Dep!RunAppScripts, Dep!In, Dep!At, Working
<1>8. CASE Dep!Reject(r)
  BY <1>8, <1>u, <1>e DEF Dep!Reject, Dep!In, Dep!At, Working
<1>9. CASE Dep!SwapRemove(r)
  BY <1>9, <1>g DEF Dep!SwapRemove, Dep!In, Dep!At, Working
<1>10. CASE Dep!SwapSymlink(r)
  BY <1>10, <1>g DEF Dep!SwapSymlink, Dep!At, Working
<1>11. CASE Dep!SwapRename(r)
  BY <1>11, <1>u, <1>e DEF Dep!SwapRename, Dep!At, Working
<1>12. CASE Dep!StartApp(r)
  <2> DEFINE j == Dep!First(r)  a == j[1]
             again == j[2] = "start" /\ <<a, "run">> \in run[r].done
  <2>0. run[r].pc \in Working /\ report' = report
    BY <1>12 DEF Dep!StartApp, Dep!In, Dep!At, Working
  <2>1. ASSUME again PROVE GoesOn(r)
    BY <1>12, <2>0, <2>1, <1>u, <1>e DEF Dep!StartApp
  <2>2. ASSUME ~again PROVE GoesOn(r)
    <3>1. PICK o \in Dep!StartProcess(r, a) :
            run' = [run EXCEPT ![r] = Dep!EndJob(r, Dep!Noted(run[r], a, o), j, o.ok)]
      BY <1>12, <2>2 DEF Dep!StartApp
    <3>2. DOMAIN Dep!Noted(run[r], a, o) = DOMAIN Dep!NewRun
      BY <1>u DEF Dep!Noted, Dep!NewRun
    <3> HIDE DEF j, a
    <3> QED BY <2>0, <3>1, <3>2, <1>e
  <2> QED BY <2>1, <2>2
<1>13. CASE Dep!RunDirect(r)
  BY <1>13, <1>g DEF Dep!RunDirect, Dep!In, Dep!At, Working
<1>14. CASE Dep!WaitReadyExit(r)
  BY <1>14, <1>u, <1>e, ZenonT(30) DEF Dep!WaitReadyExit, Dep!At, Working
<1>15. ASSUME NEW ok \in BOOLEAN, Dep!WaitHealthy(r, ok) PROVE GoesOn(r)
  BY <1>15, <1>u, <1>e DEF Dep!WaitHealthy, Dep!In, Dep!At, Working
<1>16. ASSUME NEW ok \in BOOLEAN, Dep!PersistProcessManagers(r, ok) PROVE GoesOn(r)
  BY <1>16, <1>u, <1>e DEF Dep!PersistProcessManagers, Dep!In, Dep!At, Working
<1>17. CASE Dep!PruneReleases(r)
  BY <1>17, <1>u, <1>e DEF Dep!PruneReleases, Dep!In, Dep!At, Working
<1> QED
  BY <1>1, <1>2, <1>3, <1>4, <1>5, <1>6, <1>7, <1>8, <1>9, <1>10, <1>11, <1>12, <1>13, <1>14,
     <1>15, <1>16, <1>17 DEF Dep!Work

-----------------------------------------------------------------------------
\* What was reported stays in step with where the runs are.
LEMMA ReportInvInit == Dep!Init => ReportInv
BY DEF Dep!Init, ReportInv, Reported, Dep!NewRun, Dep!Over, Working

\* A step that changes run r alone, and says so, keeps the others in step.
LEMMA OneRun ==
  ASSUME ReportInv, NEW r \in Dep!Runs, NEW u, run' = [run EXCEPT ![r] = u],
         DOMAIN u = DOMAIN Dep!NewRun, u.pc \in Dep!Over \cup {"sent"} \cup Working,
         DOMAIN report' = Dep!Runs, \A q \in Dep!Runs \ {r} : report'[q] = report[q],
         /\ u.pc \in {"new", "sent"} => report'[r] = "none"
         /\ u.pc \in Working => report'[r] = "started"
         /\ u.pc = "dead" => report'[r] \in {"none", "started"}
         /\ u.pc = "over" => report'[r] \in {"succeeded", "failed"}
  PROVE  ReportInv'
<1>1. DOMAIN run' = Dep!Runs /\ run'[r] = u /\ \A q \in Dep!Runs \ {r} : run'[q] = run[q]
  BY DEF ReportInv
<1>2. DOMAIN run'[r] = DOMAIN Dep!NewRun /\ run'[r].pc \in Dep!Over \cup {"sent"} \cup Working /\ Reported(r)'
  BY <1>1 DEF Reported
<1>3. ASSUME NEW q \in Dep!Runs \ {r}
      PROVE  DOMAIN run'[q] = DOMAIN Dep!NewRun /\ run'[q].pc \in Dep!Over \cup {"sent"} \cup Working /\ Reported(q)'
  BY <1>1, <1>3 DEF Reported, ReportInv
<1> QED BY <1>1, <1>2, <1>3 DEF ReportInv

\* The state of the contract that a state of the manager stands for.
Vanished == {r \in Dep!Runs : run[r].pc = "dead"}

\* Steps that report nothing and end no process leave the contract alone.
LEMMA Stutters ==
  ASSUME ReportInv, NEW r \in Dep!Runs, NEW u, run' = [run EXCEPT ![r] = u],
         run[r].pc # "dead", u.pc # "dead", report' = report
  PROVE  UNCHANGED Dep!Contract!vars
<1>1. \A q \in Dep!Runs : (run'[q].pc = "dead") <=> (run[q].pc = "dead")
  BY DEF ReportInv
<1>2. Vanished' = Vanished
  BY <1>1 DEF Vanished
<1> QED BY <1>2 DEF Vanished, Dep!Contract!vars

-----------------------------------------------------------------------------
\* Work that reports nothing: still started, and a stutter of the contract.
LEMMA GoesOnStep ==
  ASSUME ReportInv, NEW r \in Dep!Runs, GoesOn(r)
  PROVE  ReportInv' /\ UNCHANGED Dep!Contract!vars
<1>1. PICK u : run' = [run EXCEPT ![r] = u] /\ DOMAIN u = DOMAIN Dep!NewRun /\ u.pc \in Working
  BY DEF GoesOn
<1>2. report' = report /\ run[r].pc \in Working
  BY DEF GoesOn
<1>3. report[r] = "started" /\ DOMAIN report = Dep!Runs
  BY <1>2 DEF ReportInv, Reported
<1>4. u.pc \notin {"new", "sent", "dead", "over"} /\ run[r].pc # "dead"
  BY <1>1, <1>2 DEF Working
<1> QED BY <1>1, <1>2, <1>3, <1>4, OneRun, Stutters

\* Register is the contract's Start.
LEMMA RegisterStep ==
  ASSUME ReportInv, NEW r \in Dep!Runs, Dep!Register(r)
  PROVE  ReportInv' /\ Dep!Contract!Start(r)
<1> DEFINE u == [run[r] EXCEPT !.pc = "preflight"]
<1>1. /\ run' = [run EXCEPT ![r] = u] /\ report' = [report EXCEPT ![r] = "started"]
      /\ run[r].pc = "sent" /\ report[r] = "none" /\ DOMAIN report = Dep!Runs
  BY DEF Dep!Register, ReportInv, Reported
<1>2. DOMAIN u = DOMAIN Dep!NewRun /\ u.pc = "preflight"
  BY DEF ReportInv, Dep!NewRun
<1> HIDE DEF u
<1>3. ReportInv'
  BY <1>1, <1>2, OneRun DEF Working
<1>4. \A q \in Dep!Runs : (run'[q].pc = "dead") <=> (run[q].pc = "dead")
  BY <1>1, <1>2 DEF ReportInv
<1> QED BY <1>1, <1>3, <1>4 DEF Dep!Contract!Start

\* Finish is the contract's, with the outcome that the run came to.
LEMMA OutcomeStep ==
  ASSUME ReportInv, NEW r \in Dep!Runs, Dep!Finish(r)
  PROVE  ReportInv' /\ Dep!Contract!Finish(r)
<1> DEFINE u == [Dep!NewRun EXCEPT !.pc = "over", !.ctx = run[r].ctx,
                               !.done = IF run[r].pc = "win" THEN run[r].done ELSE {}]
           o == IF run[r].pc = "win" THEN "succeeded" ELSE "failed"
<1>1. /\ run' = [run EXCEPT ![r] = u] /\ report' = [report EXCEPT ![r] = o]
      /\ run[r].pc \in {"win", "fail"} /\ report[r] = "started" /\ DOMAIN report = Dep!Runs
  BY DEF Dep!Finish, ReportInv, Reported, Working
<1>2. DOMAIN u = DOMAIN Dep!NewRun /\ u.pc = "over" /\ o \in Dep!Contract!Outcomes
  BY DEF Dep!NewRun, Dep!Contract!Outcomes
<1> HIDE DEF u, o
<1>3. ReportInv'
  BY <1>1, <1>2, OneRun DEF Working, Dep!Contract!Outcomes, Dep!Over
<1>4. \A q \in Dep!Runs : (run'[q].pc = "dead") <=> (run[q].pc = "dead")
  BY <1>1, <1>2 DEF ReportInv
<1> QED BY <1>1, <1>2, <1>3, <1>4 DEF Dep!Contract!Finish

\* The end of the process loses the runs that were under way, if there are any.
LEMMA CrashStep ==
  ASSUME ReportInv, Dep!Crash
  PROVE  ReportInv' /\ [Dep!Contract!Next]_(Dep!Contract!vars)
<1> DEFINE S == {r \in Dep!Runs : run[r].pc \notin Dep!Over}
           d == [Dep!NewRun EXCEPT !.pc = "dead"]
<1>1. /\ run' = [r \in Dep!Runs |-> IF run[r].pc \in Dep!Over THEN run[r] ELSE d]
      /\ report' = report
  BY DEF Dep!Crash
<1>2. DOMAIN d = DOMAIN Dep!NewRun /\ d.pc = "dead"
  BY DEF Dep!NewRun
<1> HIDE DEF d
<1>3. \A r \in Dep!Runs : run'[r] = IF run[r].pc \in Dep!Over THEN run[r] ELSE d
  BY <1>1
<1>4. ASSUME NEW r \in Dep!Runs
      PROVE  DOMAIN run'[r] = DOMAIN Dep!NewRun /\ run'[r].pc \in Dep!Over \cup {"sent"} \cup Working /\ Reported(r)'
  <2>1. CASE run[r].pc \in Dep!Over
    BY <1>1, <1>3, <2>1 DEF ReportInv, Reported
  <2>2. CASE run[r].pc \notin Dep!Over
    <3>1. run[r].pc \in {"sent"} \cup Working /\ report[r] \in {"none", "started"}
      BY <2>2 DEF ReportInv, Reported, Dep!Over
    <3>2. run'[r] = d
      BY <1>3, <2>2
    <3> QED BY <1>1, <1>2, <3>1, <3>2 DEF Reported, Dep!Over, Working
  <2> QED BY <2>1, <2>2
<1>5. ReportInv'
  BY <1>1, <1>4 DEF ReportInv
<1>6. Vanished' = Vanished \cup S
  BY <1>2, <1>3 DEF Vanished, Dep!Over
<1>7. \A r \in S : report[r] \notin Dep!Contract!Outcomes
  BY DEF ReportInv, Reported, Dep!Over, Working, Dep!Contract!Outcomes
<1>8. CASE S = {}
  BY <1>1, <1>5, <1>6, <1>8 DEF Vanished, Dep!Contract!vars
<1>9. CASE S # {}
  <2>1. \E T \in SUBSET Dep!Runs :
          /\ T # {} /\ (\A r \in T : report[r] \notin Dep!Contract!Outcomes)
          /\ Vanished' = Vanished \cup T
    BY <1>6, <1>7, <1>9, Zenon
  <2>2. \E T \in SUBSET Dep!Runs : Dep!Contract!Lose(T)
    BY <1>1, <2>1 DEF Vanished, Dep!Contract!Lose
  <2> QED BY <1>5, <2>2 DEF Dep!Contract!Next
<1> QED BY <1>8, <1>9

\* Every step of the manager is a step of the contract, or a stutter of it.
LEMMA ReportStep == ReportInv /\ [Dep!Next]_(Dep!vars) => ReportInv' /\ [Dep!Contract!Next]_(Dep!Contract!vars)
<1> SUFFICES ASSUME ReportInv, [Dep!Next]_(Dep!vars)
             PROVE  ReportInv' /\ [Dep!Contract!Next]_(Dep!Contract!vars)
  OBVIOUS
<1>1. ASSUME NEW r \in Dep!Runs, NEW c \in Commands, Dep!Handle(r, c)
      PROVE  ReportInv' /\ UNCHANGED Dep!Contract!vars
  <2> DEFINE u == [run[r] EXCEPT !.pc = "sent"]
  <2>1. /\ run' = [run EXCEPT ![r] = u] /\ run[r].pc = "new" /\ report' = report
        /\ report[r] = "none" /\ DOMAIN report = Dep!Runs
    BY <1>1 DEF Dep!Handle, ReportInv, Reported
  <2>2. DOMAIN u = DOMAIN Dep!NewRun /\ u.pc = "sent"
    BY DEF ReportInv, Dep!NewRun
  <2> HIDE DEF u
  <2> QED BY <2>1, <2>2, OneRun, Stutters DEF Working
<1>2. ASSUME NEW r \in Dep!Runs, Dep!CancelTake(r)
      PROVE  ReportInv' /\ UNCHANGED Dep!Contract!vars
  BY <1>2 DEF Dep!CancelTake, ReportInv, Reported, Dep!Contract!vars
<1>3. ASSUME NEW r \in Dep!Runs, Dep!CancelFire(r) \/ Dep!Expire(r)
      PROVE  ReportInv' /\ UNCHANGED Dep!Contract!vars
  <2>1. PICK c : run' = [run EXCEPT ![r] = [run[r] EXCEPT !.ctx = c]] /\ report' = report
    <3>1. CASE Dep!CancelFire(r)
      BY <3>1 DEF Dep!CancelFire
    <3>2. CASE Dep!Expire(r)
      BY <3>2 DEF Dep!Expire
    <3> QED BY <1>3, <3>1, <3>2
  <2> DEFINE u == [run[r] EXCEPT !.ctx = c]
  <2>2. DOMAIN u = DOMAIN Dep!NewRun /\ u.pc = run[r].pc
    BY DEF ReportInv, Dep!NewRun
  <2>3. run' = [run EXCEPT ![r] = u]
    BY <2>1
  <2> HIDE DEF u
  <2>4. \A q \in Dep!Runs : (run'[q].pc = "dead") <=> (run[q].pc = "dead")
    BY <2>2, <2>3 DEF ReportInv
  <2>5. ReportInv'
    BY <2>1, <2>2, <2>3, OneRun DEF ReportInv, Reported
  <2>6. Vanished' = Vanished
    BY <2>4 DEF Vanished
  <2> QED BY <2>1, <2>5, <2>6 DEF Vanished, Dep!Contract!vars
<1>4. ASSUME NEW r \in Dep!Runs, Dep!Work(r)
      PROVE  ReportInv' /\ [Dep!Contract!Next]_(Dep!Contract!vars)
  <2>1. CASE Dep!Register(r)
    BY <2>1, RegisterStep DEF Dep!Contract!Next
  <2>2. CASE Dep!Finish(r)
    BY <2>2, OutcomeStep DEF Dep!Contract!Next
  <2>3. CASE GoesOn(r)
    BY <2>3, GoesOnStep
  <2> QED BY <1>4, <2>1, <2>2, <2>3, WorkGoesOn
<1>5. CASE Dep!Crash
  BY <1>5, CrashStep
<1>6. CASE UNCHANGED Dep!vars
  BY <1>6 DEF Dep!vars, ReportInv, Reported, Dep!Contract!vars
<1> QED BY <1>1, <1>2, <1>3, <1>4, <1>5, <1>6 DEF Dep!Next

\* The deploy manager implements what AgentReport promises of it: whatever
\* commands, cancels, timeouts, failing stages and ends of the process come in
\* between, a run reports started once, then at most one outcome, and nothing
\* after the process it ran in has ended.
THEOREM ReportsAsPromised == Dep!Spec => Dep!Contract!Spec
<1>1. Dep!Init => Dep!Contract!Init
  <2> SUFFICES ASSUME Dep!Init PROVE Dep!Contract!Init
    OBVIOUS
  <2>1. report = [r \in Dep!Runs |-> "none"] /\ \A r \in Dep!Runs : run[r].pc = "new"
    BY DEF Dep!Init, Dep!NewRun
  <2> QED BY <2>1 DEF Dep!Contract!Init
<1> QED BY <1>1, ReportInvInit, ReportStep, PTL DEF Dep!Spec, Dep!Contract!Spec

-----------------------------------------------------------------------------
(***************************************************************************)
(* The checkout of old.                                                    *)
(***************************************************************************)
\* While deploys run one at a time, the run that is about to move a checkout
\* finds it where its preflight saw it.
MoveInv ==
  ~overlap =>
    /\ \A q, r \in Dep!Runs : run[q].pc \notin Dep!Over /\ run[r].pc \notin Dep!Over => q = r
    /\ \A r \in Dep!Runs : run[r].pc = "migrate" => checkout = "base"
    /\ checkout # "lost"

\* Only Migrate moves it.
LEMMA OnlyMigrateMoves ==
  ASSUME NEW r \in Dep!Runs, Dep!Work(r), checkout' # checkout
  PROVE  Dep!MigrateAside(r) \/ Dep!MigrateIn(r)
<1>1. ~ \E j \in run[r].todo, ok \in BOOLEAN : Dep!RunAppScripts(r, j, ok)
  BY DEF Dep!RunAppScripts
<1>2. ~ \E ok \in BOOLEAN : Dep!WaitHealthy(r, ok) \/ Dep!PersistProcessManagers(r, ok)
  BY DEF Dep!WaitHealthy, Dep!PersistProcessManagers, Dep!fs
<1>3. /\ ~Dep!Register(r) /\ ~Dep!Preflight(r) /\ ~Dep!Find(r) /\ ~Dep!Clone(r) /\ ~Dep!MaterializeRelease(r)
      /\ ~Dep!Reject(r) /\ ~Dep!SwapRemove(r) /\ ~Dep!SwapSymlink(r) /\ ~Dep!SwapRename(r)
  BY DEF Dep!Register, Dep!Preflight, Dep!Find, Dep!Clone, Dep!MaterializeRelease, Dep!Reject,
         Dep!SwapRemove, Dep!SwapSymlink,
         Dep!SwapRename, Dep!fs
<1>4. ~Dep!StartApp(r) /\ ~Dep!RunDirect(r) /\ ~Dep!WaitReadyExit(r) /\ ~Dep!PruneReleases(r) /\ ~Dep!Finish(r)
  BY DEF Dep!StartApp, Dep!RunDirect, Dep!WaitReadyExit, Dep!PruneReleases, Dep!Finish, Dep!fs
<1> QED BY <1>1, <1>2, <1>3, <1>4 DEF Dep!Work

\* A step of the one run that works.
LEMMA MoveWork ==
  ASSUME ReportInv, MoveInv, NEW r \in Dep!Runs, Dep!Work(r), overlap' = overlap
  PROVE  MoveInv'
<1> SUFFICES ASSUME ~overlap
             PROVE  /\ \A p, q \in Dep!Runs : run'[p].pc \notin Dep!Over /\ run'[q].pc \notin Dep!Over => p = q
                    /\ \A q \in Dep!Runs : run'[q].pc = "migrate" => checkout' = "base"
                    /\ checkout' # "lost"
  BY DEF MoveInv
<1>1. run[r].pc \in {"sent"} \cup Working /\ run[r].pc \notin Dep!Over
  <2>1. CASE Dep!Register(r)
    BY <2>1 DEF Dep!Register, Dep!Over
  <2>2. CASE Dep!Finish(r)
    BY <2>2 DEF Dep!Finish, Dep!Over, Working
  <2>3. CASE GoesOn(r)
    BY <2>3 DEF GoesOn, Dep!Over, Working
  <2> QED BY <2>1, <2>2, <2>3, WorkGoesOn
<1>2. \A q \in Dep!Runs \ {r} : run[q].pc \in Dep!Over
  BY <1>1 DEF MoveInv
<1>3. PICK u : run' = [run EXCEPT ![r] = u] /\ (u.pc = "migrate" => Dep!Preflight(r) /\ checkout = "base")
  <2>1. CASE Dep!Register(r)
    <3> DEFINE u == [run[r] EXCEPT !.pc = "preflight"]
    <3>1. run' = [run EXCEPT ![r] = u] /\ u.pc = "preflight"
      BY <2>1 DEF Dep!Register, ReportInv, Dep!NewRun
    <3> HIDE DEF u
    <3> QED BY <3>1
  <2>2. CASE Dep!Finish(r)
    <3> DEFINE u == [Dep!NewRun EXCEPT !.pc = "over", !.ctx = run[r].ctx,
                                   !.done = IF run[r].pc = "win" THEN run[r].done ELSE {}]
    <3>1. run' = [run EXCEPT ![r] = u] /\ u.pc = "over"
      BY <2>2 DEF Dep!Finish, Dep!NewRun
    <3> HIDE DEF u
    <3> QED BY <3>1
  <2>3. CASE GoesOn(r)
    BY <2>3 DEF GoesOn
  <2> QED BY <2>1, <2>2, <2>3, WorkGoesOn
<1>4. run'[r] = u /\ \A q \in Dep!Runs \ {r} : run'[q] = run[q]
  BY <1>3 DEF ReportInv
<1>5. \A p, q \in Dep!Runs : run'[p].pc \notin Dep!Over /\ run'[q].pc \notin Dep!Over => p = q
  BY <1>2, <1>4
<1>6. CASE Dep!MigrateAside(r)
  <2>1. checkout = "base" /\ checkout' = "aside"
    BY <1>6 DEF Dep!MigrateAside, Dep!At, MoveInv
  <2>2. ~Dep!Preflight(r)
    BY <1>6 DEF Dep!MigrateAside, Dep!Preflight, Dep!At
  <2> QED BY <1>2, <1>3, <1>4, <1>5, <2>1, <2>2 DEF Dep!Over
<1>7. CASE Dep!MigrateIn(r)
  <2>1. checkout' \in {checkout, "none"}
    BY <1>7 DEF Dep!MigrateIn
  <2>2. ~Dep!Preflight(r)
    BY <1>7 DEF Dep!MigrateIn, Dep!Preflight, Dep!At
  <2> QED BY <1>2, <1>3, <1>4, <1>5, <2>1, <2>2 DEF Dep!Over, MoveInv
<1>8. CASE checkout' = checkout
  BY <1>2, <1>3, <1>4, <1>5, <1>8 DEF Dep!Over, MoveInv
<1> QED BY <1>6, <1>7, <1>8, OnlyMigrateMoves

\* The invariant through every step.
LEMMA MoveStep == ReportInv /\ MoveInv /\ [Dep!Next]_(Dep!vars) => MoveInv'
<1> SUFFICES ASSUME ReportInv, MoveInv, [Dep!Next]_(Dep!vars) PROVE MoveInv'
  OBVIOUS
<1>1. ASSUME NEW r \in Dep!Runs, NEW c \in Commands, Dep!Handle(r, c) PROVE MoveInv'
  <2> SUFFICES ASSUME ~overlap' PROVE MoveInv'
    BY DEF MoveInv
  <2>1. ~overlap /\ \A q \in Dep!Runs : run[q].pc \in Dep!Over
    BY <1>1 DEF Dep!Handle
  <2>2. checkout' = checkout
    BY <1>1 DEF Dep!Handle, Dep!fs
  <2>3. run'[r].pc = "sent" /\ \A q \in Dep!Runs \ {r} : run'[q] = run[q]
    BY <1>1 DEF Dep!Handle, ReportInv, Dep!NewRun
  <2> QED BY <2>1, <2>2, <2>3 DEF MoveInv, Dep!Over
<1>2. ASSUME overlap' = overlap, checkout' = checkout, \A q \in Dep!Runs : run'[q].pc = run[q].pc
      PROVE  MoveInv'
  BY <1>2 DEF MoveInv
<1>3. ASSUME NEW r \in Dep!Runs, Dep!CancelTake(r) \/ Dep!CancelFire(r) \/ Dep!Expire(r) PROVE MoveInv'
  <2>1. \A q \in Dep!Runs : run'[q].pc = run[q].pc
    BY <1>3 DEF Dep!CancelTake, Dep!CancelFire, Dep!Expire, ReportInv, Dep!NewRun
  <2> QED BY <1>2, <1>3, <2>1 DEF Dep!CancelTake, Dep!CancelFire, Dep!Expire, Dep!fs
<1>4. ASSUME NEW r \in Dep!Runs, Dep!Work(r) PROVE MoveInv'
  <2>1. overlap' = overlap
    <3>1. CASE Dep!Register(r)
      BY <3>1 DEF Dep!Register
    <3>2. CASE Dep!MigrateAside(r) \/ Dep!MigrateIn(r)
      BY <3>2 DEF Dep!MigrateAside, Dep!MigrateIn
    <3>3. CASE \E j \in run[r].todo, ok \in BOOLEAN : Dep!RunAppScripts(r, j, ok)
      BY <3>3 DEF Dep!RunAppScripts
    <3>4. CASE \E ok \in BOOLEAN : Dep!WaitHealthy(r, ok) \/ Dep!PersistProcessManagers(r, ok)
      BY <3>4 DEF Dep!WaitHealthy, Dep!PersistProcessManagers
    <3>5. CASE Dep!Preflight(r) \/ Dep!Find(r) \/ Dep!Clone(r) \/ Dep!MaterializeRelease(r) \/ Dep!Reject(r) \/ Dep!SwapRemove(r)
      BY <3>5 DEF Dep!Preflight, Dep!Find, Dep!Clone, Dep!MaterializeRelease, Dep!Reject,
             Dep!SwapRemove
    <3>6. CASE Dep!SwapSymlink(r) \/ Dep!SwapRename(r) \/ Dep!StartApp(r)
      BY <3>6 DEF Dep!SwapSymlink, Dep!SwapRename, Dep!StartApp
    <3>7. CASE Dep!RunDirect(r) \/ Dep!WaitReadyExit(r) \/ Dep!PruneReleases(r) \/ Dep!Finish(r)
      BY <3>7 DEF Dep!RunDirect, Dep!WaitReadyExit, Dep!PruneReleases, Dep!Finish
    <3> QED BY <1>4, <3>1, <3>2, <3>3, <3>4, <3>5, <3>6, <3>7 DEF Dep!Work
  <2> QED BY <1>4, <2>1, MoveWork
<1>5. CASE Dep!Crash
  <2>1. \A q \in Dep!Runs : run'[q].pc \in Dep!Over
    BY <1>5 DEF Dep!Crash, Dep!NewRun, Dep!Over
  <2> QED BY <1>5, <2>1 DEF Dep!Crash, Dep!fs, MoveInv, Dep!Over
<1>6. CASE UNCHANGED Dep!vars
  BY <1>2, <1>6 DEF Dep!vars, Dep!fs
<1> QED BY <1>1, <1>3, <1>4, <1>5, <1>6 DEF Dep!Next

\* While deploys run one at a time, no checkout that Migrate moves is lost,
\* wherever the run fails or the process ends: the part of LiveTreeKept that is
\* about a project from before releases existed.
THEOREM CheckoutIsKept == Dep!Spec => []Dep!CheckoutKept
<1>1. Dep!Init => MoveInv
  BY DEF Dep!Init, MoveInv, Dep!NewRun, Dep!Over
<1>2. MoveInv => Dep!CheckoutKept
  BY DEF MoveInv, Dep!CheckoutKept
<1> QED BY <1>1, <1>2, ReportInvInit, ReportStep, MoveStep, PTL DEF Dep!Spec
=============================================================================
