----------------------------- MODULE JobSyncProofs ---------------------------
(***************************************************************************)
(* Proofs about JobSync, for any number of jobs, servers, labels, requests *)
(* and broken streams: a stream that is opened while no request runs puts  *)
(* its agent right, and as long as requests come one at a time every       *)
(* connected agent is right as soon as none is under way.                  *)
(***************************************************************************)
EXTENDS JobSync, SequenceTheorems, TLAPS

\* What an agent is sent: a snapshot, or a run-now command.
DefSets  == [Jobs -> Defs \cup {None}]
Messages == [kind : {"sync"}, jobs : DefSets] \cup [kind : {"run"}, job : Jobs, ver : Nat]

\* An agent with the definitions have holds d after the first n of msgs.
After(have, msgs, n, d) ==
  \/ have = d /\ \A k \in 1..n : msgs[k].kind # "sync"
  \/ \E p \in 1..n : /\ msgs[p].kind = "sync" /\ msgs[p].jobs = d
                     /\ \A k \in (p + 1)..n : msgs[k].kind # "sync"

\* A run-now command among msgs reaches the agent when it has the version asked.
RunsMeet(have, msgs) ==
  \A i \in 1..Len(msgs) : msgs[i].kind = "run" =>
    \E d \in DefSets : /\ After(have, msgs, i - 1, d)
                       /\ d[msgs[i].job] # None /\ d[msgs[i].job].ver = msgs[i].ver

-----------------------------------------------------------------------------
(***************************************************************************)
(* Types.                                                                  *)
(***************************************************************************)
JobOps == {"create", "patch", "setEnabled", "delete", "runNow"}

\* What a thread knows where it is.
TypedReq(r) ==
  /\ DOMAIN r = DOMAIN NewReq
  /\ r.pc \in PCs
  /\ r.pc \notin {"new", "done"} => r.op \in JobOps \cup {"labels"}
  /\ r.pc \notin {"new", "done"} /\ r.op \in JobOps => r.job \in Jobs
  /\ r.pc = "get" => r.op \in {"patch", "delete", "runNow"}
  /\ r.pc = "load" => r.op = "patch"
  /\ r.pc = "write" => r.op # "runNow"
  /\ r.pc = "reload" => r.op \in {"create", "patch", "setEnabled"}
  /\ r.pc = "write" /\ r.op = "create" => r.input \in Rows
  /\ r.pc = "write" /\ r.op = "setEnabled" => r.input \in BOOLEAN
  /\ r.pc = "write" /\ r.op = "labels" => r.input.server \in Servers
  /\ r.pc \in {"get", "load", "write"} /\ r.op = "patch" => r.input \in Inputs
  /\ r.pc \in {"load", "write", "reload"} /\ r.op = "patch" => r.before \in Rows \cup NoRow
  /\ r.pc = "write" /\ r.op = "patch" => r.row \in Rows
  /\ r.pc \in {"match", "push", "send"} /\ r.op = "runNow" => r.row \in Rows
  /\ r.plan \in Seq(Rows \cup NoRow) /\ r.todo \subseteq Servers /\ r.seen \subseteq Servers
  /\ r.pc \in {"new", "get", "load", "write", "reload"} => r.seen = {}
  /\ r.pc = "send" => r.to \in Servers /\ r.snap \in Messages

TypedTables ==
  /\ jobs \in [Jobs -> Rows \cup NoRow]
  /\ DOMAIN labels = Servers

TypedLinks ==
  /\ link \in [Servers -> {"down", "joining", "built", "up", "stale"}]
  /\ DOMAIN initial = Servers
  /\ \A s \in Servers : link[s] = "built" => initial[s] \in Messages
  /\ out \in [Servers -> Seq(Messages)]
  /\ agent \in [Servers -> DefSets] /\ disk \in [Servers -> DefSets]
  /\ settled \subseteq Servers

TypedReqs == DOMAIN req = Reqs /\ \A q \in Reqs : TypedReq(req[q])

Typed == TypedTables /\ TypedLinks /\ TypedReqs

-----------------------------------------------------------------------------
(***************************************************************************)
(* The invariant.                                                          *)
(***************************************************************************)
\* The snapshot for a stream that is being opened is that of the tables.
Built(s) == link[s] = "built" => initial[s] = [kind |-> "sync", jobs |-> BuildFullSync(s)]

\* A connected agent holds what the tables say once it has received all there is.
Right(s) == link[s] = "up" => After(agent[s], out[s], Len(out[s]), BuildFullSync(s))

\* Whatever came before, a stream opened while no request ran is right until a
\* request begins.
SettledInv ==
  /\ settled # {} => \A q \in Reqs : ~Active(q)
  /\ \A s \in settled : Built(s) /\ Right(s)

\* Request q has changed the tables and will still push to s.
Pending(q, s) ==
  LET r == req[q] IN
  \/ r.pc = "reload" /\ (Matches(jobs[r.job], s) \/ (r.op = "patch" /\ Matches(r.before, s)))
  \/ /\ r.op # "runNow" /\ r.pc \in {"match", "push", "send"} /\ s \notin r.seen
     /\ \E i \in 1..Len(r.plan) : Matches(r.plan[i], s)
  \/ r.op # "runNow" /\ r.pc \in {"push", "send"} /\ s \in r.todo
  \/ r.op # "runNow" /\ r.pc = "send" /\ s = r.to

\* What the only thread has read is what the tables say.
Fresh(q) ==
  LET r == req[q] IN
  /\ r.op = "patch" /\ r.pc \in {"load", "write"} => r.before = jobs[r.job]
  /\ r.op = "patch" /\ r.pc = "write" => r.row = jobs[r.job]
  /\ r.op = "patch" /\ r.pc = "reload" => Exists(r.job)
  /\ r.op = "delete" /\ r.pc = "write" => r.plan = <<jobs[r.job]>>
  /\ r.op # "runNow" /\ r.pc = "send" => r.snap = [kind |-> "sync", jobs |-> BuildFullSync(r.to)]
  /\ r.op = "runNow" /\ r.pc \in {"match", "push", "send"} =>
       /\ r.row = jobs[r.job]
       /\ \A i \in 1..Len(r.plan) : r.plan[i] = r.row
       /\ r.pc \in {"push", "send"} => \A s \in r.todo : Matches(r.row, s)
       /\ r.pc = "send" => /\ Matches(r.row, r.to)
                           /\ r.snap = [kind |-> "run", job |-> r.job, ver |-> r.row.ver]

\* One thread at a time, and every agent is right or about to be put right.
SerialInv ==
  ~overlap =>
    /\ \A p, q \in Reqs : Active(p) /\ Active(q) => p = q
    /\ \A s \in Servers, q \in Reqs : Joining(s) => ~Active(q)
    /\ \A q \in Reqs : Fresh(q)
    /\ \A s \in Servers : Built(s) /\ RunsMeet(agent[s], out[s])
    /\ \A s \in Servers : Right(s) \/ \E q \in Reqs : Pending(q, s)

-----------------------------------------------------------------------------
(***************************************************************************)
(* What a stream does to what the agent will hold.                         *)
(***************************************************************************)
\* A message that is appended changes nothing before it.
LEMMA AfterPrefix ==
  ASSUME NEW have, NEW msgs \in Seq(Messages), NEW x \in Messages, NEW d,
         NEW n \in 0..Len(msgs)
  PROVE  After(have, Append(msgs, x), n, d) <=> After(have, msgs, n, d)
<1> HIDE DEF Messages
<1>1. Len(msgs) \in Nat /\ \A k \in 1..Len(msgs) : Append(msgs, x)[k] = msgs[k]
  BY AppendProperties, LenProperties
<1>2. \A k \in 1..n : Append(msgs, x)[k] = msgs[k]
  BY <1>1
<1>3. \A p \in 1..n : \A k \in (p + 1)..n : Append(msgs, x)[k] = msgs[k]
  BY <1>2
<1> QED BY <1>2, <1>3 DEF After

\* After a snapshot the agent holds that.
LEMMA AfterSnapshot ==
  ASSUME NEW have, NEW msgs \in Seq(Messages), NEW d, [kind |-> "sync", jobs |-> d] \in Messages
  PROVE  LET new == Append(msgs, [kind |-> "sync", jobs |-> d])
         IN  After(have, new, Len(new), d)
<1> DEFINE x == [kind |-> "sync", jobs |-> d]
           new == Append(msgs, x)
<1>1. Len(msgs) \in Nat /\ Len(new) = Len(msgs) + 1 /\ new[Len(msgs) + 1] = x
  <2> HIDE DEF Messages, x
  <2> QED BY AppendProperties, LenProperties
<1>2. x.kind = "sync" /\ x.jobs = d
  OBVIOUS
<1> HIDE DEF x, new
<1>3. Len(new) \in 1..Len(new) /\ \A k \in (Len(new) + 1)..Len(new) : new[k].kind # "sync"
  BY <1>1
<1>4. After(have, new, Len(new), d)
  BY <1>1, <1>2, <1>3 DEF After
<1> QED BY <1>4 DEF new, x

\* After a run-now command it holds what it held.
LEMMA AfterRun ==
  ASSUME NEW have, NEW msgs \in Seq(Messages), NEW x \in Messages, x.kind = "run", NEW d,
         After(have, msgs, Len(msgs), d)
  PROVE  After(have, Append(msgs, x), Len(Append(msgs, x)), d)
<1> DEFINE new == Append(msgs, x)
           n == Len(msgs)
<1>1. n \in Nat /\ Len(new) = n + 1 /\ new[n + 1] = x /\ \A k \in 1..n : new[k] = msgs[k]
  <2> HIDE DEF Messages
  <2> QED BY AppendProperties, LenProperties
<1> HIDE DEF new
<1>2. CASE have = d /\ \A k \in 1..n : msgs[k].kind # "sync"
  <2>1. \A k \in 1..Len(new) : new[k].kind # "sync"
    BY <1>1, <1>2
  <2> QED BY <1>2, <2>1 DEF After, new
<1>3. CASE \E p \in 1..n : /\ msgs[p].kind = "sync" /\ msgs[p].jobs = d
                           /\ \A k \in (p + 1)..n : msgs[k].kind # "sync"
  <2>1. PICK p \in 1..n : /\ msgs[p].kind = "sync" /\ msgs[p].jobs = d
                          /\ \A k \in (p + 1)..n : msgs[k].kind # "sync"
    BY <1>3
  <2>2. p \in 1..Len(new) /\ new[p].kind = "sync" /\ new[p].jobs = d
    BY <1>1, <2>1
  <2>3. \A k \in (p + 1)..Len(new) : new[k].kind # "sync"
    BY <1>1, <2>1
  <2> QED BY <2>2, <2>3 DEF After, new
<1> QED BY <1>2, <1>3 DEF After

\* What the agent has after it received the first message.
Taken(have, msgs) == IF Head(msgs).kind = "sync" THEN Head(msgs).jobs ELSE have

\* The first message is received.
LEMMA AfterReceive ==
  ASSUME NEW have, NEW msgs \in Seq(Messages), msgs # << >>, NEW d, NEW n \in 1..Len(msgs),
         After(have, msgs, n, d)
  PROVE  After(Taken(have, msgs), Tail(msgs), n - 1, d)
<1> DEFINE t == Tail(msgs)
           N == Len(msgs)
<1>1. /\ N \in Nat /\ N >= 1 /\ Len(t) = N - 1 /\ Head(msgs) = msgs[1]
      /\ \A k \in 1..(N - 1) : t[k] = msgs[k + 1]
  <2> HIDE DEF Messages
  <2> QED BY HeadTailProperties, EmptySeq, LenProperties
<1> HIDE DEF t, N
<1>n. n \in Nat /\ n >= 1 /\ n <= N
  BY <1>1 DEF N
<1>2. \A k \in 1..(n - 1) : t[k] = msgs[k + 1] /\ k + 1 \in 1..n
  BY <1>1, <1>n
<1>3. CASE have = d /\ \A k \in 1..n : msgs[k].kind # "sync"
  <2>1. Taken(have, msgs) = d
    BY <1>1, <1>n, <1>3 DEF Taken
  <2>2. \A k \in 1..(n - 1) : t[k].kind # "sync"
    BY <1>2, <1>3
  <2> QED BY <2>1, <2>2 DEF After, t
<1>4. CASE \E p \in 1..n : /\ msgs[p].kind = "sync" /\ msgs[p].jobs = d
                           /\ \A k \in (p + 1)..n : msgs[k].kind # "sync"
  <2>1. PICK p \in 1..n : /\ msgs[p].kind = "sync" /\ msgs[p].jobs = d
                          /\ \A k \in (p + 1)..n : msgs[k].kind # "sync"
    BY <1>4
  <2>2. CASE p = 1
    <3>1. Taken(have, msgs) = d
      BY <1>1, <2>1, <2>2 DEF Taken
    <3>2. \A k \in 1..(n - 1) : t[k].kind # "sync"
      BY <1>2, <1>n, <2>1, <2>2
    <3> QED BY <3>1, <3>2 DEF After, t
  <2>3. CASE p # 1
    <3>1. p - 1 \in 1..(n - 1) /\ t[p - 1] = msgs[p]
      BY <1>1, <1>n, <2>1, <2>3
    <3>2. \A k \in ((p - 1) + 1)..(n - 1) : t[k].kind # "sync"
      <4> TAKE k \in ((p - 1) + 1)..(n - 1)
      <4>1. k \in 1..(n - 1) /\ k + 1 \in (p + 1)..n
        BY <1>n, <2>1
      <4> QED BY <1>2, <2>1, <4>1
    <3> QED BY <2>1, <3>1, <3>2 DEF After, t
  <2> QED BY <2>2, <2>3
<1> QED BY <1>3, <1>4 DEF After

-----------------------------------------------------------------------------
\* Nothing under way, nothing to meet.
LEMMA RunsNone == \A have : RunsMeet(have, << >>)
BY DEF RunsMeet

\* A snapshot that is appended meets nothing of what is before it.
LEMMA RunsSnapshot ==
  ASSUME NEW have, NEW msgs \in Seq(Messages), RunsMeet(have, msgs),
         NEW x \in Messages, x.kind = "sync"
  PROVE  RunsMeet(have, Append(msgs, x))
<1> DEFINE new == Append(msgs, x)
<1>1. /\ Len(msgs) \in Nat /\ Len(new) = Len(msgs) + 1 /\ new[Len(msgs) + 1] = x
      /\ \A k \in 1..Len(msgs) : new[k] = msgs[k]
  <2> HIDE DEF Messages
  <2> QED BY AppendProperties, LenProperties
<1> SUFFICES ASSUME NEW i \in 1..Len(new), new[i].kind = "run"
             PROVE  \E d \in DefSets : /\ After(have, new, i - 1, d)
                                       /\ d[new[i].job] # None /\ d[new[i].job].ver = new[i].ver
  BY DEF RunsMeet
<1>2. i \in 1..Len(msgs) /\ new[i] = msgs[i] /\ i - 1 \in 0..Len(msgs)
  BY <1>1
<1>3. PICK d \in DefSets : /\ After(have, msgs, i - 1, d)
                           /\ d[msgs[i].job] # None /\ d[msgs[i].job].ver = msgs[i].ver
  BY <1>2 DEF RunsMeet
<1>4. After(have, new, i - 1, d)
  BY <1>2, <1>3, AfterPrefix
<1> QED BY <1>2, <1>3, <1>4

\* A run-now command that is appended meets what the agent will hold.
LEMMA RunsCommand ==
  ASSUME NEW have, NEW msgs \in Seq(Messages), RunsMeet(have, msgs),
         NEW x \in Messages, NEW d \in DefSets, After(have, msgs, Len(msgs), d),
         d[x.job] # None, d[x.job].ver = x.ver
  PROVE  RunsMeet(have, Append(msgs, x))
<1> DEFINE new == Append(msgs, x)
<1>1. /\ Len(msgs) \in Nat /\ Len(new) = Len(msgs) + 1 /\ new[Len(msgs) + 1] = x
      /\ \A k \in 1..Len(msgs) : new[k] = msgs[k]
  <2> HIDE DEF Messages
  <2> QED BY AppendProperties, LenProperties
<1> SUFFICES ASSUME NEW i \in 1..Len(new), new[i].kind = "run"
             PROVE  \E e \in DefSets : /\ After(have, new, i - 1, e)
                                       /\ e[new[i].job] # None /\ e[new[i].job].ver = new[i].ver
  BY DEF RunsMeet
<1>2. CASE i \in 1..Len(msgs)
  <2>1. new[i] = msgs[i] /\ i - 1 \in 0..Len(msgs)
    BY <1>1, <1>2
  <2>2. PICK e \in DefSets : /\ After(have, msgs, i - 1, e)
                             /\ e[msgs[i].job] # None /\ e[msgs[i].job].ver = msgs[i].ver
    BY <1>2, <2>1 DEF RunsMeet
  <2>3. After(have, new, i - 1, e)
    BY <2>1, <2>2, AfterPrefix
  <2> QED BY <2>1, <2>2, <2>3
<1>3. CASE i = Len(msgs) + 1
  <2>1. new[i] = x /\ i - 1 = Len(msgs) /\ Len(msgs) \in 0..Len(msgs)
    BY <1>1, <1>3
  <2>2. After(have, new, i - 1, d)
    BY <2>1, AfterPrefix
  <2> QED BY <2>1, <2>2
<1> QED BY <1>1, <1>2, <1>3

\* The first message is received.
LEMMA RunsReceive ==
  ASSUME NEW have, NEW msgs \in Seq(Messages), msgs # << >>, RunsMeet(have, msgs)
  PROVE  RunsMeet(Taken(have, msgs), Tail(msgs))
<1> DEFINE t == Tail(msgs)
<1>1. /\ Len(msgs) \in Nat /\ Len(msgs) >= 1 /\ Len(t) = Len(msgs) - 1
      /\ \A k \in 1..(Len(msgs) - 1) : t[k] = msgs[k + 1]
  <2> HIDE DEF Messages
  <2> QED BY HeadTailProperties, EmptySeq, LenProperties
<1> SUFFICES ASSUME NEW i \in 1..Len(t), t[i].kind = "run"
             PROVE  \E d \in DefSets : /\ After(Taken(have, msgs), t, i - 1, d)
                                       /\ d[t[i].job] # None /\ d[t[i].job].ver = t[i].ver
  BY DEF RunsMeet
<1>2. i + 1 \in 1..Len(msgs) /\ t[i] = msgs[i + 1] /\ (i + 1) - 1 = i /\ i \in 1..Len(msgs)
  BY <1>1
<1>3. PICK d \in DefSets : /\ After(have, msgs, i, d)
                           /\ d[msgs[i + 1].job] # None /\ d[msgs[i + 1].job].ver = msgs[i + 1].ver
  BY <1>2 DEF RunsMeet
<1>4. After(Taken(have, msgs), t, i - 1, d)
  BY <1>2, <1>3, AfterReceive
<1> QED BY <1>2, <1>3, <1>4

\* What the properties say of an agent follows: it has received all there is, or
\* a run-now command is next.
LEMMA AfterAll ==
  ASSUME NEW have, NEW d, After(have, << >>, Len(<< >>), d)
  PROVE  have = d
BY DEF After

LEMMA RunsNext ==
  ASSUME NEW have, NEW msgs \in Seq(Messages), msgs # << >>, RunsMeet(have, msgs),
         Head(msgs).kind = "run"
  PROVE  have[Head(msgs).job] # None /\ have[Head(msgs).job].ver = Head(msgs).ver
<1>1. 1 \in 1..Len(msgs) /\ Head(msgs) = msgs[1]
  <2> HIDE DEF Messages
  <2> QED BY HeadTailProperties, EmptySeq, LenProperties
<1>2. PICK d \in DefSets : /\ After(have, msgs, 0, d)
                           /\ d[msgs[1].job] # None /\ d[msgs[1].job].ver = msgs[1].ver
  BY <1>1 DEF RunsMeet
<1>3. have = d
  BY <1>2 DEF After
<1> QED BY <1>1, <1>2, <1>3

-----------------------------------------------------------------------------
(***************************************************************************)
(* The tables and the snapshots made of them.                              *)
(***************************************************************************)
\* A row that exists is neither mark, nor is a definition.
LEMMA Marks == /\ \A row \in Rows : row \notin NoRow /\ row.target \in Targets
                                    /\ row.enabled \in BOOLEAN /\ row.ver \in Nat
               /\ \A d \in Defs : d # None
BY JobSyncAssumption DEF NoRow, Rows

LEMMA Snapshots ==
  ASSUME jobs \in [Jobs -> Rows \cup NoRow], NEW s
  PROVE  /\ BuildFullSync(s) \in DefSets
         /\ [kind |-> "sync", jobs |-> BuildFullSync(s)] \in Messages
<1>1. ASSUME NEW j \in Jobs, Matches(jobs[j], s)
      PROVE  [enabled |-> jobs[j].enabled, ver |-> jobs[j].ver] \in Defs
  <2>1. jobs[j] \in Rows
    BY <1>1 DEF Matches
  <2> QED BY <2>1, Marks DEF Defs
<1>2. BuildFullSync(s) \in DefSets
  BY <1>1 DEF BuildFullSync, DefSets
<1> HIDE DEF DefSets
<1> QED BY <1>2 DEF Messages

\* What a snapshot says of one job.
LEMMA SnapshotOf ==
  ASSUME NEW s, NEW j \in Jobs, Matches(jobs[j], s)
  PROVE  /\ BuildFullSync(s)[j] = [enabled |-> jobs[j].enabled, ver |-> jobs[j].ver]
BY DEF BuildFullSync

\* A write of job j leaves the snapshots of servers alone that neither its old
\* row nor its new one is for.
LEMMA Elsewhere ==
  ASSUME NEW j \in Jobs, NEW s \in Servers, labels' = labels,
         DOMAIN jobs = Jobs, NEW row, jobs' = [jobs EXCEPT ![j] = row],
         ~Matches(jobs[j], s), ~Matches(row, s)
  PROVE  BuildFullSync(s)' = BuildFullSync(s)
<1>1. jobs'[j] = row /\ \A i \in Jobs \ {j} : jobs'[i] = jobs[i]
  OBVIOUS
<1>2. \A i \in Jobs : Matches(jobs[i], s)' <=> Matches(jobs[i], s)
  BY <1>1 DEF Matches
<1> QED BY <1>1, <1>2 DEF BuildFullSync

-----------------------------------------------------------------------------
(***************************************************************************)
(* Steps of a request.                                                     *)
(***************************************************************************)
\* What is said of rows, snapshots and streams stays while nothing they are made
\* of changes.
LEMMA SameTables ==
  ASSUME UNCHANGED <<jobs, labels>>
  PROVE  /\ \A s : BuildFullSync(s)' = BuildFullSync(s)
         /\ \A row, s : Matches(row, s)' <=> Matches(row, s)
BY DEF BuildFullSync, Matches

LEMMA SameStream ==
  ASSUME NEW s, BuildFullSync(s)' = BuildFullSync(s), link'[s] = link[s],
         initial'[s] = initial[s], out'[s] = out[s], agent'[s] = agent[s]
  PROVE  (Built(s)' <=> Built(s)) /\ (Right(s)' <=> Right(s))
BY DEF Built, Right

\* A thread that does not run has read nothing and pushes to nobody.
LEMMA Idle ==
  /\ \A q : ~Active(q) => Fresh(q) /\ \A s : ~Pending(q, s)
  /\ \A q : ~Active(q)' => Fresh(q)' /\ \A s : ~Pending(q, s)'
BY DEF Active, Fresh, Pending

\* The thread that runs while requests come one at a time is alone.
LEMMA Alone ==
  ASSUME SerialInv, ~overlap, NEW q \in Reqs, Active(q)
  PROVE  /\ \A p \in Reqs \ {q} : ~Active(p)
         /\ \A s \in Servers : ~Joining(s)
         /\ \A s \in Servers : Right(s) \/ Pending(q, s)
         /\ Fresh(q)
<1>1. \A p \in Reqs \ {q} : ~Active(p)
  BY DEF SerialInv
<1>2. \A s \in Servers : Right(s) \/ \E p \in Reqs : Pending(p, s)
  BY DEF SerialInv
<1> QED BY <1>1, <1>2, Idle DEF SerialInv

\* Its step keeps the invariant if what it knows is right, and those who are not
\* right are still to be pushed to.
LEMMA Turn ==
  ASSUME Typed, SerialInv, NEW q \in Reqs, Active(q), NEW r, req' = [req EXCEPT ![q] = r],
         UNCHANGED <<link, overlap>>,
         ~overlap => /\ Fresh(q)'
                     /\ \A s \in Servers : RunsMeet(agent[s], out[s])'
                     /\ \A s \in Servers : Right(s)' \/ Pending(q, s)'
  PROVE  SerialInv'
<1> SUFFICES ASSUME ~overlap PROVE SerialInv'
  BY DEF SerialInv
<1>1. \A p \in Reqs \ {q} : ~Active(p)' /\ Fresh(p)'
  <2>1. \A p \in Reqs \ {q} : req'[p] = req[p]
    BY DEF Typed, TypedReqs
  <2> QED BY <2>1, Alone, Idle DEF Active
<1>2. \A s \in Servers : ~Joining(s)'
  BY Alone DEF Joining
<1>3. \A s \in Servers : Built(s)'
  BY <1>2 DEF Built, Joining
<1> QED BY <1>1, <1>2, <1>3 DEF SerialInv

\* A step that changes only the thread.
LEMMA Thinks ==
  ASSUME Typed, SerialInv, NEW q \in Reqs, Active(q), NEW r, req' = [req EXCEPT ![q] = r],
         UNCHANGED <<db, linkVars, out, agentVars, overlap>>,
         ~overlap /\ Fresh(q) => Fresh(q)' /\ \A s \in Servers : Pending(q, s) => Pending(q, s)'
  PROVE  SerialInv'
<1> SUFFICES ASSUME ~overlap PROVE SerialInv'
  BY DEF SerialInv
<1>1. UNCHANGED <<jobs, labels, link, initial, out, agent>>
  BY DEF db, linkVars, agentVars
<1>2. \A s \in Servers : Right(s)' <=> Right(s)
  BY <1>1, SameTables, SameStream
<1>3. \A s \in Servers : RunsMeet(agent[s], out[s])'
  BY <1>1 DEF SerialInv
<1>4. \A s \in Servers : Right(s)' \/ Pending(q, s)'
  BY <1>2, Alone
<1> QED BY <1>1, <1>3, <1>4, Turn, Alone

\* While a thread runs, no stream is settled.
LEMMA Unsettled ==
  ASSUME SettledInv, NEW q \in Reqs, Active(q), settled' = settled
  PROVE  SettledInv'
BY DEF SettledInv

\* The types, after a step that changes the thread and nothing else.
LEMMA ThinksTyped ==
  ASSUME Typed, NEW q \in Reqs, NEW r, req' = [req EXCEPT ![q] = r], TypedReq(r),
         UNCHANGED <<db, linkVars, out, agentVars, settled>>
  PROVE  Typed'
<1>1. TypedTables' /\ TypedLinks'
  BY DEF Typed, TypedTables, TypedLinks, db, linkVars, agentVars
<1>2. TypedReqs'
  BY DEF Typed, TypedReqs
<1> QED BY <1>1, <1>2 DEF Typed

\* A thread that has ended.
LEMMA DoneTyped == LET d == [NewReq EXCEPT !.pc = "done"] IN
  TypedReq(d) /\ d.pc = "done"
<1>1. << >> \in Seq(Rows \cup NoRow)
  <2> HIDE DEF Rows, NoRow
  <2> QED BY EmptySeq
<1> QED BY <1>1 DEF TypedReq, NewReq, PCs

-----------------------------------------------------------------------------
Inv == Typed /\ SettledInv /\ SerialInv

\* The first step of a request.
LEMMA BeginStep ==
  ASSUME Inv, NEW q \in Reqs, NEW op, NEW pc, NEW j, NEW in, Begin(q, op, pc, j, in),
         overlap' = overlap,
         op \in JobOps \cup {"labels"}, pc \in {"get", "write"},
         op \in JobOps => j \in Jobs,
         pc = "get" => op \in {"patch", "delete", "runNow"},
         pc = "write" => op \in {"create", "setEnabled", "labels"},
         op = "create" => in \in Rows, op = "setEnabled" => in \in BOOLEAN,
         op = "labels" => in.server \in Servers, op = "patch" => in \in Inputs
  PROVE  Inv'
<1> DEFINE r == [req[q] EXCEPT !.op = op, !.pc = pc, !.job = j, !.input = in]
<1>1. /\ MayStart /\ req[q].pc = "new" /\ req' = [req EXCEPT ![q] = r] /\ settled' = {}
      /\ UNCHANGED <<db, linkVars, out, agentVars>>
  BY DEF Begin
<1>2. TypedReq(req[q]) /\ DOMAIN req = Reqs
  BY DEF Inv, Typed, TypedReqs
<1>3. r.pc = pc /\ r.op = op /\ r.job = j /\ r.input = in /\ r.seen = {} /\ r.plan = req[q].plan
      /\ r.todo = req[q].todo /\ DOMAIN r = DOMAIN NewReq
  BY <1>1, <1>2 DEF TypedReq, NewReq
<1> HIDE DEF r
<1>4. TypedReq(r)
  BY <1>2, <1>3 DEF TypedReq, JobOps, PCs
<1>5. Typed'
  <2>1. TypedTables' /\ TypedLinks'
    BY <1>1 DEF Inv, Typed, TypedTables, TypedLinks, db, linkVars, agentVars
  <2>2. TypedReqs'
    BY <1>1, <1>2, <1>4 DEF Inv, Typed, TypedReqs
  <2> QED BY <2>1, <2>2 DEF Typed
<1>6. SettledInv'
  BY <1>1 DEF SettledInv
<1>7. SerialInv'
  <2> SUFFICES ASSUME ~overlap PROVE SerialInv'
    BY DEF SerialInv
  <2>1. (\A p \in Reqs : ~Active(p)) /\ \A s \in Servers : ~Joining(s)
    BY <1>1 DEF MayStart, Quiet
  <2>2. UNCHANGED <<jobs, labels, link, initial, out, agent>>
    BY <1>1 DEF db, linkVars, agentVars
  <2>3. req'[q] = r /\ \A p \in Reqs \ {q} : req'[p] = req[p] /\ ~Active(p)'
    BY <1>1, <1>2, <2>1 DEF Active
  <2>4. \A s \in Servers : Right(s) /\ Built(s) /\ RunsMeet(agent[s], out[s])
    BY <2>1, Idle DEF Inv, SerialInv
  <2>5. \A s \in Servers : Right(s)' /\ Built(s)' /\ RunsMeet(agent[s], out[s])'
    BY <2>2, <2>4, SameTables, SameStream
  <2>6. Fresh(q)'
    BY <1>3, <2>3 DEF Fresh
  <2>7. \A p \in Reqs : Fresh(p)'
    BY <2>3, <2>6, Idle
  <2>8. \A s \in Servers : ~Joining(s)'
    BY <2>1, <2>2 DEF Joining
  <2> QED BY <2>3, <2>5, <2>7, <2>8 DEF SerialInv
<1> QED BY <1>5, <1>6, <1>7 DEF Inv

\* Every way a request may begin.
LEMMA StartStep ==
  ASSUME Inv, NEW q \in Reqs, Start(q), overlap' = overlap
  PROVE  Inv'
<1>1. ASSUME NEW j \in Jobs, NEW t \in Targets, NEW e \in BOOLEAN,
             Begin(q, "create", "write", j, [target |-> t, enabled |-> e, ver |-> 1])
      PROVE  Inv'
  <2> DEFINE in == [target |-> t, enabled |-> e, ver |-> 1]
  <2>1. in \in Rows
    BY DEF Rows
  <2> HIDE DEF in
  <2>2. Begin(q, "create", "write", j, in)
    BY <1>1 DEF in
  <2> QED BY <2>1, <2>2, BeginStep DEF JobOps
<1>2. ASSUME NEW j \in Jobs, NEW in \in Inputs, Begin(q, "patch", "get", j, in)
      PROVE  Inv'
  <2> HIDE DEF Inputs
  <2> QED BY <1>2, BeginStep DEF JobOps
<1>3. ASSUME NEW j \in Jobs, NEW e \in BOOLEAN, Begin(q, "setEnabled", "write", j, e)
      PROVE  Inv'
  BY <1>3, BeginStep DEF JobOps
<1>4. ASSUME NEW j \in Jobs, NEW op \in {"delete", "runNow"}, Begin(q, op, "get", j, None)
      PROVE  Inv'
  BY <1>4, BeginStep DEF JobOps
<1>5. ASSUME NEW s \in Servers, NEW L \in SUBSET Labels,
             Begin(q, "labels", "write", None, [server |-> s, labels |-> L])
      PROVE  Inv'
  <2> DEFINE in == [server |-> s, labels |-> L]
  <2>1. in.server \in Servers
    OBVIOUS
  <2> HIDE DEF in
  <2>2. Begin(q, "labels", "write", None, in)
    BY <1>5 DEF in
  <2> QED BY <2>1, <2>2, BeginStep DEF JobOps
<1> QED BY <1>1, <1>2, <1>3, <1>4, <1>5 DEF Start

\* A thread that ends has nobody left to push to.
LEMMA EndsStep ==
  ASSUME Inv, NEW q \in Reqs, Active(q), Done(q),
         UNCHANGED <<db, linkVars, out, agentVars, settled, overlap>>,
         ~overlap => \A s \in Servers : ~Pending(q, s)
  PROVE  Inv'
<1> DEFINE d == [NewReq EXCEPT !.pc = "done"]
<1>1. req' = [req EXCEPT ![q] = d] /\ TypedReq(d) /\ d.pc = "done"
  BY DoneTyped DEF Done, Set
<1> HIDE DEF d
<1>2. Typed'
  BY <1>1, ThinksTyped DEF Inv
<1>3. ~Active(q)'
  BY <1>1 DEF Inv, Typed, TypedReqs, Active
<1>4. SerialInv'
  BY <1>1, <1>3, Thinks, Idle DEF Inv
<1> QED BY <1>2, <1>4, Unsettled DEF Inv

\* A thread goes on and changes nothing but what it knows.
LEMMA KnowsStep ==
  ASSUME Inv, NEW q \in Reqs, Active(q), NEW r, Set(q, r),
         UNCHANGED <<db, linkVars, out, agentVars, settled, overlap>>,
         TypedReq(r),
         ~overlap /\ Fresh(q) => Fresh(q)' /\ \A s \in Servers : Pending(q, s) => Pending(q, s)'
  PROVE  Inv'
<1>1. req' = [req EXCEPT ![q] = r]
  BY DEF Set
<1>2. Typed'
  BY <1>1, ThinksTyped DEF Inv
<1>3. SerialInv'
  BY <1>1, Thinks DEF Inv
<1> QED BY <1>2, <1>3, Unsettled DEF Inv

\* What a plan of one row or of two rows is.
LEMMA Plans ==
  ASSUME NEW a \in Rows \cup NoRow, NEW b \in Rows \cup NoRow
  PROVE  /\ <<a>> \in Seq(Rows \cup NoRow) /\ Len(<<a>>) = 1 /\ <<a>>[1] = a
         /\ <<a, b>> \in Seq(Rows \cup NoRow) /\ Len(<<a, b>>) = 2
         /\ <<a, b>>[1] = a /\ <<a, b>>[2] = b
<1> DEFINE S == Rows \cup NoRow
<1>1. a \in S /\ b \in S
  OBVIOUS
<1> HIDE DEF S
<1>2. <<a>> \in Seq(S) /\ <<a, b>> \in Seq(S)
  BY <1>1
<1> QED BY <1>2 DEF S

LEMMA GetStep ==
  ASSUME Inv, NEW q \in Reqs, Get(q), overlap' = overlap
  PROVE  Inv'
<1> DEFINE row == jobs[req[q].job]
           r == [req[q] EXCEPT !.before = row]
<1>1. /\ req[q].pc = "get" /\ TypedReq(req[q]) /\ Active(q) /\ DOMAIN req = Reqs
      /\ UNCHANGED <<db, linkVars, out, agentVars, settled>>
  BY DEF Get, Inv, Typed, TypedReqs, Active
<1>2. req[q].job \in Jobs /\ req[q].op \in {"patch", "delete", "runNow"} /\ req[q].seen = {}
  BY <1>1 DEF TypedReq, JobOps
<1>3. row \in Rows \cup NoRow
  BY <1>2 DEF Inv, Typed, TypedTables
<1>4. UNCHANGED <<jobs, labels>>
  BY <1>1 DEF db
<1>5. \A s : ~Pending(q, s)
  BY <1>1 DEF Pending
<1>6. ASSUME req[q].op = "patch", Set(q, [r EXCEPT !.pc = "load"]) PROVE Inv'
  <2> DEFINE u == [r EXCEPT !.pc = "load"]
  <2>1. /\ DOMAIN u = DOMAIN NewReq /\ u.pc = "load" /\ u.op = "patch" /\ u.before = row
        /\ u.job = req[q].job /\ u.input = req[q].input /\ u.plan = req[q].plan
        /\ u.todo = req[q].todo /\ u.seen = {}
    BY <1>1, <1>2, <1>6 DEF TypedReq, NewReq
  <2>2. Set(q, u)
    BY <1>6
  <2> HIDE DEF u
  <2>a. /\ u.plan \in Seq(Rows \cup NoRow) /\ u.todo \subseteq Servers
        /\ u.input \in Inputs /\ u.job \in Jobs /\ u.before \in Rows \cup NoRow
    BY <1>1, <1>2, <1>3, <1>6, <2>1 DEF TypedReq
  <2>3. TypedReq(u)
    BY <2>1, <2>a DEF TypedReq, PCs, JobOps
  <2>4. req'[q] = u
    BY <1>1, <2>2 DEF Set
  <2>5. Fresh(q)'
    BY <1>4, <2>1, <2>4 DEF Fresh
  <2> QED BY <1>1, <1>5, <2>2, <2>3, <2>5, KnowsStep
<1>7. ASSUME Done(q) PROVE Inv'
  BY <1>1, <1>5, <1>7, EndsStep
<1>8. ASSUME req[q].op = "delete", Set(q, [r EXCEPT !.pc = "write", !.plan = <<row>>]) PROVE Inv'
  <2> DEFINE u == [r EXCEPT !.pc = "write", !.plan = <<row>>]
  <2>1. /\ DOMAIN u = DOMAIN NewReq /\ u.pc = "write" /\ u.op = "delete" /\ u.plan = <<row>>
        /\ u.job = req[q].job /\ u.todo = req[q].todo /\ u.seen = {}
    BY <1>1, <1>2, <1>8 DEF TypedReq, NewReq
  <2>2. Set(q, u)
    BY <1>8
  <2> HIDE DEF u
  <2>3. TypedReq(u)
    BY <1>1, <1>2, <1>3, <2>1, Plans DEF TypedReq, PCs, JobOps
  <2>4. req'[q] = u
    BY <1>1, <2>2 DEF Set
  <2>5. Fresh(q)'
    BY <1>4, <2>1, <2>4 DEF Fresh
  <2> QED BY <1>1, <1>5, <2>2, <2>3, <2>5, KnowsStep
<1>9. ASSUME req[q].op = "runNow", row \notin NoRow,
             Set(q, [r EXCEPT !.pc = "match", !.row = row, !.plan = <<row>>])
      PROVE  Inv'
  <2> DEFINE u == [r EXCEPT !.pc = "match", !.row = row, !.plan = <<row>>]
  <2>1. /\ DOMAIN u = DOMAIN NewReq /\ u.pc = "match" /\ u.op = "runNow" /\ u.plan = <<row>>
        /\ u.row = row /\ u.job = req[q].job /\ u.todo = req[q].todo /\ u.seen = {}
    BY <1>1, <1>2, <1>9 DEF TypedReq, NewReq
  <2>2. Set(q, u) /\ row \in Rows
    BY <1>3, <1>9
  <2> HIDE DEF u
  <2>3. TypedReq(u)
    BY <1>1, <1>2, <2>1, <2>2, Plans DEF TypedReq, PCs, JobOps
  <2>4. req'[q] = u
    BY <1>1, <2>2 DEF Set
  <2>5. (\A i \in 1..Len(u.plan) : u.plan[i] = row)
    BY <1>3, <2>1, Plans
  <2>6. Fresh(q)'
    BY <1>4, <2>1, <2>4, <2>5 DEF Fresh
  <2> QED BY <1>1, <1>5, <2>2, <2>3, <2>6, KnowsStep
<1> QED BY <1>2, <1>6, <1>7, <1>8, <1>9 DEF Get

LEMMA LoadStep ==
  ASSUME Inv, NEW q \in Reqs, Load(q), overlap' = overlap
  PROVE  Inv'
<1> DEFINE row == jobs[req[q].job]
           u == [req[q] EXCEPT !.row = row, !.pc = "write"]
<1>1. /\ req[q].pc = "load" /\ TypedReq(req[q]) /\ Active(q) /\ DOMAIN req = Reqs
      /\ UNCHANGED <<db, linkVars, out, agentVars, settled>>
  BY DEF Load, Inv, Typed, TypedReqs, Active
<1>2. /\ req[q].job \in Jobs /\ req[q].op = "patch" /\ req[q].seen = {}
      /\ req[q].plan \in Seq(Rows \cup NoRow) /\ req[q].todo \subseteq Servers
      /\ req[q].input \in Inputs /\ req[q].before \in Rows \cup NoRow
  BY <1>1 DEF TypedReq, JobOps
<1>3. row \in Rows \cup NoRow
  BY <1>2 DEF Inv, Typed, TypedTables
<1>4. UNCHANGED <<jobs, labels>>
  BY <1>1 DEF db
<1>5. \A s : ~Pending(q, s)
  BY <1>1 DEF Pending
<1>6. ASSUME Exists(req[q].job), Set(q, u) PROVE Inv'
  <2>1. /\ DOMAIN u = DOMAIN NewReq /\ u.pc = "write" /\ u.op = "patch"
        /\ u.before = req[q].before /\ u.row = row
        /\ u.job = req[q].job /\ u.input = req[q].input /\ u.plan = req[q].plan
        /\ u.todo = req[q].todo /\ u.seen = {}
    BY <1>1, <1>2 DEF TypedReq, NewReq
  <2>2. Set(q, u) /\ row \in Rows
    BY <1>3, <1>6 DEF Exists
  <2> HIDE DEF u
  <2>3. TypedReq(u)
    BY <1>2, <2>1, <2>2 DEF TypedReq, PCs, JobOps
  <2>4. req'[q] = u
    BY <1>1, <2>2 DEF Set
  <2>5. Fresh(q) => Fresh(q)'
    BY <1>1, <1>2, <1>4, <2>1, <2>4 DEF Fresh
  <2> QED BY <1>1, <1>5, <2>2, <2>3, <2>5, KnowsStep
<1>7. ASSUME Done(q) PROVE Inv'
  BY <1>1, <1>5, <1>7, EndsStep
<1> QED BY <1>6, <1>7 DEF Load

-----------------------------------------------------------------------------
(***************************************************************************)
(* The writes.                                                             *)
(***************************************************************************)
\* A write keeps the invariant if the thread will push to every server whose
\* snapshot it changes.
LEMMA WritesStep ==
  ASSUME Inv, NEW q \in Reqs, req[q].pc = "write", NEW r, Set(q, r),
         UNCHANGED <<linkVars, out, agentVars, settled, overlap>>,
         TypedReq(r), TypedTables',
         ~overlap /\ Fresh(q) =>
           Fresh(q)' /\ \A s \in Servers : Pending(q, s)' \/ BuildFullSync(s)' = BuildFullSync(s)
  PROVE  Inv'
<1>1. req' = [req EXCEPT ![q] = r] /\ Active(q) /\ DOMAIN req = Reqs
  BY DEF Set, Active, Inv, Typed, TypedReqs
<1>2. UNCHANGED <<link, initial, out, agent, disk, settled>>
  BY DEF linkVars, agentVars
<1>3. Typed'
  <2>1. TypedLinks'
    BY <1>2 DEF Inv, Typed, TypedLinks
  <2>2. TypedReqs'
    BY <1>1 DEF Inv, Typed, TypedReqs
  <2> QED BY <2>1, <2>2 DEF Typed
<1>4. ASSUME ~overlap
      PROVE  /\ Fresh(q)'
             /\ \A s \in Servers : RunsMeet(agent[s], out[s])'
             /\ \A s \in Servers : Right(s)' \/ Pending(q, s)'
  <2>1. \A s : ~Pending(q, s)
    BY DEF Pending
  <2>2. (\A s \in Servers : Right(s)) /\ Fresh(q)
    BY <1>1, <1>4, <2>1, Alone DEF Inv
  <2>3. \A s \in Servers : Pending(q, s)' \/ BuildFullSync(s)' = BuildFullSync(s)
    BY <1>4, <2>2
  <2>4. \A s \in Servers : Right(s)' \/ Pending(q, s)'
    BY <1>2, <2>2, <2>3, SameStream
  <2>5. \A s \in Servers : RunsMeet(agent[s], out[s])'
    BY <1>2, <1>4 DEF Inv, SerialInv
  <2> QED BY <1>4, <2>2, <2>4, <2>5
<1>5. SerialInv'
  BY <1>1, <1>2, <1>4, Turn DEF Inv
<1> QED BY <1>1, <1>3, <1>5, Unsettled DEF Inv

\* A thread that writes nothing ends.
LEMMA WriteFails ==
  ASSUME Inv, NEW q \in Reqs, req[q].pc = "write", Done(q),
         UNCHANGED <<db, linkVars, out, agentVars, settled, overlap>>
  PROVE  Inv'
<1>1. Active(q) /\ \A s : ~Pending(q, s)
  BY DEF Active, Pending
<1> QED BY <1>1, EndsStep

\* A write of row j: old is what it replaces, b and plan what the thread has
\* read before, and where it goes on at pc tells it of whom the write concerns.
RowWrite(q, j, old, b, plan, row, pc) ==
  /\ req[q].pc = "write" /\ req[q].op \in JobOps
  /\ j = req[q].job /\ old = jobs[j] /\ b = req[q].before /\ plan = req[q].plan
  /\ row \in Rows \cup NoRow /\ jobs' = [jobs EXCEPT ![j] = row] /\ labels' = labels
  /\ pc \in {"reload", "match"} /\ Set(q, [req[q] EXCEPT !.pc = pc])
  /\ pc = "reload" => req[q].op \in {"create", "patch", "setEnabled"}
  /\ req[q].op = "patch" => row \in Rows
  /\ ~overlap /\ Fresh(q) =>
       \A s \in Servers : Matches(row, s) \/ Matches(old, s) =>
         \/ pc = "reload" /\ (Matches(row, s) \/ (req[q].op = "patch" /\ Matches(b, s)))
         \/ pc = "match" /\ Matches(plan[1], s) /\ 1 \in 1..Len(plan)

\* A write of the row of the thread's job.
LEMMA RowStep ==
  ASSUME Inv, NEW q \in Reqs, NEW j, NEW old, NEW b, NEW plan, NEW row, NEW pc,
         RowWrite(q, j, old, b, plan, row, pc),
         UNCHANGED <<linkVars, out, agentVars, settled, overlap>>
  PROVE  Inv'
<1> SUFFICES
  ASSUME req[q].pc = "write", req[q].op \in JobOps,
         j = req[q].job, old = jobs[j], b = req[q].before, plan = req[q].plan,
         row \in Rows \cup NoRow, jobs' = [jobs EXCEPT ![j] = row], labels' = labels,
         pc \in {"reload", "match"}, Set(q, [req[q] EXCEPT !.pc = pc]),
         pc = "reload" => req[q].op \in {"create", "patch", "setEnabled"},
         req[q].op = "patch" => row \in Rows,
         ~overlap /\ Fresh(q) =>
           \A s \in Servers : Matches(row, s) \/ Matches(old, s) =>
             \/ pc = "reload" /\ (Matches(row, s) \/ (req[q].op = "patch" /\ Matches(b, s)))
             \/ pc = "match" /\ Matches(plan[1], s) /\ 1 \in 1..Len(plan)
  PROVE  Inv'
  BY DEF RowWrite
<1> DEFINE u == [req[q] EXCEPT !.pc = pc]
<1>1. TypedReq(req[q]) /\ DOMAIN req = Reqs /\ DOMAIN jobs = Jobs /\ j \in Jobs /\ req[q].op # "runNow"
  BY DEF Inv, Typed, TypedReqs, TypedTables, TypedReq
<1>2. /\ DOMAIN u = DOMAIN NewReq /\ u.pc = pc /\ u.op = req[q].op /\ u.before = b
      /\ u.job = j /\ u.plan = plan /\ u.todo = req[q].todo /\ u.seen = {}
  BY <1>1 DEF TypedReq, NewReq
<1>3. /\ plan \in Seq(Rows \cup NoRow) /\ req[q].todo \subseteq Servers
      /\ req[q].op = "patch" => b \in Rows \cup NoRow
  BY <1>1 DEF TypedReq
<1>4. Set(q, u) /\ req'[q] = u
  BY <1>1 DEF Set
<1> HIDE DEF u
<1>5. TypedReq(u)
  BY <1>1, <1>2, <1>3 DEF TypedReq, PCs, JobOps
<1>6. TypedTables'
  BY <1>1 DEF Inv, Typed, TypedTables
<1>7. jobs'[j] = row
  BY <1>1
<1>8. ASSUME ~overlap, Fresh(q)
      PROVE  Fresh(q)' /\ \A s \in Servers : Pending(q, s)' \/ BuildFullSync(s)' = BuildFullSync(s)
  <2>1. Fresh(q)'
    <3>1. req[q].op = "patch" => jobs'[j] \notin NoRow
      BY <1>7, Marks
    <3> QED BY <1>1, <1>2, <1>4, <3>1 DEF Fresh, Exists
  <2>2. ASSUME NEW s \in Servers, ~Pending(q, s)' PROVE BuildFullSync(s)' = BuildFullSync(s)
    <3>1. \A x : Matches(x, s)' <=> Matches(x, s)
      BY DEF Matches
    <3>2. ~ (pc = "reload" /\ (Matches(row, s)' \/ (req[q].op = "patch" /\ Matches(b, s)')))
      BY <1>2, <1>4, <1>7, <2>2 DEF Pending
    <3>3. ~ (pc = "match" /\ Matches(plan[1], s)' /\ 1 \in 1..Len(plan))
      BY <1>1, <1>2, <1>4, <2>2 DEF Pending
    <3>4. ~Matches(old, s) /\ ~Matches(row, s)
      BY <1>8, <3>1, <3>2, <3>3
    <3> QED BY <1>1, <3>4, Elsewhere
  <2> QED BY <2>1, <2>2
<1> QED BY <1>4, <1>5, <1>6, <1>8, WritesStep

LEMMA InsertStep ==
  ASSUME Inv, NEW q \in Reqs, req[q].pc = "write", Insert(q),
         UNCHANGED <<linkVars, out, agentVars, settled, overlap>>
  PROVE  Inv'
<1>0. PICK j, row, old, b, plan : /\ j = req[q].job /\ row = req[q].input /\ old = jobs[j]
                                  /\ b = req[q].before /\ plan = req[q].plan
  OBVIOUS
<1>1. TypedReq(req[q]) /\ req[q].op = "create"
  BY DEF Insert, Inv, Typed, TypedReqs
<1>2. row \in Rows
  BY <1>0, <1>1 DEF TypedReq
<1>3. ASSUME old = None, jobs' = [jobs EXCEPT ![j] = row], labels' = labels,
             Set(q, [req[q] EXCEPT !.pc = "reload"])
      PROVE  Inv'
  <2>1. \A s \in Servers : ~Matches(old, s)
    BY <1>3 DEF Matches, NoRow
  <2>2. \A s \in Servers : Matches(row, s) \/ Matches(old, s) => Matches(row, s)
    BY <2>1
  <2>3. PICK pc : pc = "reload"
    OBVIOUS
  <2>4. ~overlap /\ Fresh(q) =>
          \A s \in Servers : Matches(row, s) \/ Matches(old, s) =>
            \/ pc = "reload" /\ (Matches(row, s) \/ (req[q].op = "patch" /\ Matches(b, s)))
            \/ pc = "match" /\ Matches(plan[1], s) /\ 1 \in 1..Len(plan)
    BY <2>2, <2>3
  <2>5. /\ jobs' = [jobs EXCEPT ![j] = row] /\ labels' = labels /\ row \in Rows \cup NoRow
        /\ Set(q, [req[q] EXCEPT !.pc = pc])
    BY <1>2, <1>3, <2>3
  <2>6. /\ req[q].op \in JobOps /\ pc \in {"reload", "match"}
        /\ req[q].op \in {"create", "patch", "setEnabled"}
    BY <1>1, <2>3 DEF JobOps
  <2>9. RowWrite(q, j, old, b, plan, row, pc)
    BY <1>0, <1>2, <2>4, <2>5, <2>6 DEF RowWrite
  <2> QED BY <2>9, RowStep
<1>4. ASSUME UNCHANGED <<jobs, versions, labels>>, Done(q) PROVE Inv'
  BY <1>4, WriteFails DEF db
<1> QED BY <1>0, <1>3, <1>4 DEF Insert

\* What Patch writes is a row.
LEMMA PatchedRow ==
  ASSUME NEW row \in Rows, NEW in \in Inputs
  PROVE  Patched(row, in) \in Rows
<1>1. CASE in \in [field : {"target"}, val : Targets]
  BY <1>1 DEF Patched, Rows
<1>2. CASE in \in [field : {"enabled"}, val : BOOLEAN]
  BY <1>2 DEF Patched, Rows
<1>3. CASE in \in [field : {"script"}, val : {None}]
  BY <1>3 DEF Patched, Rows
<1> QED BY <1>1, <1>2, <1>3 DEF Inputs

LEMMA PatchStep ==
  ASSUME Inv, NEW q \in Reqs, req[q].pc = "write", Patch(q),
         UNCHANGED <<linkVars, out, agentVars, settled, overlap>>
  PROVE  Inv'
<1>0. PICK j, row, old, b, plan :
        /\ j = req[q].job /\ row = Patched(req[q].row, req[q].input) /\ old = jobs[j]
        /\ b = req[q].before /\ plan = req[q].plan
  OBVIOUS
<1>1. TypedReq(req[q]) /\ req[q].op = "patch"
  BY DEF Patch, Inv, Typed, TypedReqs
<1>2. req[q].row \in Rows /\ req[q].input \in Inputs
  BY <1>1 DEF TypedReq
<1>3. row \in Rows
  BY <1>0, <1>2, PatchedRow
<1>4. ASSUME jobs' = [jobs EXCEPT ![j] = row], labels' = labels,
             Set(q, [req[q] EXCEPT !.pc = "reload"])
      PROVE  Inv'
  <2>1. Fresh(q) => b = old
    BY <1>0, <1>1 DEF Fresh
  <2>2. Fresh(q) => \A s \in Servers : Matches(row, s) \/ Matches(old, s) =>
                                       Matches(row, s) \/ Matches(b, s)
    BY <2>1
  <2>3. PICK pc : pc = "reload"
    OBVIOUS
  <2>4. ~overlap /\ Fresh(q) =>
          \A s \in Servers : Matches(row, s) \/ Matches(old, s) =>
            \/ pc = "reload" /\ (Matches(row, s) \/ (req[q].op = "patch" /\ Matches(b, s)))
            \/ pc = "match" /\ Matches(plan[1], s) /\ 1 \in 1..Len(plan)
    BY <1>1, <2>2, <2>3
  <2>5. /\ jobs' = [jobs EXCEPT ![j] = row] /\ labels' = labels /\ row \in Rows \cup NoRow
        /\ Set(q, [req[q] EXCEPT !.pc = pc])
    BY <1>3, <1>4, <2>3
  <2>6. /\ req[q].op \in JobOps /\ pc \in {"reload", "match"}
        /\ req[q].op \in {"create", "patch", "setEnabled"}
    BY <1>1, <2>3 DEF JobOps
  <2>9. RowWrite(q, j, old, b, plan, row, pc)
    BY <1>0, <1>3, <2>4, <2>5, <2>6 DEF RowWrite
  <2> QED BY <2>9, RowStep
<1>5. ASSUME UNCHANGED <<jobs, versions, labels>>, Done(q) PROVE Inv'
  BY <1>5, WriteFails DEF db
<1> QED BY <1>0, <1>4, <1>5 DEF Patch

LEMMA SetEnabledStep ==
  ASSUME Inv, NEW q \in Reqs, req[q].pc = "write", SetEnabled(q),
         UNCHANGED <<linkVars, out, agentVars, settled, overlap>>
  PROVE  Inv'
<1>0. PICK j, row, old, b, plan :
        /\ j = req[q].job /\ row = [jobs[j] EXCEPT !.enabled = req[q].input] /\ old = jobs[j]
        /\ b = req[q].before /\ plan = req[q].plan
  OBVIOUS
<1>1. TypedReq(req[q]) /\ req[q].op = "setEnabled"
  BY DEF SetEnabled, Inv, Typed, TypedReqs
<1>2. req[q].input \in BOOLEAN /\ j \in Jobs
  BY <1>0, <1>1 DEF TypedReq, JobOps
<1>3. ASSUME Exists(j), jobs' = [jobs EXCEPT ![j].enabled = req[q].input], labels' = labels,
             Set(q, [req[q] EXCEPT !.pc = "reload"])
      PROVE  Inv'
  <2>1. old \in Rows
    BY <1>0, <1>2, <1>3 DEF Exists, Inv, Typed, TypedTables
  <2>2. row \in Rows /\ row.target = old.target
    BY <1>0, <1>2, <2>1 DEF Rows
  <2>3. jobs' = [jobs EXCEPT ![j] = row]
    BY <1>0, <1>3
  <2>4. \A s \in Servers : Matches(row, s) \/ Matches(old, s) => Matches(row, s)
    BY <2>1, <2>2, Marks DEF Matches
  <2>5. PICK pc : pc = "reload"
    OBVIOUS
  <2>6. ~overlap /\ Fresh(q) =>
          \A s \in Servers : Matches(row, s) \/ Matches(old, s) =>
            \/ pc = "reload" /\ (Matches(row, s) \/ (req[q].op = "patch" /\ Matches(b, s)))
            \/ pc = "match" /\ Matches(plan[1], s) /\ 1 \in 1..Len(plan)
    BY <2>4, <2>5
  <2>7. /\ jobs' = [jobs EXCEPT ![j] = row] /\ labels' = labels /\ row \in Rows \cup NoRow
        /\ Set(q, [req[q] EXCEPT !.pc = pc])
    BY <2>2, <2>3, <1>3, <2>5
  <2>8. /\ req[q].op \in JobOps /\ pc \in {"reload", "match"}
        /\ req[q].op \in {"create", "patch", "setEnabled"}
    BY <1>1, <2>5 DEF JobOps
  <2>9. RowWrite(q, j, old, b, plan, row, pc)
    BY <1>0, <2>2, <2>6, <2>7, <2>8 DEF RowWrite
  <2> QED BY <2>9, RowStep
<1>4. ASSUME UNCHANGED <<jobs, versions, labels>>, Done(q) PROVE Inv'
  BY <1>4, WriteFails DEF db
<1> QED BY <1>0, <1>3, <1>4 DEF SetEnabled

LEMMA DeleteStep ==
  ASSUME Inv, NEW q \in Reqs, req[q].pc = "write", Delete(q),
         UNCHANGED <<linkVars, out, agentVars, settled, overlap>>
  PROVE  Inv'
<1>0. PICK j, old, b, plan : /\ j = req[q].job /\ old = jobs[j]
                             /\ b = req[q].before /\ plan = req[q].plan
  OBVIOUS
<1>1. TypedReq(req[q]) /\ req[q].op = "delete"
  BY DEF Delete, Inv, Typed, TypedReqs
<1>2. j \in Jobs /\ old \in Rows \cup NoRow
  BY <1>0, <1>1 DEF TypedReq, JobOps, Inv, Typed, TypedTables
<1>3. ASSUME jobs' = [jobs EXCEPT ![j] = Deleted], labels' = labels,
             Set(q, [req[q] EXCEPT !.pc = "match"])
      PROVE  Inv'
  <2>a. Fresh(q) => plan = <<old>>
    BY <1>0, <1>1 DEF Fresh
  <2>1. Fresh(q) => plan[1] = old /\ 1 \in 1..Len(plan)
    BY <1>2, <2>a, Plans, SMTT(30)
  <2>2. PICK row, pc : row = Deleted /\ pc = "match"
    OBVIOUS
  <2>3. (\A s \in Servers : ~Matches(row, s)) /\ row \in Rows \cup NoRow
    BY <2>2 DEF Matches, NoRow
  <2>4. ~overlap /\ Fresh(q) =>
          \A s \in Servers : Matches(row, s) \/ Matches(old, s) =>
            \/ pc = "reload" /\ (Matches(row, s) \/ (req[q].op = "patch" /\ Matches(b, s)))
            \/ pc = "match" /\ Matches(plan[1], s) /\ 1 \in 1..Len(plan)
    BY <2>1, <2>2, <2>3
  <2>5. jobs' = [jobs EXCEPT ![j] = row] /\ labels' = labels /\ Set(q, [req[q] EXCEPT !.pc = pc])
    BY <1>3, <2>2
  <2>6. /\ req[q].op \in JobOps /\ pc \in {"reload", "match"} /\ pc # "reload" /\ req[q].op # "patch"
    BY <1>1, <2>2 DEF JobOps
  <2>9. RowWrite(q, j, old, b, plan, row, pc)
    BY <1>0, <2>3, <2>4, <2>5, <2>6 DEF RowWrite
  <2> QED BY <2>9, RowStep
<1>4. ASSUME UNCHANGED <<jobs, versions, labels>>, Done(q) PROVE Inv'
  BY <1>4, WriteFails DEF db
<1> QED BY <1>0, <1>3, <1>4 DEF Delete

\* New labels change the snapshot of their server only.
LEMMA PatchServerStep ==
  ASSUME Inv, NEW q \in Reqs, req[q].pc = "write", PatchServer(q),
         UNCHANGED <<linkVars, out, agentVars, settled, overlap>>
  PROVE  Inv'
<1>0. PICK in : in = req[q].input
  OBVIOUS
<1> DEFINE u == [req[q] EXCEPT !.pc = "push", !.todo = {in.server}]
<1>1. /\ TypedReq(req[q]) /\ req[q].op = "labels" /\ DOMAIN req = Reqs /\ DOMAIN labels = Servers
      /\ labels' = [labels EXCEPT ![in.server] = in.labels] /\ jobs' = jobs /\ Set(q, u)
  BY <1>0 DEF PatchServer, Inv, Typed, TypedReqs, TypedTables
<1>2. in.server \in Servers /\ req[q].plan \in Seq(Rows \cup NoRow) /\ req[q].seen = {}
  BY <1>0, <1>1 DEF TypedReq
<1>3. /\ DOMAIN u = DOMAIN NewReq /\ u.pc = "push" /\ u.op = "labels" /\ u.todo = {in.server}
      /\ u.plan = req[q].plan /\ u.seen = {}
  BY <1>1, <1>2 DEF TypedReq, NewReq
<1> HIDE DEF u
<1>4. TypedReq(u)
  BY <1>2, <1>3 DEF TypedReq, PCs, JobOps
<1>5. TypedTables'
  BY <1>1 DEF Inv, Typed, TypedTables
<1>6. req'[q] = u
  BY <1>1 DEF Set
<1>7. Fresh(q)'
  BY <1>3, <1>6 DEF Fresh
<1>8. \A s \in Servers : Pending(q, s)' \/ BuildFullSync(s)' = BuildFullSync(s)
  <2>1. Pending(q, in.server)'
    BY <1>3, <1>6 DEF Pending
  <2>2. ASSUME NEW s \in Servers, s # in.server PROVE BuildFullSync(s)' = BuildFullSync(s)
    BY <1>1, <1>2, <2>2 DEF BuildFullSync, Matches
  <2> QED BY <2>1, <2>2
<1> QED BY <1>1, <1>4, <1>5, <1>7, <1>8, WritesStep

LEMMA WriteStep ==
  ASSUME Inv, NEW q \in Reqs, Write(q), overlap' = overlap
  PROVE  Inv'
BY InsertStep, PatchStep, SetEnabledStep, DeleteStep, PatchServerStep DEF Write

-----------------------------------------------------------------------------
(***************************************************************************)
(* The fan-out.                                                            *)
(***************************************************************************)
\* After a write the thread plans to push to the servers of every row it has
\* replaced and of the row that is there now.
LEMMA ReloadStep ==
  ASSUME Inv, NEW q \in Reqs, Reload(q), overlap' = overlap
  PROVE  Inv'
<1>0. PICK row, b : row = jobs[req[q].job] /\ b = req[q].before
  OBVIOUS
<1>1. /\ req[q].pc = "reload" /\ TypedReq(req[q]) /\ Active(q) /\ DOMAIN req = Reqs
      /\ UNCHANGED <<db, linkVars, out, agentVars, settled>>
  BY DEF Reload, Inv, Typed, TypedReqs, Active
<1>2. /\ req[q].job \in Jobs /\ req[q].op \in {"create", "patch", "setEnabled"}
      /\ req[q].seen = {} /\ req[q].todo \subseteq Servers
      /\ req[q].op = "patch" => b \in Rows \cup NoRow
  BY <1>0, <1>1 DEF TypedReq, JobOps
<1>3. row \in Rows \cup NoRow
  BY <1>0, <1>2 DEF Inv, Typed, TypedTables
<1>4. UNCHANGED <<jobs, labels>>
  BY <1>1 DEF db
<1>5. ASSUME req[q].op = "patch", ~Exists(req[q].job), Done(q) PROVE Inv'
  <2>1. ~overlap => ~Fresh(q)
    BY <1>1, <1>5 DEF Fresh
  <2> QED BY <1>1, <1>5, <2>1, EndsStep, Alone DEF Inv
<1>6. ASSUME NEW plan, plan = IF req[q].op = "patch" THEN SyncBoth(b, row) ELSE <<row>>,
             Set(q, [req[q] EXCEPT !.pc = "match", !.plan = plan])
      PROVE  Inv'
  <2> DEFINE u == [req[q] EXCEPT !.pc = "match", !.plan = plan]
  <2>1. /\ DOMAIN u = DOMAIN NewReq /\ u.pc = "match" /\ u.op = req[q].op /\ u.plan = plan
        /\ u.job = req[q].job /\ u.todo = req[q].todo /\ u.seen = {}
    BY <1>1, <1>2 DEF TypedReq, NewReq
  <2>2. Set(q, u)
    BY <1>6
  <2> HIDE DEF u
  <2>3. /\ plan \in Seq(Rows \cup NoRow)
        /\ \E i \in 1..Len(plan) : plan[i] = row
        /\ req[q].op = "patch" => \E i \in 1..Len(plan) : plan[i] = b
    <3>1. CASE req[q].op = "patch"
      <4>1. plan = <<b, row>> /\ b \in Rows \cup NoRow
        BY <1>2, <1>6, <3>1 DEF SyncBoth
      <4>2. plan \in Seq(Rows \cup NoRow) /\ Len(plan) = 2 /\ plan[1] = b /\ plan[2] = row
        BY <1>3, <4>1, Plans
      <4> QED BY <4>2
    <3>2. CASE req[q].op # "patch"
      <4>1. plan = <<row>>
        BY <1>6, <3>2
      <4>2. plan \in Seq(Rows \cup NoRow) /\ Len(plan) = 1 /\ plan[1] = row
        BY <1>3, <4>1, Plans
      <4> QED BY <3>2, <4>2
    <3> QED BY <3>1, <3>2
  <2>4. TypedReq(u)
    BY <1>2, <2>1, <2>3 DEF TypedReq, PCs, JobOps
  <2>5. req'[q] = u
    BY <1>1, <2>2 DEF Set
  <2>6. Fresh(q)'
    BY <1>2, <2>1, <2>5 DEF Fresh
  <2>7. ASSUME NEW s \in Servers, Pending(q, s) PROVE Pending(q, s)'
    <3>1. Matches(row, s) \/ (req[q].op = "patch" /\ Matches(b, s))
      BY <1>0, <1>1, <2>7 DEF Pending
    <3>2. \E i \in 1..Len(plan) : Matches(plan[i], s)
      BY <2>3, <3>1
    <3>3. \E i \in 1..Len(plan) : Matches(plan[i], s)'
      BY <1>4, <3>2 DEF Matches
    <3> QED BY <1>2, <2>1, <2>5, <3>3 DEF Pending
  <2> QED BY <1>1, <2>2, <2>4, <2>6, <2>7, KnowsStep
<1> QED BY <1>0, <1>5, <1>6 DEF Reload

\* The servers of the next job of the plan: what is left of the plan and they are
\* what was left before.
LEMMA MatchStep ==
  ASSUME Inv, NEW q \in Reqs, Match(q), overlap' = overlap
  PROVE  Inv'
<1>0. PICK plan : plan = req[q].plan
  OBVIOUS
<1>1. /\ req[q].pc = "match" /\ TypedReq(req[q]) /\ Active(q) /\ DOMAIN req = Reqs
      /\ UNCHANGED <<db, linkVars, out, agentVars, settled>>
  BY DEF Match, Inv, Typed, TypedReqs, Active
<1>2. /\ plan \in Seq(Rows \cup NoRow) /\ req[q].op \in JobOps \cup {"labels"}
      /\ req[q].seen \subseteq Servers
      /\ req[q].op \in JobOps => req[q].job \in Jobs
      /\ req[q].op = "runNow" => req[q].row \in Rows
  BY <1>0, <1>1 DEF TypedReq
<1>3. UNCHANGED <<jobs, labels>>
  BY <1>1 DEF db
<1>4. ASSUME plan = << >>, Done(q) PROVE Inv'
  <2>1. \A s : ~Pending(q, s)
    BY <1>0, <1>1, <1>4 DEF Pending
  <2> QED BY <1>1, <1>4, <2>1, EndsStep
<1>5. ASSUME plan # << >>,
             Set(q, [req[q] EXCEPT !.pc = "push", !.plan = Tail(@),
                                   !.todo = MatchingServerIDs(Head(plan)) \ req[q].seen])
      PROVE  Inv'
  <2>0. PICK first, rest, todo :
          first = Head(plan) /\ rest = Tail(plan) /\ todo = MatchingServerIDs(first) \ req[q].seen
    OBVIOUS
  <2> DEFINE u == [req[q] EXCEPT !.pc = "push", !.plan = rest, !.todo = todo]
  <2>1. /\ DOMAIN u = DOMAIN NewReq /\ u.pc = "push" /\ u.op = req[q].op /\ u.plan = rest
        /\ u.job = req[q].job /\ u.row = req[q].row /\ u.todo = todo /\ u.seen = req[q].seen
    BY <1>1 DEF TypedReq, NewReq
  <2>2. Set(q, u)
    BY <1>0, <1>5, <2>0
  <2> HIDE DEF u
  <2>3. /\ rest \in Seq(Rows \cup NoRow) /\ Len(plan) \in Nat /\ Len(rest) = Len(plan) - 1
        /\ Len(plan) >= 1 /\ first = plan[1]
        /\ \A i \in 1..(Len(plan) - 1) : rest[i] = plan[i + 1]
    <3> DEFINE S == Rows \cup NoRow
    <3>1. plan \in Seq(S)
      BY <1>2
    <3> HIDE DEF S
    <3>2. /\ rest \in Seq(S) /\ Len(plan) \in Nat /\ Len(rest) = Len(plan) - 1
          /\ Len(plan) >= 1 /\ first = plan[1]
          /\ \A i \in 1..(Len(plan) - 1) : rest[i] = plan[i + 1]
      BY <1>5, <2>0, <3>1, HeadTailProperties, EmptySeq, LenProperties
    <3> QED BY <3>2 DEF S
  <2>4. TypedReq(u)
    <3>1. todo \subseteq Servers
      BY <2>0 DEF MatchingServerIDs
    <3> QED BY <1>2, <2>1, <2>3, <3>1 DEF TypedReq, PCs, JobOps
  <2>5. req'[q] = u
    BY <1>1, <2>2 DEF Set
  <2>6. ASSUME Fresh(q) PROVE Fresh(q)'
    <3>1. CASE req[q].op # "runNow"
      BY <2>1, <2>5, <3>1 DEF Fresh
    <3>2. CASE req[q].op = "runNow"
      <4>0. PICK row : row = req[q].row
        OBVIOUS
      <4>1. row = jobs[req[q].job] /\ \A i \in 1..Len(plan) : plan[i] = row
        BY <1>0, <1>1, <2>6, <3>2, <4>0 DEF Fresh
      <4>2. \A i \in 1..Len(rest) : i + 1 \in 1..Len(plan) /\ rest[i] = plan[i + 1]
        BY <2>3
      <4>3. first = row /\ \A i \in 1..Len(rest) : rest[i] = row
        BY <2>3, <4>1, <4>2
      <4>4. \A s \in todo : Matches(row, s)
        BY <2>0, <4>3 DEF MatchingServerIDs
      <4>5. \A s \in todo : Matches(row, s)'
        BY <1>3, <4>4 DEF Matches
      <4>6. /\ req'[q].op = "runNow" /\ req'[q].pc = "push" /\ req'[q].row = row
            /\ req'[q].plan = rest /\ req'[q].todo = todo /\ row = jobs'[req'[q].job]
        BY <1>3, <2>1, <2>5, <3>2, <4>0, <4>1
      <4> QED BY <4>3, <4>5, <4>6 DEF Fresh
    <3> QED BY <3>1, <3>2
  <2>7. ASSUME NEW s \in Servers, Pending(q, s) PROVE Pending(q, s)'
    <3>1. PICK i \in 1..Len(plan) : Matches(plan[i], s)
      BY <1>0, <1>1, <2>7 DEF Pending
    <3>2. req[q].op # "runNow" /\ s \notin req[q].seen
      BY <1>0, <1>1, <2>7 DEF Pending
    <3>3. CASE i = 1
      <4>1. s \in todo
        BY <2>0, <2>3, <3>1, <3>2, <3>3 DEF MatchingServerIDs
      <4> QED BY <2>1, <2>5, <3>2, <4>1 DEF Pending
    <3>4. CASE i # 1
      <4>1. i - 1 \in 1..Len(rest) /\ rest[i - 1] = plan[i]
        BY <2>3, <3>1, <3>4
      <4>2. \E k \in 1..Len(rest) : Matches(rest[k], s)'
        BY <1>3, <3>1, <4>1 DEF Matches
      <4> QED BY <2>1, <2>5, <3>2, <4>2 DEF Pending
    <3> QED BY <3>3, <3>4
  <2> QED BY <1>1, <2>2, <2>4, <2>6, <2>7, KnowsStep
<1> QED BY <1>0, <1>4, <1>5 DEF Match

\* The snapshot, or the command, for the next server.
LEMMA BuildStep ==
  ASSUME Inv, NEW q \in Reqs, Build(q), overlap' = overlap
  PROVE  Inv'
<1>1. /\ req[q].pc = "push" /\ TypedReq(req[q]) /\ Active(q) /\ DOMAIN req = Reqs
      /\ UNCHANGED <<db, linkVars, out, agentVars, settled>>
  BY DEF Build, Inv, Typed, TypedReqs, Active
<1>0. PICK op, row, j, plan, todo, seen :
        /\ op = req[q].op /\ row = req[q].row /\ j = req[q].job
        /\ plan = req[q].plan /\ todo = req[q].todo /\ seen = req[q].seen
  OBVIOUS
<1>2. /\ plan \in Seq(Rows \cup NoRow) /\ op \in JobOps \cup {"labels"}
      /\ seen \subseteq Servers /\ todo \subseteq Servers
      /\ op \in JobOps => j \in Jobs
      /\ op = "runNow" => row \in Rows
  BY <1>0, <1>1 DEF TypedReq
<1>3. UNCHANGED <<jobs, labels>>
  BY <1>1 DEF db
<1>4. Fresh(q) /\ op = "runNow" =>
        /\ row = jobs[j] /\ \A i \in 1..Len(plan) : plan[i] = row
        /\ \A s \in todo : Matches(row, s)
  BY <1>0, <1>1 DEF Fresh
<1>5. ASSUME todo = {}, Set(q, [req[q] EXCEPT !.pc = "match"]) PROVE Inv'
  <2> DEFINE u == [req[q] EXCEPT !.pc = "match"]
  <2>1. /\ DOMAIN u = DOMAIN NewReq /\ u.pc = "match" /\ u.op = op /\ u.plan = plan
        /\ u.job = j /\ u.row = row /\ u.todo = todo /\ u.seen = seen
    BY <1>0, <1>1 DEF TypedReq, NewReq
  <2>2. Set(q, u)
    BY <1>5
  <2> HIDE DEF u
  <2>3. TypedReq(u)
    BY <1>2, <2>1 DEF TypedReq, PCs, JobOps
  <2>4. req'[q] = u
    BY <1>1, <2>2 DEF Set
  <2>5. Fresh(q) => Fresh(q)'
    BY <1>3, <1>4, <2>1, <2>4 DEF Fresh
  <2>6. ASSUME NEW s \in Servers, Pending(q, s) PROVE Pending(q, s)'
    <3>1. /\ op # "runNow" /\ s \notin seen
          /\ \E i \in 1..Len(plan) : Matches(plan[i], s)
      BY <1>0, <1>1, <1>5, <2>6 DEF Pending
    <3>2. \E i \in 1..Len(plan) : Matches(plan[i], s)'
      BY <1>3, <3>1 DEF Matches
    <3> QED BY <2>1, <2>4, <3>1, <3>2 DEF Pending
  <2> QED BY <1>1, <2>2, <2>3, <2>5, <2>6, KnowsStep
<1>6. ASSUME NEW to \in todo, NEW snap,
             snap = IF op = "runNow" THEN [kind |-> "run", job |-> j, ver |-> row.ver]
                                     ELSE [kind |-> "sync", jobs |-> BuildFullSync(to)],
             Set(q, [req[q] EXCEPT !.pc = "send", !.to = to, !.snap = snap,
                                   !.todo = @ \ {to}, !.seen = @ \cup {to}])
      PROVE  Inv'
  <2> DEFINE u == [req[q] EXCEPT !.pc = "send", !.to = to, !.snap = snap,
                                 !.todo = @ \ {to}, !.seen = @ \cup {to}]
  <2>1. /\ DOMAIN u = DOMAIN NewReq /\ u.pc = "send" /\ u.op = op /\ u.plan = plan
        /\ u.job = j /\ u.row = row /\ u.to = to /\ u.snap = snap
        /\ u.todo = todo \ {to} /\ u.seen = seen \cup {to}
    BY <1>0, <1>1 DEF TypedReq, NewReq
  <2>2. Set(q, u)
    BY <1>6
  <2> HIDE DEF u
  <2>3. to \in Servers /\ snap \in Messages
    <3>1. CASE op = "runNow"
      <4>1. j \in Jobs /\ row.ver \in Nat
        BY <1>2, <3>1, Marks DEF JobOps
      <4> QED BY <1>2, <1>6, <3>1, <4>1 DEF Messages
    <3>2. CASE op # "runNow"
      <4>1. jobs \in [Jobs -> Rows \cup NoRow]
        BY DEF Inv, Typed, TypedTables
      <4> HIDE DEF Messages
      <4> QED BY <1>2, <1>6, <3>2, <4>1, Snapshots
    <3> QED BY <3>1, <3>2
  <2>4. TypedReq(u)
    <3> HIDE DEF Messages
    <3> QED BY <1>2, <2>1, <2>3 DEF TypedReq, PCs, JobOps
  <2>5. req'[q] = u
    BY <1>1, <2>2 DEF Set
  <2>6. ASSUME Fresh(q) PROVE Fresh(q)'
    <3>1. CASE op # "runNow"
      <4>1. snap = [kind |-> "sync", jobs |-> BuildFullSync(to)'] 
        BY <1>3, <1>6, <3>1 DEF BuildFullSync, Matches
      <4>2. /\ req'[q].op # "runNow" /\ req'[q].pc = "send"
            /\ req'[q].to = to /\ req'[q].snap = snap
        BY <2>1, <2>5, <3>1
      <4> QED BY <4>1, <4>2 DEF Fresh, BuildFullSync
    <3>2. CASE op = "runNow"
      <4>1. \A s \in todo : Matches(row, s)'
        BY <1>3, <1>4, <2>6, <3>2 DEF Matches
      <4>2. /\ req'[q].op = "runNow" /\ req'[q].pc = "send" /\ req'[q].row = row
            /\ req'[q].job = j /\ req'[q].to = to /\ req'[q].snap = snap
            /\ req'[q].plan = plan /\ req'[q].todo = todo \ {to}
        BY <2>1, <2>5, <3>2
      <4>3. row = jobs'[j] /\ \A i \in 1..Len(plan) : plan[i] = row
        BY <1>3, <1>4, <2>6, <3>2
      <4> QED BY <1>6, <3>2, <4>1, <4>2, <4>3 DEF Fresh
    <3> QED BY <3>1, <3>2
  <2>7. ASSUME NEW s \in Servers, Pending(q, s) PROVE Pending(q, s)'
    <3>1. op # "runNow" /\ (s \in todo \/ (s \notin seen /\ \E i \in 1..Len(plan) : Matches(plan[i], s)))
      BY <1>0, <1>1, <2>7 DEF Pending
    <3>2. CASE s = to
      BY <2>1, <2>5, <3>1, <3>2 DEF Pending
    <3>3. CASE s # to
      <4>1. s \in todo \/ (s \notin seen /\ \E i \in 1..Len(plan) : Matches(plan[i], s)')
        BY <1>3, <3>1 DEF Matches
      <4> QED BY <2>1, <2>5, <3>1, <3>3, <4>1 DEF Pending
    <3> QED BY <3>2, <3>3
  <2> QED BY <1>1, <2>2, <2>4, <2>6, <2>7, KnowsStep
<1> QED BY <1>0, <1>5, <1>6 DEF Build

\* A message that is pushed to a connected agent.
LEMMA SendNowStep ==
  ASSUME Inv, NEW q \in Reqs, SendNow(q), overlap' = overlap
  PROVE  Inv'
<1>0. PICK op, row, j, plan, todo, seen, to, snap :
        /\ op = req[q].op /\ row = req[q].row /\ j = req[q].job
        /\ plan = req[q].plan /\ todo = req[q].todo /\ seen = req[q].seen
        /\ to = req[q].to /\ snap = req[q].snap
  OBVIOUS
<1> DEFINE u == [req[q] EXCEPT !.pc = "push", !.to = None, !.snap = None]
<1>1. /\ req[q].pc = "send" /\ TypedReq(req[q]) /\ Active(q) /\ DOMAIN req = Reqs
      /\ UNCHANGED <<db, linkVars, agentVars, settled>> /\ Push(to, snap)
      /\ req' = [req EXCEPT ![q] = u]
  BY <1>0 DEF SendNow, Inv, Typed, TypedReqs, Active, Set
<1>2. /\ plan \in Seq(Rows \cup NoRow) /\ op \in JobOps \cup {"labels"}
      /\ seen \subseteq Servers /\ todo \subseteq Servers /\ to \in Servers /\ snap \in Messages
      /\ op \in JobOps => j \in Jobs
      /\ op = "runNow" => row \in Rows
  BY <1>0, <1>1 DEF TypedReq
<1>3. UNCHANGED <<jobs, labels, link, initial, agent, disk, settled>>
  BY <1>1 DEF db, linkVars, agentVars
<1>4. /\ DOMAIN u = DOMAIN NewReq /\ u.pc = "push" /\ u.op = op /\ u.plan = plan
      /\ u.job = j /\ u.row = row /\ u.todo = todo /\ u.seen = seen
  BY <1>0, <1>1 DEF TypedReq, NewReq
<1> HIDE DEF u, Messages
<1>5. TypedReq(u) /\ req'[q] = u
  BY <1>1, <1>2, <1>4 DEF TypedReq, PCs, JobOps
<1>6. out \in [Servers -> Seq(Messages)] /\ agent \in [Servers -> DefSets]
  BY DEF Inv, Typed, TypedLinks
<1>7. /\ out' \in [Servers -> Seq(Messages)]
      /\ out'[to] = IF Receiving(to) THEN Append(out[to], snap) ELSE out[to]
      /\ \A s \in Servers \ {to} : out'[s] = out[s]
  <2>1. CASE ~Receiving(to)
    BY <1>1, <1>6, <2>1 DEF Push
  <2>2. CASE Receiving(to)
    <3>1. Append(out[to], snap) \in Seq(Messages)
      BY <1>2, <1>6, AppendProperties
    <3>2. out' = [out EXCEPT ![to] = Append(out[to], snap)]
      BY <1>1, <2>2 DEF Push
    <3> QED BY <1>2, <1>6, <2>2, <3>1, <3>2
  <2> QED BY <2>1, <2>2
<1>8. Typed'
  <2>1. TypedTables' /\ TypedReqs'
    BY <1>1, <1>3, <1>5 DEF Inv, Typed, TypedTables, TypedReqs
  <2>2. TypedLinks'
    BY <1>3, <1>7 DEF Inv, Typed, TypedLinks
  <2> QED BY <2>1, <2>2 DEF Typed
<1>9. ASSUME ~overlap
      PROVE  /\ Fresh(q)'
             /\ \A s \in Servers : RunsMeet(agent[s], out[s])'
             /\ \A s \in Servers : Right(s)' \/ Pending(q, s)'
  <2>1. /\ \A s \in Servers : ~Joining(s)
        /\ \A s \in Servers : Right(s) \/ Pending(q, s)
        /\ Fresh(q)
    BY <1>1, <1>9, Alone DEF Inv
  <2>2. /\ op # "runNow" => snap = [kind |-> "sync", jobs |-> BuildFullSync(to)]
        /\ op = "runNow" => /\ row = jobs[j] /\ \A i \in 1..Len(plan) : plan[i] = row
                            /\ \A s \in todo : Matches(row, s)
                            /\ Matches(row, to)
                            /\ snap = [kind |-> "run", job |-> j, ver |-> row.ver]
    BY <1>0, <1>1, <2>1 DEF Fresh
  <2>3. Fresh(q)'
    <3>1. (op = "runNow") => \A s \in todo : Matches(row, s)'
      BY <1>3, <2>2 DEF Matches
    <3>2. /\ req'[q].pc = "push" /\ req'[q].op = op /\ req'[q].row = row /\ req'[q].job = j
          /\ req'[q].plan = plan /\ req'[q].todo = todo
      BY <1>4, <1>5
    <3> QED BY <1>3, <2>2, <3>1, <3>2 DEF Fresh
  <2>4. Receiving(to) => link[to] = "up"
    BY <1>2, <2>1 DEF Receiving, Joining
  <2>5. op = "runNow" => \A s : ~Pending(q, s)
    BY <1>0, <1>1 DEF Pending
  <2>6. \A s \in Servers : RunsMeet(agent[s], out[s])
    BY <1>9 DEF Inv, SerialInv
  <2>7. /\ BuildFullSync(to) \in DefSets
        /\ op = "runNow" => /\ BuildFullSync(to)[j] = [enabled |-> jobs[j].enabled, ver |-> jobs[j].ver]
                            /\ BuildFullSync(to)[j] # None
    <3>1. jobs \in [Jobs -> Rows \cup NoRow]
      BY DEF Inv, Typed, TypedTables
    <3>2. BuildFullSync(to) \in DefSets
      BY <3>1, Snapshots
    <3>3. op = "runNow" => BuildFullSync(to)[j] = [enabled |-> jobs[j].enabled, ver |-> jobs[j].ver]
      BY <1>2, <2>2, SnapshotOf DEF JobOps
    <3>4. (op = "runNow") => [enabled |-> jobs[j].enabled, ver |-> jobs[j].ver] \in Defs
      BY <1>2, <2>2, Marks DEF Defs
    <3> QED BY <3>2, <3>3, <3>4, Marks
  <2>8. RunsMeet(agent[to], out'[to])
    <3>1. CASE ~Receiving(to)
      BY <1>2, <1>7, <2>6, <3>1
    <3>2. CASE Receiving(to) /\ op # "runNow"
      <4>1. snap.kind = "sync"
        BY <2>2, <3>2
      <4> QED BY <1>2, <1>6, <1>7, <2>6, <3>2, <4>1, RunsSnapshot
    <3>3. CASE Receiving(to) /\ op = "runNow"
      <4>1. PICK d \in DefSets : d = BuildFullSync(to)
        BY <2>7
      <4>2. After(agent[to], out[to], Len(out[to]), d)
        BY <1>2, <2>1, <2>4, <2>5, <3>3, <4>1 DEF Right
      <4>3. snap.job = j /\ snap.ver = row.ver /\ row = jobs[j]
        BY <2>2, <3>3
      <4>4. d[snap.job] # None /\ d[snap.job].ver = snap.ver
        BY <2>7, <3>3, <4>1, <4>3
      <4>5. out[to] \in Seq(Messages) /\ RunsMeet(agent[to], out[to])
        BY <1>2, <1>6, <2>6
      <4>6. RunsMeet(agent[to], Append(out[to], snap))
        BY <1>2, <4>2, <4>4, <4>5, RunsCommand
      <4> QED BY <1>7, <3>3, <4>6
    <3> QED BY <3>1, <3>2, <3>3
  <2>9. \A s \in Servers : RunsMeet(agent[s], out[s])'
    BY <1>3, <1>7, <2>6, <2>8
  <2>10. ASSUME NEW s \in Servers, s # to PROVE Right(s)' \/ Pending(q, s)'
    <3>1. CASE Right(s)
      <4>1. BuildFullSync(s)' = BuildFullSync(s) /\ out'[s] = out[s]
        BY <1>3, <1>7, <2>10, SameTables
      <4> QED BY <1>3, <3>1, <4>1 DEF Right
    <3>2. CASE Pending(q, s)
      <4>1. op # "runNow" /\ (s \in todo \/ (s \notin seen /\ \E i \in 1..Len(plan) : Matches(plan[i], s)))
        BY <1>0, <1>1, <2>10, <3>2 DEF Pending
      <4>2. s \in todo \/ (s \notin seen /\ \E i \in 1..Len(plan) : Matches(plan[i], s)')
        BY <1>3, <4>1 DEF Matches
      <4> QED BY <1>4, <1>5, <4>1, <4>2 DEF Pending
    <3> QED BY <2>1, <3>1, <3>2
  <2>11. Right(to)'
    <3>0. BuildFullSync(to)' = BuildFullSync(to)
      BY <1>3, SameTables
    <3>1. CASE link[to] # "up"
      BY <1>3, <3>1 DEF Right
    <3>2. CASE link[to] = "up" /\ op # "runNow"
      <4>1. out'[to] = Append(out[to], snap) /\ out[to] \in Seq(Messages)
        BY <1>2, <1>6, <1>7, <3>2 DEF Receiving
      <4>2. PICK d : d = BuildFullSync(to)
        OBVIOUS
      <4>3. snap = [kind |-> "sync", jobs |-> d]
        BY <2>2, <3>2, <4>2
      <4>4. After(agent[to], Append(out[to], snap), Len(Append(out[to], snap)), d)
        BY <1>2, <4>1, <4>3, AfterSnapshot
      <4>5. After(agent[to], out'[to], Len(out'[to]), d)
        BY <4>1, <4>4
      <4>6. d = BuildFullSync(to)' /\ agent'[to] = agent[to]
        BY <1>3, <3>0, <4>2
      <4> QED BY <4>5, <4>6 DEF Right
    <3>3. CASE link[to] = "up" /\ op = "runNow"
      <4>1. out'[to] = Append(out[to], snap) /\ out[to] \in Seq(Messages)
        BY <1>2, <1>6, <1>7, <3>3 DEF Receiving
      <4>2. PICK d : d = BuildFullSync(to)
        OBVIOUS
      <4>3. After(agent[to], out[to], Len(out[to]), d) /\ snap.kind = "run"
        BY <1>2, <2>1, <2>2, <2>5, <3>3, <4>2 DEF Right
      <4>4. After(agent[to], Append(out[to], snap), Len(Append(out[to], snap)), d)
        BY <1>2, <4>1, <4>3, AfterRun
      <4>5. After(agent[to], out'[to], Len(out'[to]), d)
        BY <4>1, <4>4
      <4>6. d = BuildFullSync(to)' /\ agent'[to] = agent[to]
        BY <1>3, <3>0, <4>2
      <4> QED BY <4>5, <4>6 DEF Right
    <3> QED BY <3>1, <3>2, <3>3
  <2> QED BY <2>3, <2>9, <2>10, <2>11
<1>10. SerialInv'
  BY <1>1, <1>3, <1>9, Turn DEF Inv
<1> QED BY <1>1, <1>8, <1>10, Unsettled DEF Inv

-----------------------------------------------------------------------------
(***************************************************************************)
(* The streams and the agents.                                             *)
(***************************************************************************)
\* A step of one server's stream or agent keeps the invariant if it keeps what is
\* said of that server, and a stream that becomes settled is right.
LEMMA LinkStep ==
  ASSUME Inv, NEW s \in Servers, TypedLinks', UNCHANGED <<db, req, overlap>>,
         \A x \in Servers \ {s} : /\ link'[x] = link[x] /\ initial'[x] = initial[x]
                                  /\ out'[x] = out[x] /\ agent'[x] = agent[x],
         Built(s) => Built(s)',
         Built(s) /\ Right(s) => Right(s)',
         Built(s) /\ RunsMeet(agent[s], out[s]) => RunsMeet(agent[s], out[s])',
         settled' \subseteq settled \cup {s},
         s \in settled' /\ s \notin settled =>
           Built(s)' /\ Right(s)' /\ \A q \in Reqs : ~Active(q),
         Joining(s)' => Joining(s) \/ MayStart
  PROVE  Inv'
<1>1. UNCHANGED <<jobs, labels, req, overlap>>
  BY DEF db
<1>2. \A x \in Servers \ {s} : (Built(x)' <=> Built(x)) /\ (Right(x)' <=> Right(x))
  BY <1>1, SameTables, SameStream
<1>3. \A q : Active(q)' <=> Active(q)
  BY DEF Active
<1>4. SettledInv'
  <2>1. settled' # {} => \A q \in Reqs : ~Active(q)'
    BY <1>3 DEF Inv, SettledInv
  <2>2. ASSUME NEW x \in settled' PROVE Built(x)' /\ Right(x)'
    <3>1. x \in Servers
      BY <2>2 DEF Inv, Typed, TypedLinks
    <3>2. CASE x # s
      BY <1>2, <2>2, <3>1, <3>2 DEF Inv, SettledInv
    <3>3. CASE x = s
      BY <2>2, <3>3 DEF Inv, SettledInv
    <3> QED BY <3>2, <3>3
  <2> QED BY <2>1, <2>2 DEF SettledInv
<1>5. SerialInv'
  <2> SUFFICES ASSUME ~overlap PROVE SerialInv'
    BY DEF SerialInv
  <2>1. \A p, q \in Reqs : Active(p)' /\ Active(q)' => p = q
    BY <1>3 DEF Inv, SerialInv
  <2>2. \A x \in Servers, q \in Reqs : Joining(x)' => ~Active(q)'
    <3>1. ASSUME NEW x \in Servers \ {s} PROVE Joining(x)' <=> Joining(x)
      BY DEF Joining
    <3>2. Joining(s)' => Joining(s) \/ \A q \in Reqs : ~Active(q)
      BY DEF MayStart, Quiet
    <3> QED BY <1>3, <3>1, <3>2 DEF Inv, SerialInv
  <2>3. \A q \in Reqs : Fresh(q)'
    <3>1. \A q \in Reqs : Fresh(q)
      BY DEF Inv, SerialInv
    <3> QED BY <1>1, <3>1 DEF Fresh, Exists, BuildFullSync, Matches
  <2>4. \A x \in Servers : Built(x)' /\ RunsMeet(agent[x], out[x])'
    <3>1. \A x \in Servers : Built(x) /\ RunsMeet(agent[x], out[x])
      BY DEF Inv, SerialInv
    <3>2. ASSUME NEW x \in Servers \ {s} PROVE RunsMeet(agent[x], out[x])'
      BY <3>1
    <3> QED BY <1>2, <3>1, <3>2
  <2>5. \A x \in Servers : Right(x)' \/ \E q \in Reqs : Pending(q, x)'
    <3>1. \A q \in Reqs, x \in Servers : Pending(q, x) => Pending(q, x)'
      BY <1>1 DEF Pending, Matches
    <3>2. \A x \in Servers : Built(x) /\ (Right(x) \/ \E q \in Reqs : Pending(q, x))
      BY DEF Inv, SerialInv
    <3> QED BY <1>2, <3>1, <3>2
  <2> QED BY <2>1, <2>2, <2>3, <2>4, <2>5 DEF SerialInv
<1>6. Typed'
  BY <1>1 DEF Inv, Typed, TypedTables, TypedReqs
<1> QED BY <1>4, <1>5, <1>6 DEF Inv

LEMMA ConnectStep ==
  ASSUME Inv, NEW s \in Servers, Connect(s), overlap' = overlap
  PROVE  Inv'
<1>1. /\ MayStart /\ link' = [link EXCEPT ![s] = "joining"]
      /\ settled' = IF Quiet THEN settled \cup {s} ELSE settled \ {s}
      /\ UNCHANGED <<db, req, initial, out, agent, disk>>
  BY DEF Connect, agentVars
<1>2. TypedLinks'
  BY <1>1 DEF Inv, Typed, TypedLinks
<1>3. link'[s] = "joining" /\ \A x \in Servers \ {s} : link'[x] = link[x]
  BY <1>1 DEF Inv, Typed, TypedLinks
<1>4. Built(s)' /\ Right(s)'
  BY <1>3 DEF Built, Right
<1>5. settled' \subseteq settled \cup {s} /\ (s \in settled' => \A q \in Reqs : ~Active(q))
  BY <1>1 DEF Quiet
<1> QED BY <1>1, <1>2, <1>3, <1>4, <1>5, LinkStep

LEMMA BuildInitialStep ==
  ASSUME Inv, NEW s \in Servers, BuildInitial(s), overlap' = overlap
  PROVE  Inv'
<1>0. PICK m : m = [kind |-> "sync", jobs |-> BuildFullSync(s)]
  OBVIOUS
<1>1. /\ link[s] = "joining" /\ link' = [link EXCEPT ![s] = "built"]
      /\ initial' = [initial EXCEPT ![s] = m]
      /\ UNCHANGED <<db, req, out, agent, disk, settled>>
  BY <1>0 DEF BuildInitial, agentVars
<1>2. /\ link'[s] = "built" /\ initial'[s] = m
      /\ \A x \in Servers \ {s} : link'[x] = link[x] /\ initial'[x] = initial[x]
  BY <1>1 DEF Inv, Typed, TypedLinks
<1>3. m \in Messages
  <2> HIDE DEF Messages
  <2> QED BY <1>0, Snapshots DEF Inv, Typed, TypedTables
<1>4. TypedLinks'
  <2> HIDE DEF Messages
  <2> QED BY <1>1, <1>2, <1>3 DEF Inv, Typed, TypedLinks
<1>5. Built(s)' /\ Right(s)'
  <2>1. BuildFullSync(s)' = BuildFullSync(s)
    BY <1>1, SameTables DEF db
  <2> QED BY <1>0, <1>2, <2>1 DEF Built, Right
<1>6. Joining(s)
  BY <1>1 DEF Joining
<1> QED BY <1>1, <1>2, <1>4, <1>5, <1>6, LinkStep

LEMMA SendInitialStep ==
  ASSUME Inv, NEW s \in Servers, SendInitial(s), overlap' = overlap
  PROVE  Inv'
<1>0. PICK m, msgs, d : m = initial[s] /\ msgs = out[s] /\ d = BuildFullSync(s)
  OBVIOUS
<1>1. /\ link[s] = "built" /\ link' = [link EXCEPT ![s] = "up"]
      /\ out' = [out EXCEPT ![s] = Append(msgs, m)]
      /\ initial' = [initial EXCEPT ![s] = None]
      /\ UNCHANGED <<db, req, agent, disk, settled>>
  BY <1>0 DEF SendInitial, agentVars
<1> HIDE DEF Messages
<1>2. m \in Messages /\ msgs \in Seq(Messages) /\ Append(msgs, m) \in Seq(Messages)
  BY <1>0, <1>1, AppendProperties DEF Inv, Typed, TypedLinks
<1>3. /\ link'[s] = "up" /\ out'[s] = Append(msgs, m)
      /\ \A x \in Servers \ {s} : /\ link'[x] = link[x] /\ initial'[x] = initial[x]
                                  /\ out'[x] = out[x]
  BY <1>1 DEF Inv, Typed, TypedLinks
<1>4. TypedLinks'
  BY <1>1, <1>2, <1>3 DEF Inv, Typed, TypedLinks
<1>5. Built(s)'
  BY <1>3 DEF Built
<1>6. ASSUME Built(s) PROVE m = [kind |-> "sync", jobs |-> d]
  BY <1>0, <1>1, <1>6 DEF Built
<1>7. ASSUME Built(s) PROVE Right(s)'
  <2>1. After(agent[s], Append(msgs, m), Len(Append(msgs, m)), d)
    BY <1>2, <1>6, <1>7, AfterSnapshot
  <2>2. BuildFullSync(s)' = d
    BY <1>0, <1>1, SameTables DEF db
  <2> QED BY <1>1, <1>3, <2>1, <2>2 DEF Right
<1>8. ASSUME Built(s), RunsMeet(agent[s], out[s]) PROVE RunsMeet(agent[s], out[s])'
  <2>1. m.kind = "sync"
    BY <1>6, <1>8
  <2>2. RunsMeet(agent[s], Append(msgs, m))
    BY <1>0, <1>2, <1>8, <2>1, RunsSnapshot
  <2> QED BY <1>1, <1>3, <2>2
<1>9. ~Joining(s)'
  BY <1>3 DEF Joining
<1> QED BY <1>1, <1>3, <1>4, <1>5, <1>7, <1>8, <1>9, LinkStep

\* A stream that has broken is empty, and the agent is not connected by it.
LEMMA DownStep ==
  ASSUME Inv, NEW s \in Servers, NEW state \in {"down", "stale"},
         link' = [link EXCEPT ![s] = state],
         DOMAIN initial' = Servers, \A x \in Servers \ {s} : initial'[x] = initial[x],
         out' = [out EXCEPT ![s] = << >>],
         NEW have \in DefSets, agent' = [agent EXCEPT ![s] = have],
         UNCHANGED <<db, req, disk, settled, overlap>>
  PROVE  Inv'
<1>1. /\ link'[s] = state /\ out'[s] = << >>
      /\ \A x \in Servers \ {s} : /\ link'[x] = link[x] /\ out'[x] = out[x]
                                  /\ agent'[x] = agent[x]
  BY DEF Inv, Typed, TypedLinks
<1>2. TypedLinks'
  <2> HIDE DEF Messages, DefSets
  <2>1. << >> \in Seq(Messages)
    BY EmptySeq
  <2> QED BY <1>1, <2>1 DEF Inv, Typed, TypedLinks
<1>3. Built(s)' /\ Right(s)'
  BY <1>1 DEF Built, Right
<1>4. RunsMeet(agent[s], out[s])'
  BY <1>1, RunsNone
<1>5. Joining(s)' => Joining(s)
  BY <1>1 DEF Joining
<1> QED BY <1>1, <1>2, <1>3, <1>4, <1>5, LinkStep

LEMMA DropStep ==
  ASSUME Inv, NEW s \in Servers, Drop(s), overlap' = overlap
  PROVE  Inv'
<1>1. agent' = [agent EXCEPT ![s] = agent[s]] /\ agent[s] \in DefSets
  BY DEF Drop, agentVars, Inv, Typed, TypedLinks
<1>2. DOMAIN initial' = Servers /\ \A x \in Servers \ {s} : initial'[x] = initial[x]
  BY DEF Drop, Inv, Typed, TypedLinks
<1>3. PICK have : have = agent[s]
  OBVIOUS
<1> QED BY <1>1, <1>2, <1>3, DownStep DEF Drop, agentVars

LEMMA RestartStep ==
  ASSUME Inv, NEW s \in Servers, Restart(s), overlap' = overlap
  PROVE  Inv'
<1>0. PICK have, state : have = disk[s] /\ state = IF Receiving(s) THEN "stale" ELSE link[s]
  OBVIOUS
<1>1. have \in DefSets /\ agent' = [agent EXCEPT ![s] = have]
  BY <1>0 DEF Restart, Inv, Typed, TypedLinks
<1>2. /\ state \in {"down", "stale"} /\ link' = [link EXCEPT ![s] = state]
      /\ out' = [out EXCEPT ![s] = << >>]
  BY <1>0 DEF Restart, Receiving, Inv, Typed, TypedLinks
<1>3. DOMAIN initial' = Servers /\ \A x \in Servers \ {s} : initial'[x] = initial[x]
  BY DEF Restart, Inv, Typed, TypedLinks
<1> QED BY <1>1, <1>2, <1>3, DownStep, ZenonT(30) DEF Restart

LEMMA RemoveStep ==
  ASSUME Inv, NEW s \in Servers, Remove(s), overlap' = overlap
  PROVE  Inv'
<1>1. /\ link[s] = "stale" /\ link' = [link EXCEPT ![s] = "down"]
      /\ UNCHANGED <<db, req, initial, out, agent, disk, settled>>
  BY DEF Remove, agentVars
<1>2. link'[s] = "down" /\ \A x \in Servers \ {s} : link'[x] = link[x]
  BY <1>1 DEF Inv, Typed, TypedLinks
<1>3. TypedLinks'
  BY <1>1, <1>2 DEF Inv, Typed, TypedLinks
<1>4. Built(s)' /\ Right(s)' /\ ~Joining(s)'
  BY <1>2 DEF Built, Right, Joining
<1> QED BY <1>1, <1>2, <1>3, <1>4, LinkStep

\* A message is received.
LEMMA ReceiveStep ==
  ASSUME Inv, NEW s \in Servers, Receive(s), overlap' = overlap
  PROVE  Inv'
<1>0. PICK msgs, have : msgs = out[s] /\ have = agent[s]
  OBVIOUS
<1>1. /\ msgs # << >> /\ out' = [out EXCEPT ![s] = Tail(msgs)]
      /\ UNCHANGED <<db, req, link, initial, settled>>
  BY <1>0 DEF Receive, linkVars
<1> HIDE DEF DefSets
<1>2. msgs \in Seq(Messages) /\ have \in DefSets
  BY <1>0 DEF Inv, Typed, TypedLinks
<1>3. Tail(msgs) \in Seq(Messages) /\ Head(msgs) \in Messages
  <2> HIDE DEF Messages
  <2> QED BY <1>1, <1>2, HeadTailProperties
<1>4. /\ Taken(have, msgs) \in DefSets /\ agent' = [agent EXCEPT ![s] = Taken(have, msgs)]
      /\ disk' \in [Servers -> DefSets]
  <2>1. CASE Head(msgs).kind = "sync"
    <3>1. Head(msgs).jobs \in DefSets
      BY <1>3, <2>1 DEF Messages
    <3>2. agent' = [agent EXCEPT ![s] = Head(msgs).jobs]
      BY <1>0, <2>1 DEF Receive, Applied
    <3>3. agent'[s] = Head(msgs).jobs
      BY <3>2 DEF Inv, Typed, TypedLinks
    <3>4. disk' = disk \/ disk' = [disk EXCEPT ![s] = agent'[s]]
      BY <1>0, <2>1 DEF Receive, agentVars
    <3> QED BY <2>1, <3>1, <3>2, <3>3, <3>4 DEF Taken, Inv, Typed, TypedLinks
  <2>2. CASE Head(msgs).kind # "sync"
    <3>1. UNCHANGED <<agent, disk>>
      BY <1>0, <2>2 DEF Receive, agentVars
    <3> QED BY <1>0, <1>2, <2>2, <3>1 DEF Taken, Inv, Typed, TypedLinks
  <2> QED BY <2>1, <2>2
<1>5. /\ out'[s] = Tail(msgs) /\ agent'[s] = Taken(have, msgs)
      /\ \A x \in Servers \ {s} : out'[x] = out[x] /\ agent'[x] = agent[x]
  BY <1>1, <1>4 DEF Inv, Typed, TypedLinks
<1>6. TypedLinks'
  <2> HIDE DEF Messages
  <2> QED BY <1>1, <1>3, <1>4 DEF Inv, Typed, TypedLinks
<1>7. BuildFullSync(s)' = BuildFullSync(s)
  BY <1>1, SameTables DEF db
<1>8. Built(s) => Built(s)'
  BY <1>1, <1>7 DEF Built
<1>9. ASSUME Right(s) PROVE Right(s)'
  <2>1. PICK d : d = BuildFullSync(s)
    OBVIOUS
  <2>2. CASE link[s] # "up"
    BY <1>1, <2>2 DEF Right
  <2>3. CASE link[s] = "up"
    <3>1. After(have, msgs, Len(msgs), d)
      BY <1>0, <1>9, <2>1, <2>3 DEF Right
    <3>2. Len(msgs) \in 1..Len(msgs) /\ Len(Tail(msgs)) = Len(msgs) - 1
      <4> HIDE DEF Messages
      <4> QED BY <1>1, <1>2, HeadTailProperties, EmptySeq, LenProperties
    <3>3. After(Taken(have, msgs), Tail(msgs), Len(Tail(msgs)), d)
      BY <1>1, <1>2, <3>1, <3>2, AfterReceive
    <3>4. d = BuildFullSync(s)'
      BY <1>7, <2>1
    <3> QED BY <1>5, <3>3, <3>4 DEF Right
  <2> QED BY <2>2, <2>3
<1>10. ASSUME RunsMeet(agent[s], out[s]) PROVE RunsMeet(agent[s], out[s])'
  <2>1. RunsMeet(Taken(have, msgs), Tail(msgs))
    BY <1>0, <1>1, <1>2, <1>10, RunsReceive
  <2> QED BY <1>5, <2>1
<1>11. Joining(s)' => Joining(s)
  BY <1>1 DEF Joining
<1> QED BY <1>1, <1>5, <1>6, <1>8, <1>9, <1>10, <1>11, LinkStep

-----------------------------------------------------------------------------
(***************************************************************************)
(* The theorems.                                                           *)
(***************************************************************************)
\* At the start no agent is connected and no request has begun.
LEMMA InvInit == Init => Inv
<1> SUFFICES ASSUME Init PROVE Inv
  OBVIOUS
<1>1. TypedTables
  BY DEF Init, TypedTables, Rows, NoRow
<1>2. TypedLinks
  <2>1. NoDefs \in DefSets
    BY DEF NoDefs, DefSets
  <2>2. << >> \in Seq(Messages)
    <3> HIDE DEF Messages
    <3> QED BY EmptySeq
  <2> HIDE DEF Messages, DefSets
  <2> QED BY <2>1, <2>2 DEF Init, TypedLinks
<1>3. TypedReqs
  <2>1. << >> \in Seq(Rows \cup NoRow)
    <3> HIDE DEF Rows, NoRow
    <3> QED BY EmptySeq
  <2>2. TypedReq(NewReq)
    BY <2>1 DEF TypedReq, NewReq, PCs
  <2> QED BY <2>2 DEF Init, TypedReqs
<1>4. (\A q \in Reqs : ~Active(q)) /\ \A s \in Servers : ~Joining(s)
  BY DEF Init, Active, NewReq, Joining
<1>5. \A s \in Servers : Built(s) /\ Right(s) /\ RunsMeet(agent[s], out[s])
  BY RunsNone DEF Init, Built, Right
<1>6. SettledInv
  BY <1>4 DEF Init, SettledInv
<1>7. SerialInv
  BY <1>4, <1>5, Idle DEF SerialInv
<1> QED BY <1>1, <1>2, <1>3, <1>6, <1>7 DEF Inv, Typed

\* Every step keeps the invariant.
LEMMA InvStep == Inv /\ [Next]_vars => Inv'
<1> SUFFICES ASSUME Inv, [Next]_vars PROVE Inv'
  OBVIOUS
<1>1. CASE UNCHANGED vars
  <2>1. UNCHANGED <<jobs, labels, req, link, initial, out, agent, disk, settled, overlap>>
    BY <1>1 DEF vars
  <2>2. Typed'
    BY <2>1 DEF Inv, Typed, TypedTables, TypedLinks, TypedReqs
  <2>3. \A s : (Built(s)' <=> Built(s)) /\ (Right(s)' <=> Right(s))
    BY <2>1, SameTables, SameStream
  <2>4. \A q : Active(q)' <=> Active(q)
    BY <2>1 DEF Active
  <2>5. SettledInv'
    BY <2>1, <2>3, <2>4 DEF Inv, SettledInv
  <2>6. \A s : Joining(s)' <=> Joining(s)
    BY <2>1 DEF Joining
  <2>7. \A q : Fresh(q) => Fresh(q)'
    BY <2>1 DEF Fresh, Exists, BuildFullSync, Matches
  <2>8. \A q, s : Pending(q, s) => Pending(q, s)'
    BY <2>1 DEF Pending, Matches
  <2>9. SerialInv'
    BY <2>1, <2>3, <2>4, <2>6, <2>7, <2>8 DEF Inv, SerialInv
  <2> QED BY <2>2, <2>5, <2>9 DEF Inv
<1>2. ASSUME NEW q \in Reqs, overlap' = overlap,
             \/ Start(q) \/ Get(q) \/ Load(q) \/ Write(q) \/ Reload(q)
             \/ Match(q) \/ Build(q) \/ SendNow(q)
      PROVE  Inv'
  BY <1>2, StartStep, GetStep, LoadStep, WriteStep, ReloadStep, MatchStep, BuildStep, SendNowStep
<1>3. ASSUME NEW s \in Servers, overlap' = overlap,
             \/ Connect(s) \/ BuildInitial(s) \/ SendInitial(s)
             \/ Drop(s) \/ Remove(s) \/ Receive(s) \/ Restart(s)
      PROVE  Inv'
  BY <1>3, ConnectStep, BuildInitialStep, SendInitialStep, DropStep, RemoveStep, ReceiveStep,
     RestartStep
<1> QED BY <1>1, <1>2, <1>3 DEF Next

LEMMA InvHolds == Spec => []Inv
BY InvInit, InvStep, PTL DEF Spec

\* Whatever a connected agent was sent before, once it has received all there is it
\* holds what the tables say if that is what the stream leads to.
LEMMA RightIsUpToDate ==
  ASSUME NEW s \in Servers, Right(s)
  PROVE  UpToDate(s)
<1> SUFFICES ASSUME link[s] = "up", out[s] = << >> PROVE agent[s] = BuildFullSync(s)
  BY DEF UpToDate
<1>1. After(agent[s], << >>, Len(<< >>), BuildFullSync(s))
  BY DEF Right
<1> QED BY <1>1, AfterAll

\* HealedByConnect: "offline agents pick it up on next connect".  A stream that is
\* opened while no request runs puts the agent right, whatever overlapping
\* requests pushed out of order before, or an agent did not save.
THEOREM ConnectHeals == Spec => []HealedByConnect
<1>1. Inv => HealedByConnect
  <2> SUFFICES ASSUME Inv, NEW s \in settled PROVE UpToDate(s)
    BY DEF HealedByConnect
  <2>1. s \in Servers /\ Right(s)
    BY DEF Inv, Typed, TypedLinks, SettledInv
  <2> QED BY <2>1, RightIsUpToDate
<1> QED BY <1>1, InvHolds, PTL

\* InSync: as long as requests come one at a time, when none is under way every
\* connected agent holds exactly the jobs the tables assign to its server, and a
\* run-now command meets the version its request read.
THEOREM AgentsInSync == Spec => []InSync
<1>1. Inv => InSync
  <2> SUFFICES ASSUME Inv, ~overlap, NEW s \in Servers
               PROVE  (Quiet => UpToDate(s)) /\ RunsVersionAsked(s)
    BY DEF InSync
  <2>1. ASSUME Quiet PROVE UpToDate(s)
    <3>1. \A q \in Reqs : ~Pending(q, s)
      BY <2>1, Idle DEF Quiet
    <3>2. Right(s)
      BY <3>1 DEF Inv, SerialInv
    <3> QED BY <3>2, RightIsUpToDate
  <2>2. RunsVersionAsked(s)
    <3> HIDE DEF Messages
    <3>1. out[s] \in Seq(Messages) /\ RunsMeet(agent[s], out[s])
      BY DEF Inv, Typed, TypedLinks, SerialInv
    <3> QED BY <3>1, RunsNext DEF RunsVersionAsked
  <2> QED BY <2>1, <2>2
<1> QED BY <1>1, InvHolds, PTL
=============================================================================
