----------------------------- MODULE UpkeepProofs -----------------------------
(***************************************************************************)
(* Proofs about what an operator does to a host and its agent: the         *)
(* restarts that the root flag asks for (AgentRoot), the binary an update  *)
(* replaces (AgentUpdate), and the requests that are answered while        *)
(* somebody waits (HostRequests), for any hosts, requests, versions,       *)
(* network changes and faults.                                             *)
(***************************************************************************)
EXTENDS MCUpkeep, FiniteSetTheorems, SequenceTheorems, TLAPS

-----------------------------------------------------------------------------
(***************************************************************************)
(* Root access: no more restarts than occasions.                           *)
(***************************************************************************)
\* Only a flag that somebody has set is sent by a Hello.
Eligible(f, h) == f \/ h

\* The deliveries that Hellos alone can still make: one of the flag they will
\* find, if another value was delivered last; and the one in progress may have
\* found an older flag, which is delivered in between.
Owed ==
  IF hello.at = "push" /\ Eligible(hello.flag, hello.byHand) /\ hello.flag # flag
  THEN IF sent = hello.flag THEN 1 ELSE 2
  ELSE IF Eligible(flag, byHand) /\ sent # flag THEN 1 ELSE 0

CmdRecords == [enabled : BOOLEAN, at : {"run", "restart"}]

RootTypes ==
  /\ flag \in BOOLEAN /\ byHand \in BOOLEAN /\ sent \in BOOLEAN \cup {None}
  /\ hello.at \in {"none", "push"} /\ hello.flag \in BOOLEAN /\ hello.byHand \in BOOLEAN
  /\ toggle \in [Toggles -> [at : {"idle", "push", "done"}, enabled : BOOLEAN]]
  /\ restarts \in Nat /\ asked \in Nat
  /\ queue \in Seq(BOOLEAN) /\ cmds \in Seq(CmdRecords)

\* A flag that a Hello would have sent has been set by hand.
SetByHand ==
  /\ flag => byHand
  /\ hello.at = "push" /\ Eligible(hello.flag, hello.byHand) => byHand

\* Every command on its way, every restart made and every delivery owed has
\* an occasion of its own.
Occasions == restarts + Len(cmds) + Len(queue) + Owed <= asked

\* The inductive invariant.
RootInv == RootTypes /\ SetByHand /\ Occasions

\* A section of a sequence of commands, which may be empty.
LEMMA Section ==
  \A s, m, n : m \in Int /\ n \in Int /\ m <= n + 1 /\ (\A k \in m..n : s[k] \in CmdRecords)
    => SubSeq(s, m, n) \in Seq(CmdRecords) /\ Len(SubSeq(s, m, n)) = n - m + 1
<1> SUFFICES ASSUME NEW s, NEW m \in Int, NEW n \in Int, m <= n + 1, \A k \in m..n : s[k] \in CmdRecords
             PROVE  SubSeq(s, m, n) \in Seq(CmdRecords) /\ Len(SubSeq(s, m, n)) = n - m + 1
  OBVIOUS
<1> HIDE DEF CmdRecords
<1>1. SubSeq(s, m, n) \in Seq(CmdRecords) /\ Len(SubSeq(s, m, n)) = IF m <= n THEN n - m + 1 ELSE 0
  BY SubSeqProperties
<1> QED BY <1>1

\* The commands at the agent are a sequence, with or without one of them.
LEMMA Commands ==
  ASSUME NEW s \in Seq(CmdRecords)
  PROVE  /\ DOMAIN s = 1..Len(s) /\ Len(s) \in Nat
         /\ \A i \in DOMAIN s : s[i] \in CmdRecords
         /\ \A i \in DOMAIN s : Root!RemoveAt(s, i) \in Seq(CmdRecords) /\ Len(Root!RemoveAt(s, i)) = Len(s) - 1
         /\ \A i \in DOMAIN s, r \in CmdRecords :
              [s EXCEPT ![i] = r] \in Seq(CmdRecords) /\ Len([s EXCEPT ![i] = r]) = Len(s)
<1> HIDE DEF CmdRecords
<1>1. DOMAIN s = 1..Len(s) /\ Len(s) \in Nat /\ \A i \in 1..Len(s) : s[i] \in CmdRecords
  BY LenProperties, ElementOfSeq
<1>2. ASSUME NEW i \in 1..Len(s)
      PROVE  Root!RemoveAt(s, i) \in Seq(CmdRecords) /\ Len(Root!RemoveAt(s, i)) = Len(s) - 1
  <2> DEFINE a == SubSeq(s, 1, i - 1)
             b == SubSeq(s, i + 1, Len(s))
  <2>1. a \in Seq(CmdRecords) /\ Len(a) = i - 1
    <3>1. i - 1 \in Int /\ 1 <= (i - 1) + 1 /\ (i - 1) - 1 + 1 = i - 1 /\ \A k \in 1..(i - 1) : s[k] \in CmdRecords
      BY <1>1
    <3> HIDE DEF a
    <3> QED BY <3>1, Section DEF a
  <2>3. b \in Seq(CmdRecords) /\ Len(b) = Len(s) - i
    <3>1. /\ i + 1 \in Int /\ Len(s) \in Int /\ i + 1 <= Len(s) + 1 /\ Len(s) - (i + 1) + 1 = Len(s) - i
          /\ \A k \in (i + 1)..Len(s) : s[k] \in CmdRecords
      BY <1>1
    <3> QED BY <3>1, Section
  <2>2. Root!RemoveAt(s, i) = a \o b
    BY DEF Root!RemoveAt
  <2> HIDE DEF a, b
  <2>4. a \o b \in Seq(CmdRecords) /\ Len(a \o b) = Len(a) + Len(b)
    BY <2>1, <2>3, ConcatProperties
  <2> QED BY <1>1, <2>1, <2>2, <2>3, <2>4
<1>3. ASSUME NEW i \in 1..Len(s), NEW r \in CmdRecords
      PROVE  [s EXCEPT ![i] = r] \in Seq(CmdRecords) /\ Len([s EXCEPT ![i] = r]) = Len(s)
  BY <1>1, ExceptSeq
<1> QED BY <1>1, <1>2, <1>3

\* Before anybody asks nothing is owed.
LEMMA RootStarts == Root!Init => RootInv
<1> SUFFICES ASSUME Root!Init PROVE RootInv
  OBVIOUS
<1>1. RootTypes
  BY EmptySeq DEF Root!Init, RootTypes, Root!Away, Root!Untold
<1>2. SetByHand
  BY DEF Root!Init, SetByHand, Root!Away
<1>3. Owed = 0 /\ Len(cmds) = 0 /\ Len(queue) = 0
  BY EmptySeq DEF Root!Init, Owed, Eligible, Root!Away
<1> QED BY <1>1, <1>2, <1>3 DEF RootInv, Occasions, Root!Init

\* The sequences on the wire, counted.
LEMMA Queued ==
  ASSUME NEW q \in Seq(BOOLEAN)
  PROVE  /\ Len(q) \in Nat
         /\ \A b \in BOOLEAN : Append(q, b) \in Seq(BOOLEAN) /\ Len(Append(q, b)) = Len(q) + 1
         /\ q # << >> => Head(q) \in BOOLEAN /\ Tail(q) \in Seq(BOOLEAN) /\ Len(Tail(q)) = Len(q) - 1
BY LenProperties, AppendProperties, HeadTailProperties

\* What is spent and what is owed, added up.
LEMMA Balance ==
  \A r, s, x, y, a, b, c, d \in Nat, o, p \in Int :
    s + c + d + p <= r + a + b + o + (y - x) /\ r + a + b + o <= x => s + c + d + p <= y
OBVIOUS

\* Where nothing that counts has changed, or less is on its way and no more is
\* owed, each thing still has its occasion.
LEMMA Fewer ==
  ASSUME RootInv, RootTypes', SetByHand',
         restarts' + Len(cmds') + Len(queue') + Owed' <= restarts + Len(cmds) + Len(queue) + Owed + (asked' - asked)
  PROVE  RootInv'
<1>1. restarts \in Nat /\ restarts' \in Nat /\ asked \in Nat /\ asked' \in Nat
  BY DEF RootInv, RootTypes
<1>2. Len(cmds) \in Nat /\ Len(queue) \in Nat
  BY Commands, Queued DEF RootInv, RootTypes
<1>3. Len(cmds') \in Nat /\ Len(queue') \in Nat
  BY Commands, Queued DEF RootTypes
<1>4. Owed \in Int /\ Owed' \in Int
  BY DEF Owed
<1>5. restarts + Len(cmds) + Len(queue) + Owed <= asked
  BY DEF RootInv, Occasions
<1>6. restarts' + Len(cmds') + Len(queue') + Owed' <= asked'
  <2> DEFINE a == Len(cmds)
             b == Len(queue)
             c == Len(cmds')
             d == Len(queue')
             o == Owed
             p == Owed'
  <2>1. /\ a \in Nat /\ b \in Nat /\ c \in Nat /\ d \in Nat /\ o \in Int /\ p \in Int
        /\ restarts' + c + d + p <= restarts + a + b + o + (asked' - asked)
        /\ restarts + a + b + o <= asked
    BY <1>2, <1>3, <1>4, <1>5
  <2> HIDE DEF a, b, c, d, o, p
  <2>2. restarts' + c + d + p <= asked'
    BY <1>1, <2>1, Balance
  <2> QED BY <2>2 DEF c, d, p
<1> QED BY <1>6 DEF RootInv, Occasions

\* What the gateway remembers; steps that leave it alone and put no more on
\* its way keep the invariant.
gate == <<flag, byHand, sent, hello, toggle>>

LEMMA Still ==
  ASSUME RootInv, UNCHANGED gate, asked' = asked, restarts' \in Nat,
         queue' \in Seq(BOOLEAN), cmds' \in Seq(CmdRecords),
         restarts' + Len(cmds') + Len(queue') <= restarts + Len(cmds) + Len(queue)
  PROVE  RootInv'
<1>1. RootTypes' /\ SetByHand' /\ Owed' = Owed
  BY DEF gate, RootInv, RootTypes, SetByHand, Owed
<1>2. /\ restarts \in Nat /\ asked \in Nat /\ Len(cmds) \in Nat /\ Len(queue) \in Nat
      /\ Len(cmds') \in Nat /\ Len(queue') \in Nat /\ Owed \in Int
  BY Commands, Queued DEF RootInv, RootTypes, Owed
<1> QED BY <1>1, <1>2, Fewer

\* Every step keeps it.
LEMMA RootStep == RootInv /\ [Root!Next]_(Root!vars) => RootInv'
<1> SUFFICES ASSUME RootInv, [Root!Next]_(Root!vars) PROVE RootInv'
  OBVIOUS
<1>0. RootTypes /\ SetByHand /\ None \notin BOOLEAN
  BY UpkeepAssumption DEF RootInv
<1>n. /\ restarts \in Nat /\ asked \in Nat /\ Len(cmds) \in Nat /\ Len(queue) \in Nat
      /\ Owed \in Int /\ Owed' \in Int
  BY <1>0, Commands, Queued DEF RootTypes, Owed
<1>1. ASSUME NEW t \in Toggles, NEW enabled \in BOOLEAN, Root!SetAgentRoot(t, enabled) PROVE RootInv'
  <2>1. /\ flag' = enabled /\ byHand' = TRUE /\ asked' = asked + 1
        /\ toggle' = [toggle EXCEPT ![t] = [at |-> "push", enabled |-> enabled]]
        /\ sent' = sent /\ hello' = hello /\ queue' = queue /\ cmds' = cmds /\ restarts' = restarts
    BY <1>1 DEF Root!SetAgentRoot, Root!wire, Root!agent
  <2>2. RootTypes' /\ SetByHand'
    BY <1>0, <2>1 DEF RootTypes, SetByHand
  <2>3. Owed' <= Owed + 1
    BY <1>0, <2>1 DEF RootTypes, SetByHand, Owed, Eligible
  <2> QED BY <1>n, <2>1, <2>2, <2>3, Fewer
<1>2. ASSUME NEW t \in Toggles, Root!PushToggle(t) PROVE RootInv'
  <2>1. /\ flag' = flag /\ byHand' = byHand /\ hello' = hello /\ cmds' = cmds /\ restarts' = restarts
        /\ toggle' = [toggle EXCEPT ![t].at = "done"] /\ toggle[t].enabled \in BOOLEAN
    BY <1>0, <1>2 DEF Root!PushToggle, Root!agent, RootTypes
  <2>2. toggle' \in [Toggles -> [at : {"idle", "push", "done"}, enabled : BOOLEAN]]
    BY <1>0, <2>1 DEF RootTypes
  <2>3. CASE rconn
    <3>1. /\ queue' = Append(queue, toggle[t].enabled) /\ sent' = toggle[t].enabled
          /\ asked' = asked + IF sent \in {None, toggle[t].enabled} THEN 1 ELSE 2
      BY <1>2, <2>3 DEF Root!PushToggle, Root!Push
    <3>2. queue' \in Seq(BOOLEAN) /\ Len(queue') = Len(queue) + 1
      BY <1>0, <2>1, <3>1, Queued DEF RootTypes
    <3>3. RootTypes' /\ SetByHand'
      BY <1>0, <2>1, <2>2, <3>1, <3>2 DEF RootTypes, SetByHand
    <3>4. Owed' + 1 <= Owed + (asked' - asked)
      BY <1>0, <1>n, <2>1, <3>1 DEF RootTypes, SetByHand, Owed, Eligible
    <3>5. asked' \in Nat /\ Len(cmds') = Len(cmds)
      BY <1>n, <2>1, <3>1
    <3> QED BY <1>n, <2>1, <3>2, <3>3, <3>4, <3>5, Fewer, SMTT(30)
  <2>4. CASE ~rconn
    <3>1. queue' = queue /\ sent' = sent /\ asked' = asked
      BY <1>2, <2>4 DEF Root!PushToggle
    <3>2. RootTypes' /\ SetByHand' /\ Owed' = Owed
      BY <1>0, <2>1, <2>2, <3>1 DEF RootTypes, SetByHand, Owed
    <3> QED BY <1>n, <2>1, <3>1, <3>2, Fewer
  <2> QED BY <2>3, <2>4
<1>3. CASE Root!HelloRow
  <2>1. /\ hello.at = "none"
        /\ hello'.at = "push" /\ hello'.flag = flag /\ hello'.byHand = byHand
        /\ flag' = flag /\ byHand' = byHand /\ sent' = sent /\ toggle' = toggle /\ queue' = queue
        /\ cmds' = cmds /\ restarts' = restarts /\ asked' = asked
    BY <1>3 DEF Root!HelloRow, Root!agent, Root!history
  <2>2. RootTypes' /\ SetByHand' /\ Owed' = Owed
    BY <1>0, <2>1 DEF RootTypes, SetByHand, Owed, Eligible
  <2> QED BY <1>n, <2>1, <2>2, Fewer
<1>4. CASE Root!HelloPush
  <2>1. /\ hello.at = "push" /\ hello' = Root!Away
        /\ flag' = flag /\ byHand' = byHand /\ toggle' = toggle /\ cmds' = cmds /\ restarts' = restarts
    BY <1>4 DEF Root!HelloPush, Root!agent
  <2>2. hello'.at = "none" /\ hello'.flag \in BOOLEAN /\ hello'.byHand \in BOOLEAN
    BY <2>1 DEF Root!Away
  <2>3. CASE hello.flag = hello.euid
    <3>1. sent' = None /\ asked' = (IF sent # None THEN asked + 1 ELSE asked) /\ queue' = queue
      BY <1>4, <2>3 DEF Root!HelloPush
    <3>2. RootTypes' /\ SetByHand'
      BY <1>0, <2>1, <2>2, <3>1 DEF RootTypes, SetByHand
    <3>3. Owed' <= Owed + (asked' - asked)
      BY <1>0, <1>n, <2>1, <2>2, <3>1 DEF RootTypes, SetByHand, Owed, Eligible
    <3> QED BY <1>n, <2>1, <3>1, <3>2, <3>3, Fewer
  <2>4. CASE /\ hello.flag # hello.euid
             /\ Root!ResendNeeded(hello.flag, hello.euid) /\ (hello.flag \/ hello.byHand) /\ rconn
    <3>1. queue' = Append(queue, hello.flag) /\ sent' = hello.flag /\ asked' = asked /\ sent # hello.flag
      BY <1>4, <2>4 DEF Root!HelloPush, Root!Push, Root!ResendNeeded
    <3>2. queue' \in Seq(BOOLEAN) /\ Len(queue') = Len(queue) + 1
      BY <1>0, <3>1, Queued DEF RootTypes
    <3>3. RootTypes' /\ SetByHand'
      BY <1>0, <2>1, <2>2, <3>1, <3>2 DEF RootTypes, SetByHand
    <3>4. Owed' + 1 <= Owed
      BY <1>0, <2>1, <2>2, <2>4, <3>1 DEF RootTypes, SetByHand, Owed, Eligible
    <3>5. Len(cmds') = Len(cmds) /\ asked' = asked /\ restarts' = restarts
      BY <2>1, <3>1
    <3>6. restarts' + Len(cmds') + Len(queue') + Owed' <= restarts + Len(cmds) + Len(queue) + Owed + (asked' - asked)
      <4> DEFINE lq == Len(queue')
                 o == Owed
                 p == Owed'
      <4>1. lq = Len(queue) + 1 /\ p + 1 <= o /\ o \in Int /\ p \in Int
        BY <1>n, <3>2, <3>4
      <4> HIDE DEF lq, o, p
      <4>2. restarts + Len(cmds) + lq + p <= restarts + Len(cmds) + Len(queue) + o + (asked - asked)
        BY <1>n, <4>1
      <4> QED BY <3>5, <4>2 DEF lq, o, p
    <3> QED BY <3>3, <3>6, Fewer
  <2>5. CASE /\ hello.flag # hello.euid
             /\ ~(Root!ResendNeeded(hello.flag, hello.euid) /\ (hello.flag \/ hello.byHand) /\ rconn)
    <3>1. queue' = queue /\ sent' = sent /\ asked' = asked
      BY <1>4, <2>5 DEF Root!HelloPush
    <3>2. RootTypes' /\ SetByHand'
      BY <1>0, <2>1, <2>2, <3>1 DEF RootTypes, SetByHand
    <3>3. Owed' <= Owed
      BY <1>0, <2>1, <2>2, <3>1 DEF RootTypes, SetByHand, Owed, Eligible
    <3> QED BY <1>n, <2>1, <3>1, <3>2, <3>3, Fewer
  <2> QED BY <2>3, <2>4, <2>5
<1>5. CASE Root!RecordError
  <2>1. /\ UNCHANGED gate /\ restarts' = restarts /\ asked' = asked /\ queue' = queue /\ cmds' = cmds
    BY <1>5 DEF Root!RecordError, gate, Root!agent, Root!history
  <2> QED BY <1>0, <1>n, <2>1, Still DEF RootTypes
<1>6. CASE Root!Arrive
  <2>1. /\ UNCHANGED gate /\ restarts' = restarts /\ asked' = asked
        /\ queue # << >> /\ queue' = Tail(queue)
        /\ cmds' = Append(cmds, [enabled |-> Head(queue), at |-> "run"])
    BY <1>6 DEF Root!Arrive, gate, Root!gateway
  <2>2. Head(queue) \in BOOLEAN /\ queue' \in Seq(BOOLEAN) /\ Len(queue') = Len(queue) - 1
    BY <1>0, <2>1, Queued DEF RootTypes
  <2>3. [enabled |-> Head(queue), at |-> "run"] \in CmdRecords
    BY <2>2 DEF CmdRecords
  <2>4. cmds' \in Seq(CmdRecords) /\ Len(cmds') = Len(cmds) + 1
    BY <1>0, <2>1, <2>3, AppendProperties DEF RootTypes
  <2> QED BY <1>0, <1>n, <2>1, <2>2, <2>4, Still DEF RootTypes
<1>7. ASSUME NEW i \in DOMAIN cmds, Root!Refuse(i) \/ Root!AskRestart(i) PROVE RootInv'
  <2>1. /\ UNCHANGED gate /\ asked' = asked /\ queue' = queue
        /\ restarts' \in {restarts, restarts + 1} /\ cmds' = Root!RemoveAt(cmds, i)
    BY <1>7 DEF Root!Refuse, Root!AskRestart, gate, Root!gateway, Root!wire, Root!history
  <2>2. cmds' \in Seq(CmdRecords) /\ Len(cmds') = Len(cmds) - 1
    BY <1>0, <2>1, Commands DEF RootTypes
  <2> QED BY <1>0, <1>n, <2>1, <2>2, Still DEF RootTypes
<1>8. ASSUME NEW i \in DOMAIN cmds, Root!Rewrite(i) PROVE RootInv'
  <2>1. /\ UNCHANGED gate /\ asked' = asked /\ queue' = queue /\ restarts' = restarts
        /\ cmds' = [cmds EXCEPT ![i].at = "restart"]
    BY <1>8 DEF Root!Rewrite, gate, Root!gateway, Root!wire, Root!history
  <2>2. cmds[i] \in CmdRecords
    BY <1>0, Commands DEF RootTypes
  <2>3. [cmds[i] EXCEPT !.at = "restart"] \in CmdRecords
    BY <2>2 DEF CmdRecords
  <2>4. cmds' \in Seq(CmdRecords) /\ Len(cmds') = Len(cmds)
    BY <1>0, <2>1, <2>3, Commands DEF RootTypes
  <2> QED BY <1>0, <1>n, <2>1, <2>4, Still DEF RootTypes
<1>9. CASE Root!Restart \/ Root!AgentCrash
  <2>1. /\ UNCHANGED gate /\ asked' = asked /\ restarts' = restarts /\ queue' = << >> /\ cmds' = << >>
    BY <1>9 DEF Root!Restart, Root!AgentCrash, Root!Ended, gate, Root!gateway
  <2>2. queue' \in Seq(BOOLEAN) /\ cmds' \in Seq(CmdRecords) /\ Len(queue') = 0 /\ Len(cmds') = 0
    BY <2>1, EmptySeq
  <2> QED BY <1>0, <1>n, <2>1, <2>2, Still DEF RootTypes
<1>10. CASE Root!Connect \/ Root!Drift
  <2>1. UNCHANGED gate /\ asked' = asked /\ restarts' = restarts /\ queue' = queue /\ cmds' = cmds
    BY <1>10 DEF Root!Connect, Root!Drift, gate, Root!gateway, Root!wire, Root!agent, Root!history
  <2> QED BY <1>0, <1>n, <2>1, Still DEF RootTypes
<1>11. CASE Root!Drop
  <2>1. UNCHANGED gate /\ asked' = asked /\ restarts' = restarts /\ queue' = << >> /\ cmds' = cmds
    BY <1>11 DEF Root!Drop, gate, Root!gateway, Root!agent
  <2>2. queue' \in Seq(BOOLEAN) /\ Len(queue') = 0
    BY <2>1, EmptySeq
  <2> QED BY <1>0, <1>n, <2>1, <2>2, Still DEF RootTypes
<1>12. CASE Root!GatewayCrash
  <2>1. /\ flag' = flag /\ byHand' = byHand /\ sent' = None /\ hello' = Root!Away
        /\ toggle' = [t \in Toggles |-> IF toggle[t].at = "push" THEN [toggle[t] EXCEPT !.at = "done"] ELSE toggle[t]]
        /\ asked' = asked + 1 /\ restarts' = restarts /\ queue' = << >> /\ cmds' = cmds
    BY <1>12 DEF Root!GatewayCrash, Root!agent
  <2>2. hello'.at = "none" /\ hello'.flag \in BOOLEAN /\ hello'.byHand \in BOOLEAN
    BY <2>1 DEF Root!Away
  <2>3. queue' \in Seq(BOOLEAN) /\ Len(queue') = 0
    BY <2>1, EmptySeq
  <2>4. toggle' \in [Toggles -> [at : {"idle", "push", "done"}, enabled : BOOLEAN]]
    BY <1>0, <2>1 DEF RootTypes
  <2>5. RootTypes' /\ SetByHand'
    BY <1>0, <2>1, <2>2, <2>3, <2>4 DEF RootTypes, SetByHand
  <2>6. Owed' <= 1 /\ 0 <= Owed
    BY <2>1, <2>2 DEF Owed
  <2> QED BY <1>n, <2>1, <2>3, <2>5, <2>6, Fewer
<1>13. CASE UNCHANGED Root!vars
  <2>1. UNCHANGED gate /\ asked' = asked /\ restarts' = restarts /\ queue' = queue /\ cmds' = cmds
    BY <1>13 DEF Root!vars, gate, Root!gateway, Root!wire, Root!agent, Root!history
  <2> QED BY <1>0, <1>n, <2>1, Still DEF RootTypes
<1> QED
  BY <1>1, <1>2, <1>3, <1>4, <1>5, <1>6, <1>7, <1>8, <1>9, <1>10, <1>11, <1>12, <1>13 DEF Root!Next, Root!System

\* A restart is asked for by a command that is at the agent.
LEMMA Restarting ==
  ASSUME NEW s \in Seq(CmdRecords)
  PROVE  /\ Cardinality({i \in DOMAIN s : s[i].at = "restart"}) \in Nat
         /\ Cardinality({i \in DOMAIN s : s[i].at = "restart"}) <= Len(s)
<1> DEFINE D == {i \in DOMAIN s : s[i].at = "restart"}
<1>1. DOMAIN s = 1..Len(s) /\ Len(s) \in Nat
  BY Commands
<1>2. IsFiniteSet(1..Len(s)) /\ Cardinality(1..Len(s)) = Len(s)
  BY <1>1, FS_Interval, SMTT(30)
<1>3. D \subseteq 1..Len(s)
  BY <1>1
<1> HIDE DEF D
<1> QED BY <1>1, <1>2, <1>3, FS_Subset, FS_CardinalityType DEF D

\* However requests, Hellos, drops and restarts of the gateway meet, the agent
\* is not restarted in a loop: every restart the helper has asked for has an
\* occasion of its own.  Every command on its way and every delivery that
\* Hellos can still make holds one.
THEOREM RestartsAreAsked == MCSpec => []NoRestartLoop
<1>1. MCInit => RootInv
  BY RootStarts DEF MCInit
<1>2. RootInv /\ [MCNext]_allVars => RootInv'
  <2> SUFFICES ASSUME [MCNext]_allVars PROVE [Root!Next]_(Root!vars)
    BY RootStep
  <2>1. UNCHANGED rootVars => UNCHANGED (Root!vars)
    BY DEF rootVars, Root!vars, Root!gateway, Root!wire, Root!agent, Root!history
  <2> QED BY <2>1 DEF MCNext, allVars
<1>3. RootInv => NoRestartLoop
  <2> SUFFICES ASSUME RootInv PROVE NoRestartLoop
    OBVIOUS
  <2>1. /\ restarts \in Nat /\ asked \in Nat /\ Len(cmds) \in Nat /\ Len(queue) \in Nat
        /\ restarts + Len(cmds) + Len(queue) + Owed <= asked
    BY Commands, Queued DEF RootInv, RootTypes, Occasions
  <2>2. Owed \in Nat
    BY DEF Owed
  <2>3. /\ Cardinality({i \in DOMAIN cmds : cmds[i].at = "restart"}) \in Nat
        /\ Cardinality({i \in DOMAIN cmds : cmds[i].at = "restart"}) <= Len(cmds)
    BY Restarting DEF RootInv, RootTypes
  <2>4. \A S : Root!Cardinality(S) = Cardinality(S)
    BY DEF Root!Cardinality, Cardinality
  <2> QED BY <2>1, <2>2, <2>3, <2>4 DEF NoRestartLoop, Root!NoRestartLoop
<1> QED BY <1>1, <1>2, <1>3, PTL DEF MCSpec

-----------------------------------------------------------------------------
(***************************************************************************)
(* The update: a whole binary is always kept.                              *)
(***************************************************************************)
\* Where an update holds the lock.
AtWork == {"fetch", "unlink", "aside", "swap", "copy", "truncate", "write", "placed", "exit"}

UpdateTypes ==
  /\ policy \in Nat /\ uconn \in BOOLEAN /\ spoilt \in BOOLEAN
  /\ trigger \in [Updates -> [at : {"idle", "send", "offer", "done"}, v : Nat]]
  /\ ujob \in [Updates -> [at : AtWork \cup {"none", "over"}, v : Nat, cut : BOOLEAN]]
  /\ uqueue \in Seq(Updates)
  /\ scripts \in SUBSET Nat

\* One update at a time, and only while there is a process.
OneUpdate ==
  /\ \A q \in Updates : ujob[q].at \in AtWork => lock = {q}
  /\ running = None => ~uconn /\ \A q \in Updates : ujob[q].at \notin AtWork

\* Between the renames, and while it is written over, the binary is beside its
\* path; otherwise it is there, unless the process died in between.
Placing ==
  /\ \A q \in Updates :
       /\ ujob[q].at = "swap" => path = None
       /\ ujob[q].at \in {"swap", "truncate", "write"} => Update!IsWhole(spare)
  /\ running # None /\ (\A q \in Updates : ujob[q].at \notin {"swap", "write"}) => Update!IsWhole(path)
  /\ running = None => Update!IsWhole(path) \/ Update!IsWhole(spare)

\* An update that was sent has not begun, and is on its way once.
Fresh ==
  /\ \A i \in 1..Len(uqueue) :
       /\ ujob[uqueue[i]].at = "none" /\ trigger[uqueue[i]].at \notin {"idle", "send"}
       /\ \A k \in 1..Len(uqueue) : uqueue[i] = uqueue[k] => i = k
  /\ \A q \in Updates : trigger[q].at \in {"idle", "send"} => ujob[q].at = "none"

\* The inductive invariant.
UpdateInv == UpdateTypes /\ OneUpdate /\ Fresh /\ (~spoilt => Placing)

\* A new binary is whole.
LEMMA NewIsWhole == \A v \in Nat : Update!IsWhole(Update!Whole(v))
<1> SUFFICES ASSUME NEW v \in Nat PROVE Update!IsWhole(Update!Whole(v))
  OBVIOUS
<1>1. [v |-> v, whole |-> TRUE] \in [v : Nat, whole : BOOLEAN]
  OBVIOUS
<1>2. [v |-> v, whole |-> TRUE] # None
  BY <1>1, UpkeepAssumption
<1>3. [v |-> v, whole |-> TRUE].whole
  OBVIOUS
<1> QED BY <1>2, <1>3 DEF Update!IsWhole, Update!Whole

\* An agent as it was installed has its binary.
LEMMA UpdateStarts == Update!Init => UpdateInv
<1> SUFFICES ASSUME Update!Init PROVE UpdateInv
  OBVIOUS
<1>1. UpdateTypes
  BY EmptySeq DEF Update!Init, UpdateTypes, Update!NoUpdate
<1>2. OneUpdate
  BY UpkeepAssumption DEF Update!Init, OneUpdate, Update!NoUpdate, AtWork
<1>3. Placing
  BY NewIsWhole DEF Update!Init, Placing, Update!NoUpdate
<1>4. Fresh
  BY EmptySeq DEF Update!Init, Fresh, Update!NoUpdate
<1> QED BY <1>1, <1>2, <1>3, <1>4 DEF UpdateInv

\* In any case one of the two is whole.
LEMMA KeptNow == UpdateInv => BinaryKept
<1> SUFFICES ASSUME UpdateInv, ~spoilt PROVE Update!IsWhole(path) \/ Update!IsWhole(spare)
  BY DEF BinaryKept, Update!BinaryKept
<1> QED BY DEF UpdateInv, Placing

\* A step that moves one update that is at work from a place to another.
LEMMA Moved ==
  ASSUME UpdateInv, NEW q \in Updates, NEW to \in AtWork,
         ujob[q].at \in AtWork, ujob' = [ujob EXCEPT ![q].at = to],
         uconn' = uconn, running' = running, lock' = lock
  PROVE  /\ ujob' \in [Updates -> [at : AtWork \cup {"none", "over"}, v : Nat, cut : BOOLEAN]]
         /\ OneUpdate' /\ lock = {q} /\ running # None
         /\ ujob'[q].at = to /\ \A r \in Updates : r # q => ujob[r].at \notin AtWork /\ ujob'[r] = ujob[r]
<1>1. UpdateTypes /\ OneUpdate
  BY DEF UpdateInv
<1>2. ujob[q] \in [at : AtWork \cup {"none", "over"}, v : Nat, cut : BOOLEAN]
  BY <1>1 DEF UpdateTypes
<1>3. ujob' = [ujob EXCEPT ![q] = [ujob[q] EXCEPT !.at = to]]
  OBVIOUS
<1>4. [ujob[q] EXCEPT !.at = to] \in [at : AtWork \cup {"none", "over"}, v : Nat, cut : BOOLEAN]
  <2> HIDE DEF AtWork
  <2> QED BY <1>2
<1>5. [ujob[q] EXCEPT !.at = to].at = to
  BY <1>2
<1>6. ujob' \in [Updates -> [at : AtWork \cup {"none", "over"}, v : Nat, cut : BOOLEAN]]
      /\ ujob'[q].at = to /\ \A r \in Updates : r # q => ujob'[r] = ujob[r]
  <2> HIDE DEF AtWork
  <2> QED BY <1>1, <1>3, <1>4, <1>5 DEF UpdateTypes
<1>7. lock = {q} /\ running # None /\ \A r \in Updates : r # q => ujob[r].at \notin AtWork
  <2> HIDE DEF AtWork
  <2> QED BY <1>1 DEF OneUpdate
<1>8. OneUpdate'
  <2> HIDE DEF AtWork
  <2> QED BY <1>6, <1>7 DEF OneUpdate
<1> QED BY <1>6, <1>7, <1>8

\* A step with which an update is over.
LEMMA IsOver ==
  ASSUME UpdateInv, NEW q \in Updates, Update!Over(q),
         uconn' = uconn, running' = running
  PROVE  /\ ujob' \in [Updates -> [at : AtWork \cup {"none", "over"}, v : Nat, cut : BOOLEAN]]
         /\ OneUpdate'
         /\ ujob'[q].at = "over" /\ \A r \in Updates : r # q => ujob'[r] = ujob[r]
         /\ ujob[q].at \in AtWork => running # None /\ \A r \in Updates : r # q => ujob[r].at \notin AtWork
<1>1. UpdateTypes /\ OneUpdate /\ ujob' = [ujob EXCEPT ![q].at = "over"] /\ lock' = lock \ {q}
  BY DEF UpdateInv, Update!Over
<1>2. ujob[q] \in [at : AtWork \cup {"none", "over"}, v : Nat, cut : BOOLEAN]
  BY <1>1 DEF UpdateTypes
<1>3. ujob' = [ujob EXCEPT ![q] = [ujob[q] EXCEPT !.at = "over"]]
  BY <1>1
<1>4. [ujob[q] EXCEPT !.at = "over"] \in [at : AtWork \cup {"none", "over"}, v : Nat, cut : BOOLEAN]
      /\ [ujob[q] EXCEPT !.at = "over"].at = "over"
  <2> HIDE DEF AtWork
  <2> QED BY <1>2
<1>5. ujob' \in [Updates -> [at : AtWork \cup {"none", "over"}, v : Nat, cut : BOOLEAN]]
      /\ ujob'[q].at = "over" /\ \A r \in Updates : r # q => ujob'[r] = ujob[r]
  <2> HIDE DEF AtWork
  <2> QED BY <1>1, <1>3, <1>4 DEF UpdateTypes
<1>6. "over" \notin AtWork
  BY DEF AtWork
<1>7. OneUpdate'
  <2> HIDE DEF AtWork
  <2> QED BY <1>1, <1>5, <1>6 DEF OneUpdate
<1>8. ujob[q].at \in AtWork => running # None /\ \A r \in Updates : r # q => ujob[r].at \notin AtWork
  <2> HIDE DEF AtWork
  <2> QED BY <1>1 DEF OneUpdate
<1> QED BY <1>5, <1>7, <1>8

\* A process that ends: what is at the path is started if it is whole.
LEMMA Respawned ==
  ASSUME UpdateTypes, Update!Respawn(path'),
         ~spoilt' => Update!IsWhole(path') \/ Update!IsWhole(spare')
  PROVE  /\ ujob' \in [Updates -> [at : AtWork \cup {"none", "over"}, v : Nat, cut : BOOLEAN]]
         /\ uqueue' \in Seq(Updates) /\ uconn' \in BOOLEAN
         /\ OneUpdate' /\ (~spoilt' => Placing')
<1>1. /\ uconn' = FALSE /\ uqueue' = << >>
      /\ running' = IF Update!IsWhole(path') THEN path'.v ELSE None
      /\ ujob' = [q \in Updates |-> IF ujob[q].at = "none" THEN ujob[q] ELSE [Update!NoUpdate EXCEPT !.at = "over"]]
  BY DEF Update!Respawn
<1>2. Update!NoUpdate \in [at : AtWork \cup {"none", "over"}, v : Nat, cut : BOOLEAN]
  BY DEF Update!NoUpdate
<1> DEFINE u == [Update!NoUpdate EXCEPT !.at = "over"]
<1>3. u \in [at : AtWork \cup {"none", "over"}, v : Nat, cut : BOOLEAN] /\ u.at = "over"
  <2> HIDE DEF AtWork
  <2> QED BY <1>2
<1> HIDE DEF u
<1>4. ujob' = [q \in Updates |-> IF ujob[q].at = "none" THEN ujob[q] ELSE u]
  BY <1>1 DEF u
<1>5. \A q \in Updates : /\ ujob'[q] \in [at : AtWork \cup {"none", "over"}, v : Nat, cut : BOOLEAN]
                          /\ ujob'[q].at \in {"none", "over"}
  <2> HIDE DEF AtWork
  <2> QED BY <1>3, <1>4 DEF UpdateTypes
<1>6. \A q \in Updates : ujob'[q].at \notin AtWork
  BY <1>5 DEF AtWork
<1>7. uqueue' \in Seq(Updates)
  BY <1>1, EmptySeq
<1>8. OneUpdate' /\ (~spoilt' => Placing')
  BY <1>1, <1>5, <1>6 DEF OneUpdate, Placing
<1> QED BY <1>1, <1>4, <1>5, <1>7, <1>8

\* Steps that begin no update that was not sent.
LEMMA StillFresh ==
  ASSUME UpdateTypes, Fresh, uqueue' = uqueue, trigger' = trigger,
         \A q \in Updates : ujob[q].at = "none" => ujob'[q].at = "none"
  PROVE  Fresh'
<1>1. \A i \in 1..Len(uqueue) : uqueue[i] \in Updates
  BY ElementOfSeq DEF UpdateTypes
<1> QED BY <1>1 DEF Fresh

\* Steps that are about neither an update at work nor a binary.
LEMMA Elsewhere ==
  ASSUME UpdateInv, UpdateTypes', Fresh', running # None \/ uconn' = uconn,
         ujob' = ujob /\ lock' = lock /\ running' = running /\ path' = path /\ spare' = spare /\ spoilt' = spoilt
  PROVE  UpdateInv'
BY DEF UpdateInv, OneUpdate, Placing

\* An update that is at work is the only one; its binary is at the path but
\* between the renames and while it is written.
LEMMA Alone ==
  ASSUME UpdateInv, NEW q \in Updates, ujob[q].at \in AtWork
  PROVE  /\ lock = {q} /\ running # None /\ \A r \in Updates : r # q => ujob[r].at \notin AtWork
         /\ ~spoilt /\ ujob[q].at \notin {"swap", "write"} => Update!IsWhole(path)
         /\ ~spoilt /\ ujob[q].at \in {"swap", "truncate", "write"} => Update!IsWhole(spare)
<1>1. lock = {q} /\ running # None /\ \A r \in Updates : r # q => ujob[r].at \notin AtWork
  <2> HIDE DEF AtWork
  <2> QED BY DEF UpdateInv, OneUpdate
<1>2. "swap" \in AtWork /\ "write" \in AtWork
  BY DEF AtWork
<1>3. \A r \in Updates : r # q => ujob[r].at \notin {"swap", "write"}
  BY <1>1, <1>2
<1> HIDE DEF AtWork
<1> QED BY <1>1, <1>3 DEF UpdateInv, Placing

\* What the steps below leave alone.
aside == <<policy, trigger, uconn, uqueue, running>>

\* An update goes on, and leaves a whole binary where Placing wants it.
LEMMA GoesOn ==
  ASSUME UpdateInv, NEW q \in Updates, NEW to \in AtWork,
         ujob[q].at \in AtWork, ujob' = [ujob EXCEPT ![q].at = to],
         UNCHANGED aside, lock' = lock, scripts' = scripts, spoilt' = spoilt,
         ~spoilt => /\ to = "swap" => path' = None
                    /\ to \in {"swap", "truncate", "write"} => Update!IsWhole(spare')
                    /\ to \notin {"swap", "write"} => Update!IsWhole(path')
  PROVE  UpdateInv'
<1>1. /\ policy' = policy /\ trigger' = trigger /\ uconn' = uconn /\ uqueue' = uqueue /\ running' = running
      /\ UpdateTypes /\ Fresh
  BY DEF aside, UpdateInv
<1>2. /\ ujob' \in [Updates -> [at : AtWork \cup {"none", "over"}, v : Nat, cut : BOOLEAN]]
      /\ OneUpdate' /\ running # None
      /\ ujob'[q].at = to /\ \A r \in Updates : r # q => ujob[r].at \notin AtWork /\ ujob'[r] = ujob[r]
  BY <1>1, Moved
<1>3. UpdateTypes'
  BY <1>1, <1>2 DEF UpdateTypes
<1>4. "none" \notin AtWork /\ "swap" \in AtWork /\ "truncate" \in AtWork /\ "write" \in AtWork
  BY DEF AtWork
<1> HIDE DEF AtWork
<1>5. Fresh'
  BY <1>1, <1>2, <1>4, StillFresh
<1>6. ASSUME ~spoilt PROVE Placing'
  <2>1. \A r \in Updates : r # q => ujob'[r].at \notin {"swap", "truncate", "write"}
    BY <1>2, <1>4
  <2> QED BY <1>1, <1>2, <1>6, <2>1 DEF Placing
<1> QED BY <1>2, <1>3, <1>5, <1>6 DEF UpdateInv

\* An update that was at work is over, and leaves a whole binary at the path.
LEMMA ComesToAnEnd ==
  ASSUME UpdateInv, NEW q \in Updates, ujob[q].at \in AtWork, Update!Over(q),
         UNCHANGED aside, scripts' \in SUBSET Nat, spoilt' \in BOOLEAN,
         ~spoilt' => ~spoilt /\ Update!IsWhole(path')
  PROVE  UpdateInv'
<1>1. /\ policy' = policy /\ trigger' = trigger /\ uconn' = uconn /\ uqueue' = uqueue /\ running' = running
      /\ UpdateTypes /\ Fresh
  BY DEF aside, UpdateInv
<1>2. /\ ujob' \in [Updates -> [at : AtWork \cup {"none", "over"}, v : Nat, cut : BOOLEAN]]
      /\ OneUpdate' /\ running # None
      /\ ujob'[q].at = "over" /\ \A r \in Updates : r # q => ujob[r].at \notin AtWork /\ ujob'[r] = ujob[r]
  BY <1>1, IsOver
<1>3. UpdateTypes'
  BY <1>1, <1>2 DEF UpdateTypes
<1>4. "none" \notin AtWork /\ "swap" \in AtWork /\ "truncate" \in AtWork /\ "write" \in AtWork
  BY DEF AtWork
<1> HIDE DEF AtWork
<1>5. Fresh'
  BY <1>1, <1>2, <1>4, StillFresh
<1>6. ASSUME ~spoilt' PROVE Placing'
  <2>1. \A r \in Updates : ujob'[r].at \notin {"swap", "truncate", "write"}
    BY <1>2, <1>4
  <2> QED BY <1>1, <1>2, <1>6, <2>1 DEF Placing
<1> QED BY <1>2, <1>3, <1>5, <1>6 DEF UpdateInv

\* A process that ends keeps the invariant, whatever was under way.
LEMMA Respawns ==
  ASSUME UpdateInv, Update!Respawn(path'), policy' = policy,
         trigger' \in [Updates -> [at : {"idle", "send", "offer", "done"}, v : Nat]],
         \A q \in Updates : trigger'[q].at \in {"idle", "send"} => trigger[q].at \in {"idle", "send"},
         scripts' \in SUBSET Nat, spoilt' = spoilt,
         ~spoilt => Update!IsWhole(path') \/ Update!IsWhole(spare')
  PROVE  UpdateInv'
<1>1. UpdateTypes /\ Fresh
  BY DEF UpdateInv
<1>2. /\ ujob' \in [Updates -> [at : AtWork \cup {"none", "over"}, v : Nat, cut : BOOLEAN]]
      /\ uqueue' \in Seq(Updates) /\ uconn' \in BOOLEAN
      /\ OneUpdate' /\ (~spoilt' => Placing')
  BY <1>1, Respawned
<1>3. UpdateTypes'
  BY <1>1, <1>2 DEF UpdateTypes
<1>4. uqueue' = << >> /\ \A q \in Updates : ujob[q].at = "none" => ujob'[q] = ujob[q]
  BY DEF Update!Respawn
<1>5. Fresh'
  BY <1>1, <1>4, EmptySeq DEF Fresh
<1> QED BY <1>2, <1>3, <1>5 DEF UpdateInv

\* Each step of an update keeps the invariant.
LEMMA UpdateStep == UpdateInv /\ [Update!Next]_updateVars => UpdateInv'
<1> SUFFICES ASSUME UpdateInv, [Update!Next]_updateVars PROVE UpdateInv'
  OBVIOUS
<1>0. UpdateTypes /\ OneUpdate /\ Fresh /\ (~spoilt => Placing)
  BY DEF UpdateInv
<1>q. Len(uqueue) \in Nat /\ \A i \in 1..Len(uqueue) : uqueue[i] \in Updates
  BY <1>0, LenProperties, ElementOfSeq DEF UpdateTypes
<1>1. ASSUME NEW v \in 1..3, Update!Refresh(v) PROVE UpdateInv'
  <2>1. /\ policy' = v /\ uconn' = uconn /\ trigger' = trigger /\ ujob' = ujob /\ uqueue' = uqueue /\ scripts' = scripts
        /\ lock' = lock /\ running' = running /\ path' = path /\ spare' = spare /\ spoilt' = spoilt
    BY <1>1 DEF Update!Refresh, Update!wire, Update!agent, Update!disk, Update!history
  <2>2. UpdateTypes' /\ Fresh'
    BY <1>0, <2>1, StillFresh DEF UpdateTypes
  <2> QED BY <2>1, <2>2, Elsewhere
<1>2. ASSUME NEW q \in Updates, Update!Trigger(q) PROVE UpdateInv'
  <2>1. /\ policy' = policy /\ uconn' = uconn /\ ujob' = ujob /\ uqueue' = uqueue /\ scripts' = scripts
        /\ trigger[q].at = "idle" /\ trigger' = [trigger EXCEPT ![q] = [at |-> "send", v |-> policy]]
        /\ lock' = lock /\ running' = running /\ path' = path /\ spare' = spare /\ spoilt' = spoilt
    BY <1>2 DEF Update!Trigger, Update!wire, Update!agent, Update!disk, Update!history
  <2>2. UpdateTypes'
    BY <1>0, <2>1 DEF UpdateTypes
  <2>3. Fresh'
    BY <1>0, <1>q, <2>1 DEF Fresh, UpdateTypes
  <2> QED BY <2>1, <2>2, <2>3, Elsewhere
<1>3. ASSUME NEW q \in Updates, Update!Send(q) PROVE UpdateInv'
  <2>1. /\ policy' = policy /\ uconn' = uconn /\ ujob' = ujob /\ scripts' = scripts /\ trigger[q].at = "send"
        /\ uqueue' = (IF uconn THEN Append(uqueue, q) ELSE uqueue)
        /\ lock' = lock /\ running' = running /\ path' = path /\ spare' = spare /\ spoilt' = spoilt
    BY <1>3 DEF Update!Send, Update!agent, Update!disk, Update!history
  <2>2. PICK to \in {"offer", "done"} : trigger' = [trigger EXCEPT ![q].at = to]
    BY <1>3 DEF Update!Send
  <2>3. /\ trigger' \in [Updates -> [at : {"idle", "send", "offer", "done"}, v : Nat]]
        /\ trigger'[q].at = to /\ \A r \in Updates : r # q => trigger'[r] = trigger[r]
    BY <1>0, <2>2 DEF UpdateTypes
  <2>4. uqueue' \in Seq(Updates)
    BY <1>0, <2>1, AppendProperties DEF UpdateTypes
  <2>5. UpdateTypes'
    BY <1>0, <2>1, <2>3, <2>4 DEF UpdateTypes
  <2>6. Fresh'
    <3>1. ujob[q].at = "none" /\ \A i \in 1..Len(uqueue) : uqueue[i] # q
      BY <1>0, <2>1 DEF Fresh
    <3>2. CASE uconn
      <4>1. Len(uqueue') = Len(uqueue) + 1 /\ uqueue'[Len(uqueue) + 1] = q
            /\ \A i \in 1..Len(uqueue) : uqueue'[i] = uqueue[i]
        BY <1>0, <2>1, <3>2, AppendProperties DEF UpdateTypes
      <4>2. \A i \in 1..Len(uqueue') : i \in 1..Len(uqueue) \/ i = Len(uqueue) + 1
        BY <1>q, <4>1
      <4>3. \A i \in 1..Len(uqueue') : ujob[uqueue'[i]].at = "none" /\ trigger'[uqueue'[i]].at \notin {"idle", "send"}
        BY <1>0, <1>q, <2>3, <3>1, <4>1, <4>2 DEF Fresh
      <4>4. \A i, k \in 1..Len(uqueue') : uqueue'[i] = uqueue'[k] => i = k
        BY <1>0, <3>1, <4>1, <4>2 DEF Fresh
      <4> QED BY <1>0, <2>1, <2>3, <4>3, <4>4 DEF Fresh
    <3>3. CASE ~uconn
      <4>1. uqueue' = uqueue /\ ujob' = ujob
        BY <2>1, <3>3
      <4>2. \A i \in 1..Len(uqueue) : trigger'[uqueue[i]] = trigger[uqueue[i]]
        BY <1>q, <2>3, <3>1
      <4>3. \A r \in Updates : trigger'[r].at \in {"idle", "send"} => ujob[r].at = "none"
        BY <1>0, <2>3, <3>1 DEF Fresh
      <4> QED BY <1>0, <4>1, <4>2, <4>3 DEF Fresh
    <3> QED BY <3>2, <3>3
  <2> QED BY <2>1, <2>5, <2>6, Elsewhere
<1>4. ASSUME NEW q \in Updates, Update!Offer(q) PROVE UpdateInv'
  <2>1. /\ policy' = policy /\ uconn' = uconn /\ ujob' = ujob /\ uqueue' = uqueue /\ scripts' = scripts
        /\ trigger[q].at = "offer" /\ trigger' = [trigger EXCEPT ![q].at = "done"]
        /\ lock' = lock /\ running' = running /\ path' = path /\ spare' = spare /\ spoilt' = spoilt
    BY <1>4 DEF Update!Offer, Update!wire, Update!agent, Update!disk
  <2>2. /\ trigger' \in [Updates -> [at : {"idle", "send", "offer", "done"}, v : Nat]]
        /\ trigger'[q].at = "done" /\ \A r \in Updates : r # q => trigger'[r] = trigger[r]
    BY <1>0, <2>1 DEF UpdateTypes
  <2>3. UpdateTypes' /\ Fresh'
    BY <1>0, <1>q, <2>1, <2>2 DEF UpdateTypes, Fresh
  <2> QED BY <2>1, <2>3, Elsewhere
<1>5. CASE Update!Record \/ Update!Connect
  <2>1. /\ policy' = policy /\ uconn' \in BOOLEAN /\ ujob' = ujob /\ uqueue' = uqueue /\ scripts' = scripts
        /\ trigger' = trigger /\ (running # None \/ uconn' = uconn)
        /\ lock' = lock /\ running' = running /\ path' = path /\ spare' = spare /\ spoilt' = spoilt
    BY <1>0, <1>5 DEF Update!Record, Update!Connect, Update!agent, Update!disk, Update!history, UpdateTypes
  <2>2. UpdateTypes' /\ Fresh'
    BY <1>0, <2>1, StillFresh DEF UpdateTypes
  <2> QED BY <2>1, <2>2, Elsewhere
<1>6. CASE UNCHANGED updateVars
  <2>1. /\ policy' = policy /\ uconn' = uconn /\ ujob' = ujob /\ uqueue' = uqueue /\ scripts' = scripts
        /\ trigger' = trigger
        /\ lock' = lock /\ running' = running /\ path' = path /\ spare' = spare /\ spoilt' = spoilt
    BY <1>6 DEF updateVars
  <2>2. UpdateTypes' /\ Fresh'
    BY <1>0, <2>1, StillFresh DEF UpdateTypes
  <2> QED BY <2>1, <2>2, Elsewhere
<1>7. CASE Update!Arrive
  <2> DEFINE q == Head(uqueue)
  <2>1. /\ uconn /\ uqueue # << >> /\ uqueue' = Tail(uqueue) /\ Update!Start(q)
        /\ policy' = policy /\ uconn' = uconn /\ scripts' = scripts /\ trigger' = trigger
        /\ running' = running /\ path' = path /\ spare' = spare /\ spoilt' = spoilt
    BY <1>7 DEF Update!Arrive, Update!handlers, Update!disk
  <2>2. /\ q \in Updates /\ uqueue' \in Seq(Updates) /\ Len(uqueue') = Len(uqueue) - 1 /\ Len(uqueue) >= 1
        /\ \A i \in 1..Len(uqueue') : uqueue'[i] = uqueue[i + 1]
        /\ q = uqueue[1]
    BY <1>0, <1>q, <2>1, HeadTailProperties, EmptySeq DEF UpdateTypes
  <2>3. /\ ujob[q].at = "none" /\ trigger[q].at \notin {"idle", "send"} /\ running # None
        /\ \A i \in 1..Len(uqueue') : uqueue'[i] # q
    BY <1>0, <1>q, <2>1, <2>2 DEF Fresh, OneUpdate
  <2> HIDE DEF q
  <2>4. ASSUME \A r \in Updates : r # q => ujob'[r] = ujob[r] PROVE Fresh'
    <3>1. \A i \in 1..Len(uqueue') : i + 1 \in 1..Len(uqueue) /\ ujob'[uqueue'[i]] = ujob[uqueue[i + 1]]
      BY <1>q, <2>2, <2>3, <2>4
    <3> QED BY <1>0, <1>q, <2>1, <2>2, <2>3, <2>4, <3>1 DEF Fresh
  <2>5. CASE ujob' = [ujob EXCEPT ![q].at = "over"] /\ lock' = lock
    <3>1. ujob[q] \in [at : AtWork \cup {"none", "over"}, v : Nat, cut : BOOLEAN]
      BY <1>0, <2>2 DEF UpdateTypes
    <3>2. [ujob[q] EXCEPT !.at = "over"] \in [at : AtWork \cup {"none", "over"}, v : Nat, cut : BOOLEAN]
          /\ [ujob[q] EXCEPT !.at = "over"].at = "over"
      <4> HIDE DEF AtWork
      <4> QED BY <3>1
    <3>3. /\ ujob' \in [Updates -> [at : AtWork \cup {"none", "over"}, v : Nat, cut : BOOLEAN]]
          /\ ujob'[q].at = "over" /\ \A r \in Updates : r # q => ujob'[r] = ujob[r]
      <4> HIDE DEF AtWork
      <4> QED BY <1>0, <2>2, <2>5, <3>2 DEF UpdateTypes
    <3>4. UpdateTypes' /\ Fresh'
      BY <1>0, <2>1, <2>2, <2>4, <3>3 DEF UpdateTypes
    <3>5. "over" \notin AtWork
      BY DEF AtWork
    <3>6. OneUpdate' /\ (~spoilt' => Placing')
      <4> HIDE DEF AtWork
      <4> QED BY <1>0, <2>1, <2>3, <2>5, <3>3, <3>5 DEF OneUpdate, Placing
    <3> QED BY <3>4, <3>6 DEF UpdateInv
  <2>6. CASE /\ lock = {} /\ lock' = {q}
             /\ ujob' = [ujob EXCEPT ![q] = [at |-> "fetch", v |-> trigger[q].v, cut |-> FALSE]]
    <3>1. trigger[q].v \in Nat
      BY <1>0, <2>2 DEF UpdateTypes
    <3>2. [at |-> "fetch", v |-> trigger[q].v, cut |-> FALSE]
            \in [at : AtWork \cup {"none", "over"}, v : Nat, cut : BOOLEAN]
      BY <3>1 DEF AtWork
    <3>3. /\ ujob' \in [Updates -> [at : AtWork \cup {"none", "over"}, v : Nat, cut : BOOLEAN]]
          /\ ujob'[q].at = "fetch" /\ \A r \in Updates : r # q => ujob'[r] = ujob[r]
      <4> HIDE DEF AtWork
      <4> QED BY <1>0, <2>2, <2>6, <3>2 DEF UpdateTypes
    <3>4. UpdateTypes' /\ Fresh'
      BY <1>0, <2>1, <2>2, <2>4, <3>3 DEF UpdateTypes
    <3>5. \A r \in Updates : ujob[r].at \notin AtWork
      <4> HIDE DEF AtWork
      <4> QED BY <1>0, <2>6 DEF OneUpdate
    <3>6. OneUpdate'
      <4> HIDE DEF AtWork
      <4> QED BY <2>1, <2>3, <2>6, <3>3, <3>5 DEF OneUpdate
    <3>7. ~spoilt' => Placing'
      BY <1>0, <2>1, <2>3, <3>3, <3>5 DEF Placing, AtWork
    <3> QED BY <3>4, <3>6, <3>7 DEF UpdateInv
  <2> QED BY <2>1, <2>5, <2>6 DEF Update!Start
<1>8. ASSUME NEW q \in Updates, Update!Fetch(q) PROVE UpdateInv'
  <2>1. /\ ujob[q].at = "fetch" /\ UNCHANGED aside /\ path' = path /\ spare' = spare /\ spoilt' = spoilt
        /\ "fetch" \in AtWork /\ "unlink" \in AtWork /\ "copy" \in AtWork
    BY <1>8 DEF Update!Fetch, Update!handlers, Update!disk, Update!history, aside, AtWork
  <2>2. ~spoilt => Update!IsWhole(path)
    BY <2>1, Alone
  <2>3. ujob[q].v \in Nat
    <3> HIDE DEF AtWork
    <3> QED BY <1>0 DEF UpdateTypes
  <2>4. CASE Update!Over(q) /\ scripts' \in {scripts, scripts \cup {ujob[q].v}}
    <3>1. scripts' \in SUBSET Nat /\ spoilt' \in BOOLEAN
      BY <1>0, <2>1, <2>3, <2>4 DEF UpdateTypes
    <3> QED BY <2>1, <2>2, <2>4, <3>1, ComesToAnEnd
  <2>5. CASE /\ ujob' = [ujob EXCEPT ![q].at = IF setting.writable THEN "unlink" ELSE "copy"]
             /\ lock' = lock /\ scripts' = scripts
    <3>1. PICK to \in {"unlink", "copy"} : ujob' = [ujob EXCEPT ![q].at = to]
      BY <2>5
    <3>2. to \in AtWork
      BY <2>1
    <3> QED BY <2>1, <2>2, <2>5, <3>1, <3>2, GoesOn
  <2> QED BY <1>8, <2>4, <2>5 DEF Update!Fetch
<1>9. ASSUME NEW q \in Updates, Update!Unlink(q) PROVE UpdateInv'
  <2>1. /\ ujob[q].at = "unlink" /\ ujob' = [ujob EXCEPT ![q].at = "aside"] /\ UNCHANGED aside
        /\ path' = path /\ lock' = lock /\ scripts' = scripts /\ spoilt' = spoilt
        /\ "unlink" \in AtWork /\ "aside" \in AtWork
    BY <1>9 DEF Update!Unlink, Update!Step, Update!handlers, Update!wire, Update!history, aside, AtWork
  <2> QED BY <2>1, Alone, GoesOn
<1>10. ASSUME NEW q \in Updates, Update!SetAside(q) PROVE UpdateInv'
  <2>1. /\ ujob[q].at = "aside" /\ ujob' = [ujob EXCEPT ![q].at = "swap"] /\ UNCHANGED aside
        /\ path' = None /\ spare' = path /\ lock' = lock /\ scripts' = scripts /\ spoilt' = spoilt
        /\ "aside" \in AtWork /\ "swap" \in AtWork
    BY <1>10 DEF Update!SetAside, Update!Step, Update!handlers, Update!wire, Update!history, aside, AtWork
  <2>2. ~spoilt => Update!IsWhole(spare')
    BY <2>1, Alone
  <2> QED BY <2>1, <2>2, GoesOn
<1>11. ASSUME NEW q \in Updates, Update!Swap(q) \/ Update!WriteOver(q) PROVE UpdateInv'
  <2>1. /\ ujob[q].at \in {"swap", "write"} /\ ujob' = [ujob EXCEPT ![q].at = "placed"] /\ UNCHANGED aside
        /\ path' = Update!Whole(ujob[q].v) /\ lock' = lock /\ scripts' = scripts /\ spoilt' = spoilt
        /\ ujob[q].at \in AtWork /\ "placed" \in AtWork
    BY <1>11 DEF Update!Swap, Update!WriteOver, Update!Step, Update!handlers, Update!wire, Update!history, aside, AtWork
  <2>2. ujob[q].v \in Nat
    <3> HIDE DEF AtWork
    <3> QED BY <1>0 DEF UpdateTypes
  <2>3. Update!IsWhole(path')
    BY <2>1, <2>2, NewIsWhole
  <2> QED BY <2>1, <2>3, GoesOn
<1>12. ASSUME NEW q \in Updates, Update!RenameFails(q) PROVE UpdateInv'
  <2>1. /\ ujob[q].at \in {"aside", "swap"} /\ ujob[q].at \in AtWork /\ Update!Over(q) /\ UNCHANGED aside
        /\ scripts' = scripts /\ spoilt' = spoilt
        /\ path' = IF ujob[q].at = "aside" THEN path ELSE spare
    BY <1>12 DEF Update!RenameFails, Update!handlers, Update!disk, Update!history, aside, AtWork
  <2>2. ~spoilt => Update!IsWhole(path')
    BY <2>1, Alone
  <2>3. scripts' \in SUBSET Nat /\ spoilt' \in BOOLEAN
    BY <1>0, <2>1 DEF UpdateTypes
  <2> QED BY <2>1, <2>2, <2>3, ComesToAnEnd
<1>13. ASSUME NEW q \in Updates, Update!CopyAway(q) PROVE UpdateInv'
  <2>1. /\ ujob[q].at = "copy" /\ ujob' = [ujob EXCEPT ![q].at = "truncate"] /\ UNCHANGED aside
        /\ path' = path /\ spare' = path /\ lock' = lock /\ scripts' = scripts /\ spoilt' = spoilt
        /\ "copy" \in AtWork /\ "truncate" \in AtWork
    BY <1>13 DEF Update!CopyAway, Update!Step, Update!handlers, Update!wire, Update!history, aside, AtWork
  <2>2. ~spoilt => Update!IsWhole(path)
    BY <2>1, Alone
  <2> QED BY <2>1, <2>2, GoesOn
<1>14. ASSUME NEW q \in Updates, Update!Truncate(q) PROVE UpdateInv'
  <2>1. /\ ujob[q].at = "truncate" /\ ujob' = [ujob EXCEPT ![q].at = "write"] /\ UNCHANGED aside
        /\ spare' = spare /\ lock' = lock /\ scripts' = scripts /\ spoilt' = spoilt
        /\ "truncate" \in AtWork /\ "write" \in AtWork
    BY <1>14 DEF Update!Truncate, Update!Step, Update!handlers, Update!wire, Update!history, aside, AtWork
  <2>2. ~spoilt => Update!IsWhole(spare)
    BY <2>1, Alone
  <2> QED BY <2>1, <2>2, GoesOn
<1>15. ASSUME NEW q \in Updates, Update!OverwriteFails(q) PROVE UpdateInv'
  <2>1. /\ ujob[q].at \in {"copy", "truncate", "write"} /\ ujob[q].at \in AtWork
        /\ Update!Over(q) /\ UNCHANGED aside /\ scripts' = scripts
        /\ \/ ujob[q].at # "write" /\ path' = path /\ spoilt' = spoilt
           \/ ujob[q].at = "write" /\ path' = spare /\ spoilt' = spoilt
           \/ spoilt' = TRUE
    BY <1>15 DEF Update!OverwriteFails, Update!handlers, aside, AtWork
  <2>2. ~spoilt' => ~spoilt /\ Update!IsWhole(path')
    BY <2>1, Alone
  <2>3. scripts' \in SUBSET Nat /\ spoilt' \in BOOLEAN
    BY <1>0, <2>1 DEF UpdateTypes
  <2> QED BY <2>1, <2>2, <2>3, ComesToAnEnd
<1>16. ASSUME NEW q \in Updates, Update!Placed(q) PROVE UpdateInv'
  <2>1. /\ ujob[q].at = "placed" /\ UNCHANGED aside /\ path' = path /\ scripts' = scripts /\ spoilt' = spoilt
        /\ "placed" \in AtWork /\ "exit" \in AtWork
        /\ \/ ujob' = [ujob EXCEPT ![q].at = "exit"] /\ lock' = lock
           \/ Update!Over(q)
    BY <1>16 DEF Update!Placed, Update!handlers, Update!disk, aside, AtWork
  <2>2. ~spoilt => Update!IsWhole(path)
    BY <2>1, Alone
  <2>3. scripts' \in SUBSET Nat /\ spoilt' \in BOOLEAN
    BY <1>0, <2>1 DEF UpdateTypes
  <2>4. CASE ujob' = [ujob EXCEPT ![q].at = "exit"] /\ lock' = lock
    BY <2>1, <2>2, <2>4, GoesOn
  <2>5. CASE Update!Over(q)
    BY <2>1, <2>2, <2>3, <2>5, ComesToAnEnd
  <2> QED BY <2>1, <2>4, <2>5
<1>17. CASE (\E q \in Updates : Update!Exit(q)) \/ Update!AgentCrash
  <2>1. /\ Update!Respawn(path) /\ path' = path /\ spare' = spare
        /\ policy' = policy /\ trigger' = trigger /\ scripts' = scripts /\ spoilt' = spoilt
    BY <1>17 DEF Update!Exit, Update!AgentCrash, Update!handlers, Update!disk
  <2>2. ~spoilt => Update!IsWhole(path) \/ Update!IsWhole(spare)
    BY <1>0 DEF Placing
  <2>3. Update!Respawn(path')
    BY <2>1 DEF Update!Respawn
  <2>4. scripts' \in SUBSET Nat /\ trigger' \in [Updates -> [at : {"idle", "send", "offer", "done"}, v : Nat]]
    BY <1>0, <2>1 DEF UpdateTypes
  <2> QED BY <2>1, <2>2, <2>3, <2>4, Respawns
<1>18. ASSUME NEW v \in 1..3, Update!ScriptEnds(v) PROVE UpdateInv'
  <2>1. /\ policy' = policy /\ spare' = spare /\ spoilt' = spoilt /\ scripts' = scripts \ {v}
        /\ scripts' \in SUBSET Nat
    BY <1>0, <1>18 DEF Update!ScriptEnds, UpdateTypes
  <2>2. CASE path' = path /\ trigger' = trigger /\ UNCHANGED Update!wire /\ UNCHANGED Update!agent
    <3>1. uconn' = uconn /\ uqueue' = uqueue /\ running' = running /\ ujob' = ujob /\ lock' = lock
      BY <2>2 DEF Update!wire, Update!agent
    <3>2. UpdateTypes' /\ Fresh'
      BY <1>0, <2>1, <2>2, <3>1, StillFresh DEF UpdateTypes
    <3> QED BY <2>1, <2>2, <3>1, <3>2, Elsewhere
  <2>3. CASE /\ path' = Update!Whole(v) /\ Update!Respawn(path')
             /\ trigger' = [q \in Updates |-> IF trigger[q].at \in {"send", "offer"}
                                              THEN [trigger[q] EXCEPT !.at = "done"] ELSE trigger[q]]
    <3>1. Update!IsWhole(path')
      BY <2>3, NewIsWhole
    <3>2. trigger' \in [Updates -> [at : {"idle", "send", "offer", "done"}, v : Nat]]
      BY <1>0, <2>3, ZenonT(30) DEF UpdateTypes
    <3>3. \A q \in Updates : trigger'[q].at \in {"idle", "send"} => trigger[q].at \in {"idle", "send"}
      BY <1>0, <2>3 DEF UpdateTypes
    <3> QED BY <2>1, <2>3, <3>1, <3>2, <3>3, Respawns
  <2> QED BY <1>18, <2>2, <2>3 DEF Update!ScriptEnds
<1>19. CASE Update!Drop
  <2>1. /\ uconn' = FALSE /\ uqueue' = << >> /\ policy' = policy /\ trigger' = trigger
        /\ running' = running /\ lock' = lock /\ path' = path /\ spare' = spare
        /\ scripts' = scripts /\ spoilt' = spoilt
        /\ ujob' = [q \in Updates |-> [ujob[q] EXCEPT !.cut = ujob[q].at = "fetch"]]
    BY <1>19 DEF Update!Drop, Update!handlers, Update!disk
  <2>2. /\ ujob' \in [Updates -> [at : AtWork \cup {"none", "over"}, v : Nat, cut : BOOLEAN]]
        /\ \A q \in Updates : ujob'[q].at = ujob[q].at
    <3> HIDE DEF AtWork
    <3> QED BY <1>0, <2>1 DEF UpdateTypes
  <2>3. UpdateTypes' /\ Fresh'
    <3>1. uqueue' \in Seq(Updates) /\ Len(uqueue') = 0
      BY <2>1, EmptySeq
    <3>2. UpdateTypes'
      BY <1>0, <2>1, <2>2, <3>1 DEF UpdateTypes
    <3>3. \A i \in 1..Len(uqueue') : FALSE
      BY <3>1
    <3>4. \A q \in Updates : trigger'[q].at \in {"idle", "send"} => ujob'[q].at = "none"
      BY <1>0, <2>1, <2>2 DEF Fresh
    <3> QED BY <3>2, <3>3, <3>4 DEF Fresh
  <2>4. OneUpdate' /\ (~spoilt' => Placing')
    BY <1>0, <2>1, <2>2 DEF OneUpdate, Placing
  <2> QED BY <2>3, <2>4 DEF UpdateInv
<1> QED
  BY <1>1, <1>2, <1>3, <1>4, <1>5, <1>6, <1>7, <1>8, <1>9, <1>10, <1>11, <1>12, <1>13, <1>14,
     <1>15, <1>16, <1>17, <1>18, <1>19 DEF Update!Next, Update!System

\* Wherever an update or the host dies, a whole binary is at the path or beside
\* it, unless writing one back has failed.  One update is at work at a time,
\* and takes the binary from the path only while its copy is beside it.
THEOREM BinaryIsKept == MCSpec => []BinaryKept
<1>1. MCInit => UpdateInv
  BY UpdateStarts DEF MCInit
<1>2. UpdateInv /\ [MCNext]_allVars => UpdateInv'
  BY UpdateStep DEF MCNext, allVars
<1> QED BY <1>1, <1>2, KeptNow, PTL DEF MCSpec

-----------------------------------------------------------------------------
(***************************************************************************)
(* Requests that are answered while somebody waits.                        *)
(***************************************************************************)
(***************************************************************************)
(* What the variables hold.                                                *)
(***************************************************************************)
Statuses == {"succeeded", "failed"}
Contents == Nat \cup Statuses
Events   == [kind : {"log", "pin_required", "result"}, data : Contents]
Messages == [id : Requests, kind : {"log", "pin_required", "result"}, data : Contents]

NetOps == {"wired", "save", "psk", "connect", "alongside", "disconnect", "forget"}

Asks ==
  {NoCmd} \cup {[op |-> o] : o \in {"detect", "install", "users", "uninstall", "pair"}}
  \cup NetArgs \cup [op : {"pin"}, for : Requests]

Outcomes == {None, "offline", "succeeded", "failed", "timeout", "gone"}

\* The second profiles: one for each network that may be joined alongside.
Seconds == {Beside(a.name) : a \in {b \in NetArgs : b.op = "alongside"}}

\* The commands of a plan: none makes a second profile that any interface may
\* take, or frees one.
CmdNames == {None, "dhcp", "addr", "gw", Cellular, Pan}
            \cup {a.name : a \in NetArgs} \cup {Beside(a.name) : a \in NetArgs}
Profiles == [psk : {a.psk : a \in NetArgs} \cup {"right"}, on : {"any", "virt", "modem", "bt"}]
CmdVals  == {None, TRUE, FALSE, "virt", {"paired"}, {"paired", "connected"}, {}}
            \cup NetArgs \cup {a.addr : a \in NetArgs} \cup {a.gw : a \in NetArgs}
            \cup {a.psk : a \in NetArgs} \cup Profiles
CmdKinds == {"nm-modify", "np-set", "wired-up", "add", "psk", "bind", "up", "down", "delete",
             "bt", "look", "del-virt", "add-virt"}

Harmless(c) ==
  /\ c.k = "add"  => c.val \in Profiles /\ (c.name \in Seconds => c.val.on # "any")
  /\ c.k = "bind" => c.val = "virt"
  /\ c.k = "np-set" => c.name \in {"dhcp", "addr", "gw"}

Cmds == {c \in [k : CmdKinds, must : BOOLEAN, name : CmdNames, val : CmdVals] : Harmless(c)}

Jobs == [at    : {"none", "script", "pair", "net", "replied"}, lines : Nat, todo : Seq(Cmds),
         bt    : {"none", "runs", "paired", "asks", "refused", "gone"},
         scan  : {"none", "reads", "waits", "failed"}]

Handlers  == [at : {"idle", "wait", "done"}, cmd : Asks, end : Outcomes]
Mailboxes == [open : BOOLEAN, logs : Seq(Events), res : {None} \cup Statuses]

ResultsTell(ms) == \A i \in DOMAIN ms : ms[i].kind = "result" => ms[i].data \in Statuses

ReqTypes ==
  /\ family \in Families /\ backend \in {"nm", "netplan"} /\ conn \in BOOLEAN /\ faults \in Nat
  /\ down \subseteq Requests /\ up \in Seq(Messages) /\ Len(up) <= DirectCap
  /\ ResultsTell(up)
  /\ req \in [Requests -> Handlers] /\ box \in [Requests -> Mailboxes]
  /\ job \in [Requests -> Jobs]
  /\ pins \in [Requests -> {None, Empty} \cup Requests]
  /\ client \in [Requests -> Seq(Events)] /\ pushed \in [Requests -> Seq(Events)]
  /\ missed \in [Requests -> BOOLEAN]
  /\ typed \subseteq Requests \X Requests

-----------------------------------------------------------------------------
(***************************************************************************)
(* Where a request is: what was not begun left nothing, who waits has a    *)
(* mailbox, and the agent has it once.                                     *)
(***************************************************************************)
OfScript == {"detect", "install", "users", "uninstall"}
Installs == {"install", "uninstall"}

Quiet(r) == \A i \in DOMAIN up : up[i].id # r

Placed(r) ==
  /\ req[r].at = "idle" =>
       /\ req[r].cmd = NoCmd /\ req[r].end = None /\ box[r] = Closed
       /\ client[r] = << >> /\ pushed[r] = << >>
       /\ r \notin down /\ job[r] = NoJob /\ Quiet(r)
  /\ req[r].cmd.op = "none" => req[r].at = "idle"
  /\ box[r].open <=> req[r].at = "wait"
  /\ req[r].at = "wait" => req[r].end = None
  /\ box[r].res # None => req[r].at = "wait"
  /\ job[r].at # "none" => r \notin down
  /\ job[r].at = "none" => job[r] = NoJob
  /\ job[r].at = "script" => req[r].cmd.op \in OfScript /\ job[r].scan = "none"
  /\ job[r].at = "pair" => req[r].cmd.op = "pair"
  /\ job[r].at = "net" => req[r].cmd \in NetArgs /\ job[r].scan = "none"
  /\ req[r].cmd.op \in OfScript => family = "tools"
  /\ req[r].cmd.op \in {"pair", "pin"} => family = "pair"
  /\ req[r].cmd.op \in NetOps => family = "net"
  /\ req[r].cmd.op \in RadioOps => family = "radio"

-----------------------------------------------------------------------------
(***************************************************************************)
(* The log of an install.                                                  *)
(***************************************************************************)
\* s ends in the newest Cap elements of p; it ends in all of p if these are less.
Covers(s, p) ==
  \A j \in Nat : j < Cap /\ j < Len(p) => j < Len(s) /\ s[Len(s) - j] = p[Len(p) - j]

\* p ends in s.
EndOf(s, p) ==
  Len(s) <= Len(p) /\ \A j \in Nat : j < Len(s) => s[Len(s) - j] = p[Len(p) - j]

\* What was written and what waits in the mailbox are up to date together.
Told(r) ==
  req[r].cmd.op \in Installs =>
    /\ req[r].at = "wait" =>
         /\ Len(box[r].logs) <= Cap /\ EndOf(box[r].logs, pushed[r])
         /\ Covers(client[r] \o box[r].logs, pushed[r])
    /\ req[r].end \in Statuses => Covers(client[r], pushed[r])

-----------------------------------------------------------------------------
(***************************************************************************)
(* The challenge of a pairing.                                             *)
(***************************************************************************)
\* It is the last that the scanner said: in the direct buffer nothing of the
\* pairing is behind it, and once it is in the mailbox nothing follows.
Question(r) == [id |-> r, kind |-> "pin_required", data |-> job[r].lines]

Pending(r) ==
  \/ \E i \in DOMAIN up : up[i] = Question(r) /\ \A j \in DOMAIN up : j > i => up[j].id # r
  \/ /\ Quiet(r)
     /\ \/ \E i \in DOMAIN box[r].logs : box[r].logs[i] = Asked(r)
        \/ \E i \in DOMAIN client[r] : client[r][i] = Asked(r)

Asking(r) ==
  /\ job[r].scan # "none" => req[r].cmd.op = "pair"
  /\ job[r].scan = "waits" /\ job[r].bt = "asks" /\ req[r].at = "wait" /\ ~missed[r] => Pending(r)

-----------------------------------------------------------------------------
(***************************************************************************)
(* PINs: a reply is in one waiter, or was typed, and is never again on its *)
(* way.                                                                    *)
(***************************************************************************)
Spent(q, r) == req[q].cmd.op = "pin" /\ req[q].cmd.for = r /\ q \notin down

PinInv ==
  /\ \A r \in Requests : pins[r] \in Requests =>
       Spent(pins[r], r) /\ \A t \in typed : t[2] # pins[r]
  /\ \A t \in typed : Spent(t[2], t[1])

-----------------------------------------------------------------------------
(***************************************************************************)
(* The network.                                                            *)
(***************************************************************************)
NetParts == {"profile", "dev", "saved", "wifi", "virt", "second", "cell", "pan", "device"}

ShapeOf(n) ==
  /\ DOMAIN n = NetParts
  /\ DOMAIN n.profile = {"dhcp", "addr", "gw"}
  /\ \A x \in DOMAIN n.saved :
       /\ DOMAIN n.saved[x] = {"psk", "on"} /\ n.saved[x].on \in {"any", "virt", "modem", "bt"}
       /\ x \in Seconds => n.saved[x].on # "any"

NetShape == ShapeOf(net)

\* The commands that answer an alongside request.
AlongsideCmds(a) ==
  {c \in Cmds : /\ c.k \in {"del-virt", "add-virt", "bind", "add", "up"}
                /\ c.k = "up" => c.name = Beside(a.name)}

AlongsideInv ==
  \A r \in Requests :
    job[r].at = "net" /\ req[r].cmd.op = "alongside" => job[r].todo \in Seq(AlongsideCmds(req[r].cmd))

-----------------------------------------------------------------------------
(***************************************************************************)
(* Wired changes, while nothing went wrong and requests did not overlap.   *)
(***************************************************************************)
Calm == faults = 0 /\ family = "net"

AtRest(r) == job[r].at \in {"none", "replied"} /\ r \notin down

Out(r) ==
  \/ req[r].at = "done" \/ box[r].res # None
  \/ \E i \in DOMAIN up : up[i].id = r /\ up[i].kind = "result"

\* One request at a time, and an answer is the end of it.
SerialInv ==
  Calm => /\ \A r \in Requests : Out(r) => AtRest(r)
          /\ \A r, s \in Requests : r < s /\ req[s].at # "idle" => req[r].at = "done"

WireKinds == {"nm-modify", "np-set", "wired-up"}

\* A command of a wired change: what sets a part of the address sets it to
\* what was asked, and may not be skipped.
WireCmd(a, c) ==
  /\ c.k \in WireKinds
  /\ c.k = "nm-modify" => c.must /\ c.val = a
  /\ c.k = "np-set" /\ c.name = "dhcp" => c.must /\ c.val = a.dhcp
  /\ c.k = "np-set" /\ c.name = "addr" /\ ~a.dhcp => c.must /\ c.val = a.addr
  /\ c.k = "wired-up" => c.must

SetsDhcp(c) == c.k = "nm-modify" \/ (c.k = "np-set" /\ c.name = "dhcp")
SetsAddr(c) == c.k = "nm-modify" \/ (c.k = "np-set" /\ c.name = "addr")

\* What is left to run ends with bringing the device up; what the profile
\* lacks is still to be set.
WireTodo(a, todo, p, d) ==
  /\ \A i \in DOMAIN todo : WireCmd(a, todo[i])
  /\ \A i \in DOMAIN todo : todo[i].k = "wired-up" <=> i = Len(todo)
  /\ p.dhcp = a.dhcp \/ \E i \in DOMAIN todo : SetsDhcp(todo[i])
  /\ a.dhcp \/ p.addr = a.addr \/ \E i \in DOMAIN todo : SetsAddr(todo[i])
  /\ todo = << >> => d.dhcp = a.dhcp /\ (~a.dhcp => d.addr = a.addr)

WorkInv ==
  Calm => \A r \in Requests : job[r].at = "net" =>
    IF req[r].cmd.op = "wired" THEN WireTodo(req[r].cmd, job[r].todo, net.profile, net.dev)
    ELSE \A i \in DOMAIN job[r].todo : job[r].todo[i].k \notin WireKinds

\* The success of a request is on its way or known.
Success(r) ==
  \/ req[r].end = "succeeded" \/ box[r].res = "succeeded"
  \/ \E i \in DOMAIN up : up[i].id = r /\ up[i].kind = "result" /\ up[i].data = "succeeded"

InForce(r) ==
  net.dev.dhcp = req[r].cmd.dhcp /\ (~req[r].cmd.dhcp => net.dev.addr = req[r].cmd.addr)

ForceInv ==
  Calm => \A r \in Requests :
    /\ req[r].cmd.op = "wired" /\ Success(r)
    /\ \A s \in Requests : s > r => req[s].cmd.op # "wired"
    => InForce(r)

-----------------------------------------------------------------------------
PlaceInv == \A r \in Requests : Placed(r)
ToldInv  == \A r \in Requests : Told(r)
AskInv   == \A r \in Requests : Asking(r)

\* The inductive invariant.
RequestsInv ==
  /\ ReqTypes /\ PlaceInv /\ ToldInv /\ AskInv /\ PinInv /\ NetShape /\ AlongsideInv
  /\ SerialInv /\ WorkInv /\ ForceInv
-----------------------------------------------------------------------------
(***************************************************************************)
(* Sequences.                                                              *)
(***************************************************************************)
LEMMA SeqFacts ==
  ASSUME NEW S, NEW s \in Seq(S)
  PROVE  /\ Len(s) \in Nat /\ DOMAIN s = 1..Len(s) /\ \A i \in 1..Len(s) : s[i] \in S
         /\ s # << >> <=> Len(s) > 0
         /\ s # << >> => /\ Head(s) = s[1] /\ Head(s) \in S
                         /\ Tail(s) \in Seq(S) /\ Len(Tail(s)) = Len(s) - 1
                         /\ \A i \in 1..(Len(s) - 1) : Tail(s)[i] = s[i + 1]
  BY HeadTailProperties, LenProperties, EmptySeq

LEMMA AppendFacts ==
  ASSUME NEW S, NEW s \in Seq(S), NEW e \in S
  PROVE  /\ Append(s, e) \in Seq(S) /\ Len(Append(s, e)) = Len(s) + 1
         /\ Append(s, e)[Len(s) + 1] = e
         /\ \A i \in 1..Len(s) : Append(s, e)[i] = s[i]
  OBVIOUS

\* The next event goes from the mailbox to the client.
LEMMA MoveFirst ==
  ASSUME NEW S, NEW c \in Seq(S), NEW l \in Seq(S), l # << >>
  PROVE  Append(c, Head(l)) \o Tail(l) = c \o l
<1>1. /\ Head(l) = l[1] /\ Head(l) \in S /\ Tail(l) \in Seq(S) /\ Len(Tail(l)) = Len(l) - 1
      /\ Len(l) \in Nat /\ Len(l) > 0 /\ Len(c) \in Nat
      /\ \A i \in 1..(Len(l) - 1) : Tail(l)[i] = l[i + 1]
  BY SeqFacts
<1>2. /\ Append(c, Head(l)) \in Seq(S) /\ Len(Append(c, Head(l))) = Len(c) + 1
      /\ Append(c, Head(l))[Len(c) + 1] = l[1]
      /\ \A i \in 1..Len(c) : Append(c, Head(l))[i] = c[i]
  BY <1>1, AppendFacts
<1>3. /\ Append(c, Head(l)) \o Tail(l) \in Seq(S)
      /\ Len(Append(c, Head(l)) \o Tail(l)) = Len(c) + Len(l)
      /\ \A i \in 1..(Len(c) + Len(l)) : (Append(c, Head(l)) \o Tail(l))[i] =
            IF i <= Len(c) + 1 THEN Append(c, Head(l))[i] ELSE Tail(l)[i - (Len(c) + 1)]
  <2> DEFINE h == Append(c, Head(l))
             t == Tail(l)
  <2>1. h \in Seq(S) /\ t \in Seq(S) /\ Len(h) = Len(c) + 1 /\ Len(t) = Len(l) - 1
    BY <1>1, <1>2
  <2> HIDE DEF h, t
  <2>2. /\ h \o t \in Seq(S) /\ Len(h \o t) = Len(h) + Len(t)
        /\ \A i \in 1..(Len(h) + Len(t)) : (h \o t)[i] = IF i <= Len(h) THEN h[i] ELSE t[i - Len(h)]
    BY <2>1, ConcatProperties
  <2>3. Len(h) + Len(t) = Len(c) + Len(l)
    BY <2>1, <1>1
  <2>4. /\ h \o t \in Seq(S) /\ Len(h \o t) = Len(c) + Len(l)
        /\ \A i \in 1..(Len(c) + Len(l)) : (h \o t)[i] = IF i <= Len(c) + 1 THEN h[i] ELSE t[i - (Len(c) + 1)]
    BY <2>2, <2>3, <2>1
  <2> QED BY <2>4 DEF h, t
<1>4. /\ c \o l \in Seq(S) /\ Len(c \o l) = Len(c) + Len(l)
      /\ \A i \in 1..(Len(c) + Len(l)) : (c \o l)[i] = IF i <= Len(c) THEN c[i] ELSE l[i - Len(c)]
  BY ConcatProperties
<1>5. ASSUME NEW i \in 1..(Len(c) + Len(l))
      PROVE  (Append(c, Head(l)) \o Tail(l))[i] = (c \o l)[i]
  <2>1. CASE i <= Len(c)
    <3>1. i \in 1..Len(c) /\ i <= Len(c) + 1
      BY <2>1, <1>1
    <3>2. (Append(c, Head(l)) \o Tail(l))[i] = Append(c, Head(l))[i]
      BY <1>3, <3>1
    <3>3. Append(c, Head(l))[i] = c[i]
      BY <1>2, <3>1
    <3> QED BY <3>2, <3>3, <1>4, <2>1
  <2>2. CASE i = Len(c) + 1
    <3>1. (Append(c, Head(l)) \o Tail(l))[i] = l[1]
      BY <1>3, <1>2, <1>1, <2>2
    <3>2. ~(i <= Len(c)) /\ i - Len(c) = 1
      BY <2>2, <1>1
    <3> QED BY <3>1, <3>2, <1>4
  <2>3. CASE i > Len(c) + 1
    <3>1. /\ i - (Len(c) + 1) \in 1..(Len(l) - 1) /\ ~(i <= Len(c) + 1) /\ ~(i <= Len(c))
          /\ i - (Len(c) + 1) + 1 = i - Len(c)
      BY <2>3, <1>1
    <3>2. (Append(c, Head(l)) \o Tail(l))[i] = Tail(l)[i - (Len(c) + 1)]
      BY <1>3, <3>1
    <3>3. Tail(l)[i - (Len(c) + 1)] = l[i - Len(c)]
      BY <1>1, <3>1
    <3> QED BY <3>1, <3>2, <3>3, <1>4
  <2> QED BY <2>1, <2>2, <2>3, <1>1
<1> DEFINE u == Append(c, Head(l)) \o Tail(l)
           v == c \o l
<1>6. u \in Seq(S) /\ v \in Seq(S) /\ Len(u) = Len(v) /\ \A i \in 1..Len(u) : u[i] = v[i]
  BY <1>3, <1>4, <1>5
<1> HIDE DEF u, v
<1>7. u = v
  BY <1>6, SeqEqual
<1> QED BY <1>7 DEF u, v

-----------------------------------------------------------------------------
(***************************************************************************)
(* The newest events.                                                      *)
(***************************************************************************)
LEMMA EndEmpty == EndOf(<< >>, << >>) /\ \A p : Covers(p, << >>)
  BY EmptySeq DEF EndOf, Covers

\* An event is added to both.
LEMMA EndGrows ==
  ASSUME NEW S, NEW l \in Seq(S), NEW p \in Seq(S), NEW e \in S, EndOf(l, p)
  PROVE  EndOf(Append(l, e), Append(p, e))
<1>1. /\ Len(Append(l, e)) = Len(l) + 1 /\ Len(Append(p, e)) = Len(p) + 1
      /\ Len(l) \in Nat /\ Len(p) \in Nat /\ Len(l) <= Len(p)
      /\ Append(l, e)[Len(l) + 1] = e /\ Append(p, e)[Len(p) + 1] = e
      /\ \A i \in 1..Len(l) : Append(l, e)[i] = l[i]
      /\ \A i \in 1..Len(p) : Append(p, e)[i] = p[i]
  BY AppendFacts, SeqFacts DEF EndOf
<1>2. ASSUME NEW j \in Nat, j < Len(l) + 1
      PROVE  Append(l, e)[Len(l) + 1 - j] = Append(p, e)[Len(p) + 1 - j]
  <2>1. CASE j = 0
    BY <1>1, <2>1
  <2>2. CASE j > 0
    <3>1. j - 1 \in Nat /\ j - 1 < Len(l) /\ Len(l) + 1 - j \in 1..Len(l) /\ Len(p) + 1 - j \in 1..Len(p)
          /\ Len(l) - (j - 1) = Len(l) + 1 - j /\ Len(p) - (j - 1) = Len(p) + 1 - j
      BY <1>1, <1>2, <2>2
    <3>2. l[Len(l) - (j - 1)] = p[Len(p) - (j - 1)]
      BY <3>1 DEF EndOf
    <3> QED BY <3>1, <3>2, <1>1
  <2>3. j = 0 \/ j > 0
    BY <1>2
  <2> QED BY <2>1, <2>2, <2>3
<1> QED BY <1>1, <1>2 DEF EndOf

\* The oldest leaves.
LEMMA EndTail ==
  ASSUME NEW S, NEW l \in Seq(S), NEW p \in Seq(S), EndOf(l, p), l # << >>
  PROVE  EndOf(Tail(l), p)
<1>1. /\ Len(Tail(l)) = Len(l) - 1 /\ Len(l) \in Nat /\ Len(p) \in Nat /\ Len(l) <= Len(p)
      /\ \A i \in 1..(Len(l) - 1) : Tail(l)[i] = l[i + 1]
  BY SeqFacts DEF EndOf
<1>2. ASSUME NEW j \in Nat, j < Len(l) - 1
      PROVE  Tail(l)[Len(l) - 1 - j] = p[Len(p) - j]
  <2>1. Len(l) - 1 - j \in 1..(Len(l) - 1) /\ Len(l) - 1 - j + 1 = Len(l) - j /\ j < Len(l)
    BY <1>1, <1>2
  <2>2. l[Len(l) - j] = p[Len(p) - j]
    BY <2>1 DEF EndOf
  <2> QED BY <2>1, <2>2, <1>1
<1> QED BY <1>1, <1>2 DEF EndOf

\* There was room: everything that was covered still is.
LEMMA CoversGrow ==
  ASSUME NEW S, NEW s \in Seq(S), NEW p \in Seq(S), NEW e \in S, Covers(s, p), Cap \in Nat
  PROVE  Covers(Append(s, e), Append(p, e))
<1>1. /\ Len(Append(s, e)) = Len(s) + 1 /\ Len(Append(p, e)) = Len(p) + 1
      /\ Len(s) \in Nat /\ Len(p) \in Nat
      /\ Append(s, e)[Len(s) + 1] = e /\ Append(p, e)[Len(p) + 1] = e
      /\ \A i \in 1..Len(s) : Append(s, e)[i] = s[i]
      /\ \A i \in 1..Len(p) : Append(p, e)[i] = p[i]
  BY AppendFacts, SeqFacts
<1>2. ASSUME NEW j \in Nat, j < Cap, j < Len(p) + 1
      PROVE  j < Len(s) + 1 /\ Append(s, e)[Len(s) + 1 - j] = Append(p, e)[Len(p) + 1 - j]
  <2>1. CASE j = 0
    BY <1>1, <2>1
  <2>2. CASE j > 0
    <3>1. /\ j - 1 \in Nat /\ j - 1 < Cap /\ j - 1 < Len(p)
          /\ Len(p) + 1 - j \in 1..Len(p) /\ Len(p) - (j - 1) = Len(p) + 1 - j
      BY <1>1, <1>2, <2>2
    <3>2. j - 1 < Len(s) /\ s[Len(s) - (j - 1)] = p[Len(p) - (j - 1)]
      BY <3>1 DEF Covers
    <3>3. Len(s) + 1 - j \in 1..Len(s) /\ Len(s) - (j - 1) = Len(s) + 1 - j
      BY <3>1, <3>2, <1>1, <2>2
    <3> QED BY <3>1, <3>2, <3>3, <1>1
  <2>3. j = 0 \/ j > 0
    BY <1>2
  <2> QED BY <2>1, <2>2, <2>3
<1> QED BY <1>1, <1>2 DEF Covers

\* A full mailbox alone covers what was pushed.
LEMMA CoversFull ==
  ASSUME NEW S, NEW c \in Seq(S), NEW l \in Seq(S), NEW p \in Seq(S), EndOf(l, p), Cap \in Nat,
         Len(l) >= Cap
  PROVE  Covers(c \o l, p)
<1>1. /\ Len(c) \in Nat /\ Len(l) \in Nat /\ Len(p) \in Nat /\ Len(c \o l) = Len(c) + Len(l)
      /\ \A i \in 1..(Len(c) + Len(l)) : (c \o l)[i] = IF i <= Len(c) THEN c[i] ELSE l[i - Len(c)]
  BY SeqFacts, ConcatProperties
<1>2. ASSUME NEW j \in Nat, j < Cap, j < Len(p)
      PROVE  j < Len(c) + Len(l) /\ (c \o l)[Len(c) + Len(l) - j] = p[Len(p) - j]
  <2>1. /\ j < Len(l) /\ Len(c) + Len(l) - j \in 1..(Len(c) + Len(l)) /\ ~(Len(c) + Len(l) - j <= Len(c))
        /\ Len(c) + Len(l) - j - Len(c) = Len(l) - j
    BY <1>1, <1>2
  <2>2. (c \o l)[Len(c) + Len(l) - j] = l[Len(l) - j]
    BY <1>1, <2>1
  <2>3. l[Len(l) - j] = p[Len(p) - j]
    BY <2>1 DEF EndOf
  <2> QED BY <2>1, <2>2, <2>3, <1>1
<1> QED BY <1>1, <1>2 DEF Covers

\* What covers has the newest elements at its end.
LEMMA CoversLast ==
  ASSUME NEW S, NEW s \in Seq(S), NEW p \in Seq(S), Covers(s, p), Cap \in Nat
  PROVE  LET n == IF Len(p) < Cap THEN Len(p) ELSE Cap
         IN  Len(s) >= n /\ LastOf(s, n) = LastOf(p, n)
<1> DEFINE n == IF Len(p) < Cap THEN Len(p) ELSE Cap
<1>1. Len(s) \in Nat /\ Len(p) \in Nat /\ n \in Nat /\ n <= Len(p) /\ n <= Cap
      /\ (\A i \in 1..Len(s) : s[i] \in S) /\ (\A i \in 1..Len(p) : p[i] \in S)
  BY SeqFacts
<1>2. Len(s) >= n
  <2>1. CASE n = 0
    BY <2>1, <1>1
  <2>2. CASE n > 0
    <3>1. n - 1 \in Nat /\ n - 1 < Cap /\ n - 1 < Len(p)
      BY <2>2, <1>1
    <3>2. n - 1 < Len(s)
      BY <3>1 DEF Covers
    <3> QED BY <3>2, <1>1
  <2> QED BY <2>1, <2>2, <1>1
<1>3. ASSUME NEW t \in Seq(S), n <= Len(t)
      PROVE  /\ LastOf(t, n) \in Seq(S) /\ Len(LastOf(t, n)) = n
             /\ \A i \in 1..n : LastOf(t, n)[i] = t[Len(t) - (n - i)]
  <2> HIDE DEF n
  <2>1. /\ Len(t) \in Nat /\ Len(t) - n + 1 \in Int
        /\ \A i \in (Len(t) - n + 1)..Len(t) : t[i] \in S
    BY <1>1, <1>3, SeqFacts
  <2>2. /\ SubSeq(t, Len(t) - n + 1, Len(t)) \in Seq(S)
        /\ Len(SubSeq(t, Len(t) - n + 1, Len(t)))
             = IF Len(t) - n + 1 <= Len(t) THEN Len(t) - (Len(t) - n + 1) + 1 ELSE 0
        /\ \A i \in 1..(Len(t) - (Len(t) - n + 1) + 1) :
             SubSeq(t, Len(t) - n + 1, Len(t))[i] = t[Len(t) - n + 1 + i - 1]
    <3> DEFINE m == Len(t) - n + 1
               k == Len(t)
    <3>1. m \in Int /\ k \in Int /\ \A i \in m..k : t[i] \in S
      BY <2>1
    <3> HIDE DEF m, k
    <3>2. /\ SubSeq(t, m, k) \in Seq(S)
          /\ Len(SubSeq(t, m, k)) = IF m <= k THEN k - m + 1 ELSE 0
          /\ \A i \in 1..(k - m + 1) : SubSeq(t, m, k)[i] = t[m + i - 1]
      BY <3>1, SubSeqProperties
    <3> QED BY <3>2 DEF m, k
  <2>3. Len(t) - (Len(t) - n + 1) + 1 = n
    BY <2>1, <1>1
  <2>4. Len(SubSeq(t, Len(t) - n + 1, Len(t))) = n
    BY <2>1, <2>2, <2>3, <1>1
  <2>5. ASSUME NEW i \in 1..n
        PROVE  SubSeq(t, Len(t) - n + 1, Len(t))[i] = t[Len(t) - (n - i)]
    <3>1. Len(t) - n + 1 + i - 1 = Len(t) - (n - i)
      BY <2>1, <1>1, <2>5
    <3> QED BY <2>2, <2>3, <3>1
  <2> QED BY <2>2, <2>4, <2>5 DEF LastOf
<1>4. ASSUME NEW i \in 1..n
      PROVE  LastOf(s, n)[i] = LastOf(p, n)[i]
  <2>1. n - i \in Nat /\ n - i < Cap /\ n - i < Len(p)
    BY <1>1, <1>4
  <2>2. s[Len(s) - (n - i)] = p[Len(p) - (n - i)]
    BY <2>1 DEF Covers
  <2> HIDE DEF n
  <2> QED BY <1>1, <1>2, <1>3, <2>2
<1> HIDE DEF n
<1>5. LastOf(s, n) = LastOf(p, n)
  <2> DEFINE u == LastOf(s, n)
             v == LastOf(p, n)
  <2>1. u \in Seq(S) /\ v \in Seq(S) /\ Len(u) = Len(v) /\ \A i \in 1..Len(u) : u[i] = v[i]
    BY <1>1, <1>2, <1>3, <1>4
  <2> HIDE DEF u, v
  <2>2. u = v
    BY <2>1, SeqEqual
  <2> QED BY <2>2 DEF u, v
<1> QED BY <1>2, <1>5 DEF n
-----------------------------------------------------------------------------
(***************************************************************************)
(* The steps.                                                              *)
(***************************************************************************)
\* Commands of each family.
Fits(cmd) ==
  /\ cmd.op \in OfScript => family = "tools"
  /\ cmd.op \in {"pair", "pin"} => family = "pair"
  /\ cmd.op \in NetOps => family = "net"
  /\ cmd.op \in RadioOps => family = "radio"

Begins(r) == \E cmd \in Asks : cmd.op # "none" /\ Fits(cmd) /\ Begin(r, cmd)

LEMMA Beginnings ==
  ASSUME NEW r \in Requests,
         \/ Detect(r) \/ ListUsers(r) \/ Install(r) \/ Uninstall(r) \/ Pair(r)
         \/ \E a \in NetArgs : Unary(r, a)
         \/ \E s \in Requests : PinReply(r, s)
  PROVE  Begins(r)
<1>1. ASSUME NEW o \in {"detect", "install", "users", "uninstall"}, family = "tools", Begin(r, [op |-> o])
      PROVE  Begins(r)
  <2>1. [op |-> o] \in Asks /\ [op |-> o].op = o
    BY <1>1 DEF Asks
  <2>2. [op |-> o].op # "none" /\ Fits([op |-> o])
    BY <1>1, <2>1 DEF Fits, OfScript, NetOps, RadioOps
  <2> QED BY <1>1, <2>1, <2>2 DEF Begins
<1>2. ASSUME Pair(r)
      PROVE  Begins(r)
  <2>1. [op |-> "pair"] \in Asks
    BY DEF Asks
  <2>2. [op |-> "pair"].op # "none" /\ Fits([op |-> "pair"])
    BY <1>2 DEF Fits, OfScript, NetOps, RadioOps, Pair
  <2> QED BY <1>2, <2>1, <2>2 DEF Begins, Pair
<1>3. ASSUME NEW a \in NetArgs, Unary(r, a)
      PROVE  Begins(r)
  <2>1. a \in Asks
    BY DEF Asks
  <2>2. a.op \in NetOps \cup RadioOps
    BY RequestsAssumption DEF NetOps
  <2>3. family = IF a.op \in RadioOps THEN "radio" ELSE "net"
    BY <1>3 DEF Unary
  <2>4. a.op # "none" /\ Fits(a)
    BY <2>2, <2>3 DEF Fits, OfScript, NetOps, RadioOps
  <2> QED BY <1>3, <2>1, <2>4 DEF Begins, Unary
<1>4. ASSUME NEW s \in Requests, PinReply(r, s)
      PROVE  Begins(r)
  <2> DEFINE cmd == [op |-> "pin", for |-> s]
  <2>1. cmd \in Asks
    BY DEF Asks
  <2>2. cmd.op # "none" /\ Fits(cmd)
    BY <1>4 DEF Fits, OfScript, NetOps, RadioOps, PinReply
  <2>3. Begin(r, cmd)
    BY <1>4 DEF PinReply
  <2> QED BY <2>1, <2>2, <2>3 DEF Begins
<1> QED
  BY <1>1, <1>2, <1>3, <1>4 DEF Detect, ListUsers, Install, Uninstall

LEMMA Steps ==
  ASSUME Next
  PROVE  \/ Receive \/ Connect \/ Drop \/ AgentCrash
         \/ \E r \in Requests :
              \/ Begins(r) \/ HangUp(r)
              \/ Arrive(r) \/ WriteEvent(r) \/ MutateDone(r) \/ UnaryDone(r) \/ Timeout(r)
              \/ PrintLine(r) \/ RunScript(r) \/ ReadUsers(r)
              \/ BtLine(r) \/ BtAsks(r) \/ TypePin(r) \/ WaitEnds(r) \/ Quit(r) \/ PairDone(r)
              \/ NetStep(r) \/ NetDone(r)
  BY Beginnings DEF Next, System

-----------------------------------------------------------------------------
(***************************************************************************)
(* Requests are numbers; there may be none.                                *)
(***************************************************************************)
LEMMA Largest ==
  ASSUME NEW f \in Families
  PROVE  MaxRequests \in Nat
<1> DEFINE S == {MaxOf[g] : g \in Families}
           Big(n) == \A g \in Families : MaxOf[g] <= n
           M(g) == IF g \in Families THEN MaxOf[g] ELSE 0
<1>1. M("tools") \in Nat /\ M("pair") \in Nat /\ M("net") \in Nat /\ M("radio") \in Nat
  BY RequestsAssumption
<1>2. \A g \in Families : g \in {"tools", "pair", "net", "radio"} /\ MaxOf[g] = M(g) /\ MaxOf[g] \in Nat
  BY RequestsAssumption
<1>3. \E n \in S : Big(n)
  <2>1. ASSUME NEW g \in Families, \A h \in {"tools", "pair", "net", "radio"} : M(h) <= M(g)
        PROVE  \E n \in S : Big(n)
    <3>1. M(g) \in S /\ Big(M(g))
      BY <1>2, <2>1
    <3> QED BY <3>1
  <2>2. ASSUME NEW g \in {"tools", "pair", "net", "radio"}, \A h \in {"tools", "pair", "net", "radio"} : M(h) <= M(g)
        PROVE  \E n \in S : Big(n)
    <3>1. CASE g \in Families
      BY <3>1, <2>1, <2>2
    <3>2. CASE g \notin Families
      <4>1. M(g) = 0 /\ M(f) \in Nat /\ f \in {"tools", "pair", "net", "radio"}
        BY <3>2, <1>2
      <4>2. \A h \in {"tools", "pair", "net", "radio"} : M(h) \in Nat /\ M(h) <= 0
        BY <1>1, <2>2, <4>1
      <4>3. \A h \in {"tools", "pair", "net", "radio"} : M(h) <= M(f)
        <5> HIDE DEF M
        <5> QED BY <4>1, <4>2
      <4> QED BY <2>1, <4>3
    <3> QED BY <3>1, <3>2
  <2> HIDE DEF M
  <2>3. \E g \in {"tools", "pair", "net", "radio"} : \A h \in {"tools", "pair", "net", "radio"} : M(h) <= M(g)
    BY <1>1
  <2> QED BY <2>2, <2>3
<1>4. MaxRequests \in S
  <2> HIDE DEF Big
  <2>1. MaxRequests = CHOOSE n \in S : Big(n)
    BY DEF MaxRequests, Big
  <2> HIDE DEF S
  <2> QED BY <1>3, <2>1
<1> QED BY <1>2, <1>4

LEMMA Numbers ==
  ASSUME ReqTypes
  PROVE  /\ MaxRequests \in Nat /\ Requests = 1..MaxRequests
         /\ \A r \in Requests : r \in Nat /\ r > 0
         /\ Empty \notin Requests /\ None \notin Requests /\ None # Empty
<1>1. MaxRequests \in Nat
  BY Largest DEF ReqTypes
<1> QED BY <1>1, RequestsAssumption DEF Requests, Empty

-----------------------------------------------------------------------------
(***************************************************************************)
(* The direct buffer.                                                      *)
(***************************************************************************)
LEMMA Sending ==
  ASSUME up \in Seq(Messages), Len(up) <= DirectCap, missed \in [Requests -> BOOLEAN], faults \in Nat,
         NEW r \in Requests, NEW ms \in Seq(Events), SendDirect(r, ms)
  PROVE  /\ up' \in Seq(Messages) /\ Len(up') <= DirectCap
         /\ Len(up) <= Len(up') /\ Len(up') <= Len(up) + Len(ms)
         /\ \A i \in 1..Len(up) : up'[i] = up[i]
         /\ \A i \in (Len(up) + 1)..Len(up') :
              /\ i - Len(up) \in 1..Len(ms) /\ up'[i].id = r
              /\ up'[i] = [id |-> r, kind |-> ms[i - Len(up)].kind, data |-> ms[i - Len(up)].data]
         /\ missed' \in [Requests -> BOOLEAN]
         /\ \A s \in Requests : (s # r => missed'[s] = missed[s]) /\ (missed[s] => missed'[s])
         /\ ~missed'[r] => Len(up') = Len(up) + Len(ms)
         /\ faults' \in Nat /\ (faults' = 0 => faults = 0)
<1> DEFINE tagged == [i \in DOMAIN ms |-> [id |-> r, kind |-> ms[i].kind, data |-> ms[i].data]]
           all == up \o tagged
           n   == IF Len(all) <= DirectCap THEN Len(all) ELSE DirectCap
<1>1. Len(ms) \in Nat /\ DOMAIN ms = 1..Len(ms) /\ \A i \in 1..Len(ms) : ms[i] \in Events
  BY SeqFacts
<1>2. tagged \in Seq(Messages) /\ Len(tagged) = Len(ms)
      /\ \A i \in 1..Len(ms) : tagged[i] = [id |-> r, kind |-> ms[i].kind, data |-> ms[i].data]
  <2>1. \A i \in 1..Len(ms) : [id |-> r, kind |-> ms[i].kind, data |-> ms[i].data] \in Messages
    BY <1>1 DEF Events, Messages
  <2>2. tagged \in [1..Len(ms) -> Messages]
    BY <1>1, <2>1
  <2> QED BY <1>1, <2>2
<1>3. Len(up) \in Nat /\ DirectCap \in Nat
  BY RequestsAssumption, SeqFacts
<1>4. /\ all \in Seq(Messages) /\ Len(all) = Len(up) + Len(ms)
      /\ \A i \in 1..(Len(up) + Len(ms)) : all[i] = IF i <= Len(up) THEN up[i] ELSE tagged[i - Len(up)]
  <2> HIDE DEF tagged
  <2>1. /\ up \o tagged \in Seq(Messages) /\ Len(up \o tagged) = Len(up) + Len(tagged)
        /\ \A i \in 1..(Len(up) + Len(tagged)) :
             (up \o tagged)[i] = IF i <= Len(up) THEN up[i] ELSE tagged[i - Len(up)]
    <3>1. up \in Seq(Messages) /\ tagged \in Seq(Messages)
      BY <1>2
    <3> QED BY ONLY <3>1, ConcatProperties
  <2> QED BY <1>2, <2>1
<1>5. /\ up' = SubSeq(all, 1, n)
      /\ missed' = [missed EXCEPT ![r] = @ \/ n < Len(all)]
      /\ IF n < Len(all) THEN Fault ELSE UNCHANGED faults
  BY DEF SendDirect
<1> HIDE DEF all
<1>6. n \in Nat /\ n <= DirectCap /\ n <= Len(up) + Len(ms) /\ Len(up) <= n
  BY <1>1, <1>3, <1>4
<1>6a. \A i \in 1..n : all[i] \in Messages
  BY <1>4, <1>6, SeqFacts
<1> HIDE DEF n
<1>7. up' \in Seq(Messages) /\ Len(up') = n /\ \A i \in 1..n : up'[i] = all[i]
  <2>1. /\ SubSeq(all, 1, n) \in Seq(Messages)
        /\ Len(SubSeq(all, 1, n)) = IF 1 <= n THEN n - 1 + 1 ELSE 0
        /\ \A i \in 1..(n - 1 + 1) : SubSeq(all, 1, n)[i] = all[1 + i - 1]
    BY <1>6, <1>6a, SubSeqProperties
  <2>2. n - 1 + 1 = n /\ \A i \in 1..n : 1 + i - 1 = i
    BY <1>6
  <2> QED BY <1>5, <1>6, <2>1, <2>2
<1>8. ASSUME NEW i \in 1..Len(up)
      PROVE  up'[i] = up[i]
  <2>1. i \in 1..n /\ i \in 1..(Len(up) + Len(ms)) /\ i <= Len(up)
    BY <1>8, <1>6, <1>3, <1>1
  <2> QED BY <2>1, <1>7, <1>4
<1>9. ASSUME NEW i \in (Len(up) + 1)..Len(up')
      PROVE  /\ i - Len(up) \in 1..Len(ms)
             /\ up'[i] = [id |-> r, kind |-> ms[i - Len(up)].kind, data |-> ms[i - Len(up)].data]
  <2>1. i \in 1..n /\ i \in 1..(Len(up) + Len(ms)) /\ ~(i <= Len(up)) /\ i - Len(up) \in 1..Len(ms)
    BY <1>9, <1>7, <1>6, <1>3, <1>1
  <2>2. up'[i] = tagged[i - Len(up)]
    BY <2>1, <1>7, <1>4
  <2> QED BY <2>1, <2>2, <1>2
<1>10. /\ missed' \in [Requests -> BOOLEAN]
       /\ \A s \in Requests : (s # r => missed'[s] = missed[s]) /\ (missed[s] => missed'[s])
  BY <1>5
<1>11. ~missed'[r] => Len(up') = Len(up) + Len(ms)
  <2> SUFFICES ASSUME ~missed'[r]
               PROVE  Len(up') = Len(up) + Len(ms)
    OBVIOUS
  <2>1. ~(n < Len(all))
    BY <1>5
  <2>2. Len(up) + Len(ms) \in Nat
    BY <1>1, <1>3
  <2>3. /\ Len(all) = Len(up) + Len(ms) /\ n \in Nat /\ n <= Len(up) + Len(ms) /\ Len(up') = n
    BY <1>4, <1>6, <1>7
  <2> QED BY ONLY <2>1, <2>2, <2>3
<1>12. faults' \in Nat /\ (faults' = 0 => faults = 0)
  BY <1>5 DEF Fault
<1>13. ASSUME NEW i \in (Len(up) + 1)..Len(up')
       PROVE  up'[i].id = r
  <2>1. up'[i] = [id |-> r, kind |-> ms[i - Len(up)].kind, data |-> ms[i - Len(up)].data]
    BY <1>9
  <2> QED BY <2>1
<1> QED BY <1>6, <1>7, <1>8, <1>9, <1>10, <1>11, <1>12, <1>13
-----------------------------------------------------------------------------
(***************************************************************************)
(* Plans.                                                                  *)
(***************************************************************************)
LEMMA MustParts ==
  ASSUME NEW K, NEW N, NEW V, NEW c \in [k : K, must : BOOLEAN, name : N, val : V]
  PROVE  /\ Must(c) \in [k : K, must : BOOLEAN, name : N, val : V]
         /\ Must(c).k = c.k /\ Must(c).must /\ Must(c).name = c.name /\ Must(c).val = c.val
  BY DEF Must

LEMMA CmdParts ==
  ASSUME NEW k, NEW name, NEW val
  PROVE  /\ Cmd(k) \in [k : {k}, must : BOOLEAN, name : {None}, val : {None}]
         /\ Must(Cmd(k)) \in [k : {k}, must : BOOLEAN, name : {None}, val : {None}]
         /\ On(k, name, val) \in [k : {k}, must : BOOLEAN, name : {name}, val : {val}]
         /\ Must(On(k, name, val)) \in [k : {k}, must : BOOLEAN, name : {name}, val : {val}]
         /\ Must(Cmd(k)).must /\ Must(On(k, name, val)).must
<1>1. Cmd(k) \in [k : {k}, must : BOOLEAN, name : {None}, val : {None}]
  BY DEF Cmd
<1>2. On(k, name, val) \in [k : {k}, must : BOOLEAN, name : {name}, val : {val}]
  BY <1>1 DEF On
<1>3. Must(Cmd(k)) \in [k : {k}, must : BOOLEAN, name : {None}, val : {None}] /\ Must(Cmd(k)).must
  BY <1>1, MustParts
<1>4. Must(On(k, name, val)) \in [k : {k}, must : BOOLEAN, name : {name}, val : {val}]
      /\ Must(On(k, name, val)).must
  <2>1. ASSUME NEW c \in [k : {k}, must : BOOLEAN, name : {name}, val : {val}]
        PROVE  Must(c) \in [k : {k}, must : BOOLEAN, name : {name}, val : {val}] /\ Must(c).must
    BY DEF Must
  <2> HIDE DEF Must, On
  <2> QED BY <1>2, <2>1
<1> QED BY <1>1, <1>2, <1>3, <1>4

LEMMA CmdMembers ==
  ASSUME NEW k \in CmdKinds, NEW name \in CmdNames, NEW val \in CmdVals,
         k = "add" => val \in Profiles /\ (name \in Seconds => val.on # "any"),
         k = "bind" => val = "virt",
         k = "np-set" => name \in {"dhcp", "addr", "gw"}
  PROVE  On(k, name, val) \in Cmds /\ Must(On(k, name, val)) \in Cmds
<1>1. ASSUME NEW c \in [k : {k}, must : BOOLEAN, name : {name}, val : {val}]
      PROVE  c \in Cmds
  <2>1. c.k = k /\ c.name = name /\ c.val = val
    OBVIOUS
  <2>2. c \in [k : CmdKinds, must : BOOLEAN, name : CmdNames, val : CmdVals]
    OBVIOUS
  <2>3. Harmless(c)
    BY <2>1 DEF Harmless
  <2> QED BY <2>2, <2>3 DEF Cmds
<1> QED BY <1>1, CmdParts

LEMMA PlainMembers ==
  ASSUME NEW k \in CmdKinds \ {"add", "bind", "np-set"}
  PROVE  Cmd(k) \in Cmds /\ Must(Cmd(k)) \in Cmds
<1>1. None \in CmdNames /\ None \in CmdVals
  BY DEF CmdNames, CmdVals
<1>2. ASSUME NEW c \in [k : {k}, must : BOOLEAN, name : {None}, val : {None}]
      PROVE  c \in Cmds
  <2>1. c \in [k : CmdKinds, must : BOOLEAN, name : CmdNames, val : CmdVals]
    BY <1>1
  <2>2. Harmless(c)
    BY DEF Harmless
  <2> QED BY <2>1, <2>2 DEF Cmds
<1> QED BY <1>2, CmdParts

LEMMA Short ==
  ASSUME NEW S
  PROVE  /\ << >> \in Seq(S)
         /\ \A x \in S : << x >> \in Seq(S)
         /\ \A x, y \in S : << x, y >> \in Seq(S)
         /\ \A x, y, z \in S : << x, y, z >> \in Seq(S)
         /\ \A s, t \in Seq(S) : s \o t \in Seq(S)
  BY ConcatProperties

LEMMA ShortCat ==
  ASSUME NEW x, NEW y, NEW z, NEW w
  PROVE  /\ << x, y, z >> \o << w >> = << x, y, z, w >>
         /\ (<< x, y >> \o << >>) \o << w >> = << x, y, w >>
         /\ (<< x, y >> \o << z >>) \o << w >> = << x, y, z, w >>
<1>1. ASSUME NEW S, NEW s \in Seq(S), NEW t \in Seq(S), NEW u \in Seq(S), Len(u) = Len(s) + Len(t),
             \A i \in 1..Len(s) : u[i] = s[i], \A i \in 1..Len(t) : u[Len(s) + i] = t[i]
      PROVE  s \o t = u
  <2>1. Len(s) \in Nat /\ Len(t) \in Nat
    BY <1>1, LenProperties
  <2>2. /\ s \o t \in Seq(S) /\ Len(s \o t) = Len(s) + Len(t)
        /\ \A i \in 1..(Len(s) + Len(t)) : (s \o t)[i] = IF i <= Len(s) THEN s[i] ELSE t[i - Len(s)]
    BY <1>1, ConcatProperties
  <2>3. ASSUME NEW i \in 1..Len(u)
        PROVE  u[i] = (s \o t)[i]
    <3>1. CASE i <= Len(s)
      <4>1. i \in 1..Len(s) /\ i \in 1..(Len(s) + Len(t))
        BY <2>1, <2>3, <3>1, <1>1
      <4> QED BY <4>1, <2>2, <1>1, <3>1
    <3>2. CASE ~(i <= Len(s))
      <4>1. i - Len(s) \in 1..Len(t) /\ Len(s) + (i - Len(s)) = i /\ i \in 1..(Len(s) + Len(t))
        BY <2>1, <2>3, <3>2, <1>1
      <4>2. u[Len(s) + (i - Len(s))] = t[i - Len(s)]
        BY <4>1, <1>1
      <4> QED BY <4>1, <4>2, <2>2, <3>2
    <3> QED BY <3>1, <3>2
  <2> QED BY <1>1, <2>2, <2>3, SeqEqual
<1> DEFINE S == {x, y, z, w}
<1>2. /\ << x, y >> \in Seq(S) /\ Len(<< x, y >>) = 2 /\ << x, y >>[1] = x /\ << x, y >>[2] = y
      /\ << z >> \in Seq(S) /\ Len(<< z >>) = 1 /\ << z >>[1] = z
      /\ << w >> \in Seq(S) /\ Len(<< w >>) = 1 /\ << w >>[1] = w
      /\ << x, y, z >> \in Seq(S) /\ Len(<< x, y, z >>) = 3
      /\ << x, y, z >>[1] = x /\ << x, y, z >>[2] = y /\ << x, y, z >>[3] = z
      /\ << x, y, w >> \in Seq(S) /\ Len(<< x, y, w >>) = 3
      /\ << x, y, w >>[1] = x /\ << x, y, w >>[2] = y /\ << x, y, w >>[3] = w
      /\ << x, y, z, w >> \in Seq(S) /\ Len(<< x, y, z, w >>) = 4
      /\ << x, y, z, w >>[1] = x /\ << x, y, z, w >>[2] = y
      /\ << x, y, z, w >>[3] = z /\ << x, y, z, w >>[4] = w
  OBVIOUS
<1> HIDE DEF S
<1> DEFINE xy == << x, y >>
           xyz == << x, y, z >>
           xyw == << x, y, w >>
           xyzw == << x, y, z, w >>
           zz == << z >>
           ww == << w >>
<1>3. xy \o << >> = xy
  <2>1. xy \in Seq(S)
    BY <1>2
  <2> HIDE DEF xy
  <2> QED BY <2>1, ConcatEmptySeq
<1>4. /\ xy \in Seq(S) /\ Len(xy) = 2 /\ xy[1] = x /\ xy[2] = y
      /\ zz \in Seq(S) /\ Len(zz) = 1 /\ zz[1] = z
      /\ ww \in Seq(S) /\ Len(ww) = 1 /\ ww[1] = w
      /\ xyz \in Seq(S) /\ Len(xyz) = 3 /\ xyz[1] = x /\ xyz[2] = y /\ xyz[3] = z
      /\ xyw \in Seq(S) /\ Len(xyw) = 3 /\ xyw[1] = x /\ xyw[2] = y /\ xyw[3] = w
      /\ xyzw \in Seq(S) /\ Len(xyzw) = 4 /\ xyzw[1] = x /\ xyzw[2] = y /\ xyzw[3] = z /\ xyzw[4] = w
  BY <1>2
<1> HIDE DEF xy, zz, ww, xyz, xyw, xyzw
<1>5. xy \o zz = xyz
  <2>1. /\ \A i \in 1..Len(xy) : xyz[i] = xy[i]
        /\ \A i \in 1..Len(zz) : xyz[Len(xy) + i] = zz[i]
        /\ Len(xyz) = Len(xy) + Len(zz)
    BY <1>4
  <2> QED BY <1>4, <1>1, <2>1
<1>6. xy \o ww = xyw
  <2>1. /\ \A i \in 1..Len(xy) : xyw[i] = xy[i]
        /\ \A i \in 1..Len(ww) : xyw[Len(xy) + i] = ww[i]
        /\ Len(xyw) = Len(xy) + Len(ww)
    BY <1>4
  <2> QED BY <1>4, <1>1, <2>1
<1>7. xyz \o ww = xyzw
  <2>1. /\ \A i \in 1..Len(xyz) : xyzw[i] = xyz[i]
        /\ \A i \in 1..Len(ww) : xyzw[Len(xyz) + i] = ww[i]
        /\ Len(xyzw) = Len(xyz) + Len(ww)
    BY <1>4
  <2> QED BY <1>4, <1>1, <2>1
<1> QED BY <1>3, <1>5, <1>6, <1>7 DEF xy, zz, ww, xyz, xyw, xyzw

LEMMA PlanOf ==
  ASSUME NEW a \in NetArgs, backend \in {"nm", "netplan"}
  PROVE  /\ a.op = "wired" /\ backend = "nm" => NetPlan(a) = NmWiredSet(a)
         /\ a.op = "wired" /\ backend = "netplan" => NetPlan(a) = NetplanWiredSet(a)
         /\ a.op = "save" => NetPlan(a) = NmWifiSave(a)
         /\ a.op = "psk" => NetPlan(a) = NmWifiUpdatePSK(a)
         /\ a.op = "connect" => NetPlan(a) = NmWifiConnect(a)
         /\ a.op = "alongside" => NetPlan(a) = ConnectAlongside(a)
         /\ a.op = "disconnect" => NetPlan(a) = NmWifiDisconnect(a)
         /\ a.op = "forget" => NetPlan(a) = NmWifiForget(a)
         /\ a.op = "cell-connect" => NetPlan(a) = CellConnect(a)
         /\ a.op = "cell-apn" => NetPlan(a) = CellSetAPN(a)
         /\ a.op = "cell-disconnect" => NetPlan(a) = << Must(On("down", Cellular, None)) >>
         /\ a.op = "bt-connect" => NetPlan(a) = << Must(On("bt", None, {"paired", "connected"})) >>
         /\ a.op = "bt-disconnect" => NetPlan(a) = << Must(On("bt", None, {"paired"})) >>
         /\ a.op = "bt-forget" => NetPlan(a) = BtForget
         /\ a.op = "pan-connect" => NetPlan(a) = BtPANConnect
         /\ a.op = "pan-disconnect" => NetPlan(a) = << Must(On("down", Pan, None)) >>
         /\ a.op = "status" => NetPlan(a) = << Must(Cmd("look")) >>
  BY DEF NetPlan
\* The plans of all but wired changes leave the wire alone.
LEMMA OtherPlans ==
  ASSUME NEW a \in NetArgs, a.op # "wired", backend \in {"nm", "netplan"}
  PROVE  NetPlan(a) \in Seq({c \in Cmds : c.k \notin WireKinds})
<1> DEFINE S == {c \in Cmds : c.k \notin WireKinds}
<1>1. a.op \in NetOps \cup RadioOps
  BY RequestsAssumption DEF NetOps
<1>2. /\ None \in CmdNames /\ Cellular \in CmdNames /\ Pan \in CmdNames /\ a.name \in CmdNames
      /\ Beside(a.name) \in CmdNames
      /\ None \in CmdVals /\ a.psk \in CmdVals /\ "virt" \in CmdVals
      /\ {"paired"} \in CmdVals /\ {"paired", "connected"} \in CmdVals /\ {} \in CmdVals
      /\ Profiles \subseteq CmdVals
  BY DEF CmdNames, CmdVals
<1>3. \A on \in {"any", "virt", "modem", "bt"} :
        /\ [psk |-> a.psk, on |-> on] \in Profiles /\ [psk |-> "right", on |-> on] \in Profiles
        /\ [psk |-> a.psk, on |-> on].on = on /\ [psk |-> "right", on |-> on].on = on
  BY DEF Profiles
<1>4. ASSUME NEW k \in CmdKinds \ ({"add", "bind"} \cup WireKinds), NEW name \in CmdNames, NEW val \in CmdVals
      PROVE  On(k, name, val) \in S /\ Must(On(k, name, val)) \in S
  <2>1. On(k, name, val) \in Cmds /\ Must(On(k, name, val)) \in Cmds
    BY <1>4, CmdMembers DEF WireKinds
  <2>2. On(k, name, val).k = k /\ Must(On(k, name, val)).k = k
    BY CmdParts
  <2> QED BY <2>1, <2>2
<1>5. ASSUME NEW name \in CmdNames, NEW p \in Profiles, name \in Seconds => p.on # "any"
      PROVE  Must(On("add", name, p)) \in S
  <2>1. Must(On("add", name, p)) \in Cmds
    BY <1>5, <1>2, CmdMembers DEF CmdKinds
  <2>2. Must(On("add", name, p)).k = "add"
    BY CmdParts
  <2> QED BY <2>1, <2>2 DEF WireKinds
<1>6. ASSUME NEW k \in {"del-virt", "add-virt", "look"}
      PROVE  Cmd(k) \in S /\ Must(Cmd(k)) \in S
  <2>1. Cmd(k) \in Cmds /\ Must(Cmd(k)) \in Cmds
    BY PlainMembers DEF CmdKinds
  <2>2. Cmd(k).k = k /\ Must(Cmd(k)).k = k
    BY CmdParts
  <2> QED BY <2>1, <2>2 DEF WireKinds
<1>7. On("bind", Beside(a.name), "virt") \in S
  <2>1. On("bind", Beside(a.name), "virt") \in Cmds
    BY <1>2, CmdMembers DEF CmdKinds
  <2>2. On("bind", Beside(a.name), "virt").k = "bind"
    BY CmdParts
  <2> QED BY <2>1, <2>2 DEF WireKinds
<1>8. ASSUME a.op \in {"save", "connect"}
      PROVE  a.name \notin Seconds
  BY <1>8, RequestsAssumption DEF Seconds
<1>9. /\ << >> \in Seq(S)
      /\ \A x \in S : << x >> \in Seq(S)
      /\ \A x, y \in S : << x, y >> \in Seq(S)
      /\ \A s, t \in Seq(S) : s \o t \in Seq(S)
  BY Short
<1>10. \A k \in {"psk", "up", "down", "delete", "bt"} : k \in CmdKinds \ ({"add", "bind"} \cup WireKinds)
  BY DEF CmdKinds, WireKinds
<1> HIDE DEF S
<1>11. ASSUME a.op \in {"save", "connect"}
       PROVE  NmWifiSave(a) \in Seq(S)
  <2>1. Must(On("psk", a.name, a.psk)) \in S
    BY <1>4, <1>10, <1>2
  <2>2. Must(On("add", a.name, [psk |-> a.psk, on |-> "any"])) \in S
    BY <1>5, <1>2, <1>3, <1>8, <1>11
  <2> QED BY <1>9, <2>1, <2>2 DEF NmWifiSave
<1>12. CASE a.op = "save"
  BY <1>11, <1>12, PlanOf DEF S
<1>13. CASE a.op = "psk"
  <2>1. Must(On("psk", a.name, a.psk)) \in S
    BY <1>4, <1>10, <1>2
  <2> QED BY <2>1, <1>9, <1>13, PlanOf DEF S, NmWifiUpdatePSK
<1>14. CASE a.op = "connect"
  <2>1. Must(On("up", a.name, None)) \in S
    BY <1>4, <1>10, <1>2
  <2>2. << Must(On("up", a.name, None)) >> \in Seq(S)
    BY <2>1, <1>9
  <2>3. (IF Saved(a.name) THEN << >> ELSE NmWifiSave(a)) \in Seq(S)
    BY <1>11, <1>14, <1>9
  <2>4. NmWifiConnect(a) \in Seq(S)
    BY <2>2, <2>3, <1>9 DEF NmWifiConnect
  <2> QED BY <2>4, <1>14, PlanOf DEF S
<1>15. CASE a.op = "alongside"
  <2>1. Cmd("del-virt") \in S /\ Must(Cmd("add-virt")) \in S
    BY <1>6
  <2>2. Must(On("add", Beside(a.name), [psk |-> a.psk, on |-> "virt"])) \in S
    BY <1>5, <1>2, <1>3
  <2>3. Must(On("up", Beside(a.name), None)) \in S
    BY <1>4, <1>10, <1>2
  <2>4. << Cmd("del-virt"), Must(Cmd("add-virt")) >> \in Seq(S)
        /\ << Must(On("up", Beside(a.name), None)) >> \in Seq(S)
        /\ << On("bind", Beside(a.name), "virt") >> \in Seq(S)
        /\ << Must(On("add", Beside(a.name), [psk |-> a.psk, on |-> "virt"])) >> \in Seq(S)
    BY <2>1, <2>2, <2>3, <1>7, <1>9
  <2>5. ConnectAlongside(a) \in Seq(S)
    BY <2>4, <1>9 DEF ConnectAlongside
  <2> QED BY <2>5, <1>15, PlanOf DEF S
<1>16. CASE a.op = "disconnect"
  <2>1. Must(On("down", a.name, None)) \in S
    BY <1>4, <1>10, <1>2
  <2> QED BY <2>1, <1>9, <1>16, PlanOf DEF S, NmWifiDisconnect
<1>17. CASE a.op = "forget"
  <2>1. Must(On("delete", a.name, None)) \in S
    BY <1>4, <1>10, <1>2
  <2> QED BY <2>1, <1>9, <1>17, PlanOf DEF S, NmWifiForget
<1>18. /\ Must(On("add", Cellular, [psk |-> a.psk, on |-> "modem"])) \in S
       /\ Must(On("psk", Cellular, a.psk)) \in S /\ On("psk", Cellular, a.psk) \in S
       /\ Must(On("up", Cellular, None)) \in S /\ Must(On("down", Cellular, None)) \in S
  <2>1. Must(On("add", Cellular, [psk |-> a.psk, on |-> "modem"])) \in S
    BY <1>5, <1>2, <1>3
  <2> QED BY <2>1, <1>4, <1>10, <1>2
<1>19. CASE a.op = "cell-connect"
  <2>1. << Must(On("up", Cellular, None)) >> \in Seq(S)
        /\ << Must(On("add", Cellular, [psk |-> a.psk, on |-> "modem"])) >> \in Seq(S)
        /\ << On("psk", Cellular, a.psk) >> \in Seq(S) /\ << >> \in Seq(S)
    BY <1>18, <1>9
  <2>2. CellConnect(a) \in Seq(S)
    BY <2>1, <1>9 DEF CellConnect
  <2> QED BY <2>2, <1>19, PlanOf DEF S
<1>20. CASE a.op = "cell-apn"
  <2>1. CellSetAPN(a) \in Seq(S)
    <3>1. /\ << Must(On("psk", Cellular, a.psk)) >> \in Seq(S)
          /\ << Must(On("add", Cellular, [psk |-> a.psk, on |-> "modem"])) >> \in Seq(S)
      BY <1>18, <1>9
    <3>2. CASE Saved(Cellular)
      BY <3>1, <3>2 DEF CellSetAPN
    <3>3. CASE ~Saved(Cellular)
      BY <3>1, <3>3 DEF CellSetAPN
    <3> QED BY <3>2, <3>3
  <2> QED BY <2>1, <1>20, PlanOf DEF S
<1>21. CASE a.op \in {"cell-disconnect", "pan-disconnect", "bt-connect", "bt-disconnect", "status"}
  <2>1. /\ Must(On("down", Cellular, None)) \in S /\ Must(On("down", Pan, None)) \in S
        /\ Must(On("bt", None, {"paired", "connected"})) \in S /\ Must(On("bt", None, {"paired"})) \in S
        /\ Must(Cmd("look")) \in S
    BY <1>4, <1>6, <1>10, <1>2
  <2>2. /\ << Must(On("down", Cellular, None)) >> \in Seq(S) /\ << Must(On("down", Pan, None)) >> \in Seq(S)
        /\ << Must(On("bt", None, {"paired", "connected"})) >> \in Seq(S)
        /\ << Must(On("bt", None, {"paired"})) >> \in Seq(S) /\ << Must(Cmd("look")) >> \in Seq(S)
    BY <2>1, <1>9
  <2>3. NetPlan(a) \in Seq(S)
    BY <2>2, <1>21, PlanOf
  <2> QED BY <2>3 DEF S
<1>22. CASE a.op = "bt-forget"
  <2>1. On("bt", None, {"paired"}) \in S /\ Must(On("bt", None, {})) \in S
    BY <1>4, <1>10, <1>2
  <2>2. BtForget \in Seq(S)
    BY <2>1, <1>9 DEF BtForget
  <2> QED BY <2>2, <1>22, PlanOf DEF S
<1>23. CASE a.op = "pan-connect"
  <2>1. Must(On("add", Pan, [psk |-> "right", on |-> "bt"])) \in S
    BY <1>5, <1>2, <1>3
  <2>2. Must(On("up", Pan, None)) \in S
    BY <1>4, <1>10, <1>2
  <2>3. << Must(On("add", Pan, [psk |-> "right", on |-> "bt"])) >> \in Seq(S)
        /\ << Must(On("up", Pan, None)) >> \in Seq(S) /\ << >> \in Seq(S)
    BY <2>1, <2>2, <1>9
  <2>4. BtPANConnect \in Seq(S)
    BY <2>3, <1>9 DEF BtPANConnect
  <2> QED BY <2>4, <1>23, PlanOf DEF S
<1> QED
  BY <1>1, <1>12, <1>13, <1>14, <1>15, <1>16, <1>17, <1>19, <1>20, <1>21, <1>22, <1>23 DEF NetOps, RadioOps
\* What an alongside request runs.
LEMMA AlongsidePlan ==
  ASSUME NEW a \in NetArgs, a.op = "alongside", backend \in {"nm", "netplan"}
  PROVE  NetPlan(a) \in Seq(AlongsideCmds(a))
<1> DEFINE S == AlongsideCmds(a)
<1>1. /\ None \in CmdNames /\ Beside(a.name) \in CmdNames /\ None \in CmdVals /\ "virt" \in CmdVals
      /\ [psk |-> a.psk, on |-> "virt"] \in Profiles /\ [psk |-> a.psk, on |-> "virt"].on = "virt"
      /\ Profiles \subseteq CmdVals
  BY DEF CmdNames, CmdVals, Profiles
<1>2. Cmd("del-virt") \in S /\ Must(Cmd("add-virt")) \in S
  <2>1. Cmd("del-virt") \in Cmds /\ Must(Cmd("add-virt")) \in Cmds
    BY PlainMembers DEF CmdKinds
  <2>2. Cmd("del-virt").k = "del-virt" /\ Must(Cmd("add-virt")).k = "add-virt"
    BY CmdParts
  <2> QED BY <2>1, <2>2 DEF AlongsideCmds
<1>3. On("bind", Beside(a.name), "virt") \in S
  <2>1. On("bind", Beside(a.name), "virt") \in Cmds
    BY <1>1, CmdMembers DEF CmdKinds
  <2>2. On("bind", Beside(a.name), "virt").k = "bind"
    BY CmdParts
  <2> QED BY <2>1, <2>2 DEF AlongsideCmds
<1>4. Must(On("add", Beside(a.name), [psk |-> a.psk, on |-> "virt"])) \in S
  <2>1. Must(On("add", Beside(a.name), [psk |-> a.psk, on |-> "virt"])) \in Cmds
    BY <1>1, CmdMembers DEF CmdKinds
  <2>2. Must(On("add", Beside(a.name), [psk |-> a.psk, on |-> "virt"])).k = "add"
    BY CmdParts
  <2> QED BY <2>1, <2>2 DEF AlongsideCmds
<1>5. Must(On("up", Beside(a.name), None)) \in S
  <2>1. Must(On("up", Beside(a.name), None)) \in Cmds
    BY <1>1, CmdMembers DEF CmdKinds
  <2>2. Must(On("up", Beside(a.name), None)).k = "up" /\ Must(On("up", Beside(a.name), None)).name = Beside(a.name)
    BY CmdParts
  <2> QED BY <2>1, <2>2 DEF AlongsideCmds
<1> HIDE DEF S
<1>6. /\ << Cmd("del-virt"), Must(Cmd("add-virt")) >> \in Seq(S)
      /\ << Must(On("up", Beside(a.name), None)) >> \in Seq(S)
      /\ << On("bind", Beside(a.name), "virt") >> \in Seq(S)
      /\ << Must(On("add", Beside(a.name), [psk |-> a.psk, on |-> "virt"])) >> \in Seq(S)
  BY <1>2, <1>3, <1>4, <1>5, Short
<1>7. \A s, t \in Seq(S) : s \o t \in Seq(S)
  BY Short
<1>8. ConnectAlongside(a) \in Seq(S)
  BY <1>6, <1>7 DEF ConnectAlongside
<1> QED BY <1>8, PlanOf DEF S

\* What a wired change runs.
LEMMA WiredParts ==
  ASSUME NEW a \in NetArgs, a.op = "wired"
  PROVE  LET up1 == Must(Cmd("wired-up"))
             mod == Must(On("nm-modify", None, a))
             dh  == Must(On("np-set", "dhcp", a.dhcp))
             ad  == Must(On("np-set", "addr", a.addr))
             gw  == On("np-set", "gw", a.gw)
             ad0 == On("np-set", "addr", None)
             gw0 == On("np-set", "gw", None)
         IN  /\ \A c \in {up1, mod, dh, gw, gw0} : c \in Cmds /\ WireCmd(a, c)
             /\ ~a.dhcp => ad \in Cmds /\ WireCmd(a, ad)
             /\ a.dhcp => ad0 \in Cmds /\ WireCmd(a, ad0)
             /\ up1.k = "wired-up" /\ mod.k = "nm-modify" /\ dh.k = "np-set" /\ ad.k = "np-set"
             /\ gw.k = "np-set" /\ ad0.k = "np-set" /\ gw0.k = "np-set"
             /\ dh.name = "dhcp" /\ ad.name = "addr"
<1> DEFINE up1 == Must(Cmd("wired-up"))
           mod == Must(On("nm-modify", None, a))
           dh  == Must(On("np-set", "dhcp", a.dhcp))
           ad  == Must(On("np-set", "addr", a.addr))
           gw  == On("np-set", "gw", a.gw)
           ad0 == On("np-set", "addr", None)
           gw0 == On("np-set", "gw", None)
<1>1. /\ None \in CmdNames /\ "dhcp" \in CmdNames /\ "addr" \in CmdNames /\ "gw" \in CmdNames
      /\ None \in CmdVals /\ a \in CmdVals /\ a.addr \in CmdVals /\ a.gw \in CmdVals
      /\ a.dhcp \in BOOLEAN /\ TRUE \in CmdVals /\ FALSE \in CmdVals
  BY RequestsAssumption DEF CmdNames, CmdVals
<1>1a. a.dhcp \in CmdVals
  <2>1. a.dhcp = TRUE \/ a.dhcp = FALSE
    BY <1>1
  <2> QED BY <1>1, <2>1
<1>2. /\ up1.k = "wired-up" /\ up1.must
  BY CmdParts
<1>3. mod.k = "nm-modify" /\ mod.must /\ mod.val = a
  BY CmdParts
<1>4. dh.k = "np-set" /\ dh.must /\ dh.val = a.dhcp /\ dh.name = "dhcp"
  BY CmdParts
<1>5. ad.k = "np-set" /\ ad.must /\ ad.val = a.addr /\ ad.name = "addr"
  BY CmdParts
<1>6. gw.k = "np-set" /\ gw.name = "gw" /\ ad0.k = "np-set" /\ ad0.name = "addr" /\ gw0.k = "np-set" /\ gw0.name = "gw"
  BY CmdParts
<1>7. up1 \in Cmds
  BY PlainMembers DEF CmdKinds
<1>8. mod \in Cmds
  BY <1>1, CmdMembers DEF CmdKinds
<1>9. dh \in Cmds
  BY <1>1, <1>1a, CmdMembers DEF CmdKinds
<1>10. ad \in Cmds /\ gw \in Cmds /\ ad0 \in Cmds /\ gw0 \in Cmds
  BY <1>1, CmdMembers DEF CmdKinds
<1> HIDE DEF up1, mod, dh, ad, gw, ad0, gw0
<1>11. WireCmd(a, up1) /\ WireCmd(a, mod) /\ WireCmd(a, dh) /\ WireCmd(a, gw) /\ WireCmd(a, gw0)
  BY <1>2, <1>3, <1>4, <1>6 DEF WireCmd, WireKinds
<1>12. WireCmd(a, ad)
  BY <1>5 DEF WireCmd, WireKinds
<1>13. a.dhcp => WireCmd(a, ad0)
  BY <1>6 DEF WireCmd, WireKinds
<1>14. \A c \in {up1, mod, dh, gw, gw0} : c \in Cmds /\ WireCmd(a, c)
  BY <1>7, <1>8, <1>9, <1>10, <1>11
<1> QED
  BY <1>2, <1>3, <1>4, <1>5, <1>6, <1>10, <1>12, <1>13, <1>14 DEF up1, mod, dh, ad, gw, ad0, gw0

LEMMA WiredPlan ==
  ASSUME NEW a \in NetArgs, a.op = "wired", backend \in {"nm", "netplan"}, NEW p, NEW d
  PROVE  NetPlan(a) \in Seq(Cmds) /\ WireTodo(a, NetPlan(a), p, d)
<1> DEFINE up1 == Must(Cmd("wired-up"))
           mod == Must(On("nm-modify", None, a))
           dh  == Must(On("np-set", "dhcp", a.dhcp))
           ad  == Must(On("np-set", "addr", a.addr))
           gw  == On("np-set", "gw", a.gw)
           ad0 == On("np-set", "addr", None)
           gw0 == On("np-set", "gw", None)
<1>1. /\ \A c \in {up1, mod, dh, gw, gw0} : c \in Cmds /\ WireCmd(a, c)
      /\ ~a.dhcp => ad \in Cmds /\ WireCmd(a, ad)
      /\ a.dhcp => ad0 \in Cmds /\ WireCmd(a, ad0)
      /\ up1.k = "wired-up" /\ mod.k = "nm-modify" /\ dh.k = "np-set" /\ ad.k = "np-set"
      /\ gw.k = "np-set" /\ ad0.k = "np-set" /\ gw0.k = "np-set"
      /\ dh.name = "dhcp" /\ ad.name = "addr"
  BY WiredParts
<1>2. a.dhcp \in BOOLEAN
  BY RequestsAssumption
<1>3. backend = "nm" => NetPlan(a) = << mod, up1 >>
  BY PlanOf DEF NmWiredSet
<1>4. ASSUME backend = "netplan", a.dhcp
      PROVE  NetPlan(a) = << dh, ad0, gw0, up1 >>
  <2>1. a.dhcp = TRUE
    BY <1>4, <1>2
  <2>2. NetplanWiredSet(a) = << Must(On("np-set", "dhcp", TRUE)), ad0, gw0 >> \o << up1 >>
    BY <1>4 DEF NetplanWiredSet
  <2>3. dh = Must(On("np-set", "dhcp", TRUE))
    BY <2>1
  <2> HIDE DEF dh, ad0, gw0, up1
  <2>4. NetplanWiredSet(a) = << dh, ad0, gw0 >> \o << up1 >>
    BY <2>2, <2>3
  <2>5. << dh, ad0, gw0 >> \o << up1 >> = << dh, ad0, gw0, up1 >>
    BY ShortCat
  <2> QED BY <1>4, <2>4, <2>5, PlanOf
<1>5. ASSUME backend = "netplan", ~a.dhcp
      PROVE  NetPlan(a) = << dh, ad, up1 >> \/ NetPlan(a) = << dh, ad, gw, up1 >>
  <2>1. a.dhcp = FALSE
    BY <1>5, <1>2
  <2>2. NetplanWiredSet(a) = (<< Must(On("np-set", "dhcp", FALSE)), ad >> \o (IF a.gw = None THEN << >> ELSE << gw >>)) \o << up1 >>
    BY <1>5 DEF NetplanWiredSet
  <2>3. dh = Must(On("np-set", "dhcp", FALSE))
    BY <2>1
  <2> HIDE DEF dh, ad, gw, up1
  <2>4. \/ NetplanWiredSet(a) = (<< dh, ad >> \o << >>) \o << up1 >>
        \/ NetplanWiredSet(a) = (<< dh, ad >> \o << gw >>) \o << up1 >>
    BY <2>2, <2>3
  <2>5. (<< dh, ad >> \o << >>) \o << up1 >> = << dh, ad, up1 >>
    BY ShortCat
  <2>6. (<< dh, ad >> \o << gw >>) \o << up1 >> = << dh, ad, gw, up1 >>
    BY ShortCat
  <2> QED BY <1>5, <2>4, <2>5, <2>6, PlanOf
<1> HIDE DEF up1, mod, dh, ad, gw, ad0, gw0
<1>6. CASE backend = "nm"
  <2> DEFINE t == << mod, up1 >>
  <2>1. t \in Seq(Cmds) /\ DOMAIN t = 1..2 /\ Len(t) = 2 /\ t[1] = mod /\ t[2] = up1 /\ t # << >>
    BY <1>1
  <2> HIDE DEF t
  <2>2. WireTodo(a, t, p, d)
    <3>1. /\ \A i \in DOMAIN t : WireCmd(a, t[i])
          /\ \A i \in DOMAIN t : t[i].k = "wired-up" <=> i = Len(t)
      BY <1>1, <2>1
    <3>2. SetsDhcp(t[1]) /\ SetsAddr(t[1]) /\ 1 \in DOMAIN t
      BY <1>1, <2>1 DEF SetsDhcp, SetsAddr
    <3> QED BY <2>1, <3>1, <3>2 DEF WireTodo
  <2>3. NetPlan(a) = t
    BY <1>3, <1>6 DEF t
  <2> QED BY <2>1, <2>2, <2>3
<1>7. CASE backend = "netplan" /\ a.dhcp
  <2> DEFINE t == << dh, ad0, gw0, up1 >>
  <2>1. t \in Seq(Cmds) /\ DOMAIN t = 1..4 /\ Len(t) = 4 /\ t[1] = dh /\ t[2] = ad0 /\ t[3] = gw0 /\ t[4] = up1 /\ t # << >>
    BY <1>1, <1>7
  <2> HIDE DEF t
  <2>2. WireTodo(a, t, p, d)
    <3>1. /\ \A i \in DOMAIN t : WireCmd(a, t[i])
          /\ \A i \in DOMAIN t : t[i].k = "wired-up" <=> i = Len(t)
      BY <1>1, <1>7, <2>1
    <3>2. SetsDhcp(t[1]) /\ 1 \in DOMAIN t
      BY <1>1, <2>1 DEF SetsDhcp
    <3> QED BY <1>7, <2>1, <3>1, <3>2 DEF WireTodo
  <2>3. NetPlan(a) = t
    BY <1>4, <1>7 DEF t
  <2> QED BY <2>1, <2>2, <2>3
<1>8. CASE backend = "netplan" /\ ~a.dhcp
  <2>1. CASE NetPlan(a) = << dh, ad, up1 >>
    <3> DEFINE t == << dh, ad, up1 >>
    <3>1. t \in Seq(Cmds) /\ DOMAIN t = 1..3 /\ Len(t) = 3 /\ t[1] = dh /\ t[2] = ad /\ t[3] = up1 /\ t # << >>
      BY <1>1, <1>8
    <3>2. NetPlan(a) = t
      BY <2>1
    <3> HIDE DEF t
    <3>3. WireTodo(a, t, p, d)
      <4>1. /\ \A i \in DOMAIN t : WireCmd(a, t[i])
            /\ \A i \in DOMAIN t : t[i].k = "wired-up" <=> i = Len(t)
        BY <1>1, <1>8, <3>1
      <4>2. SetsDhcp(t[1]) /\ 1 \in DOMAIN t /\ SetsAddr(t[2]) /\ 2 \in DOMAIN t
        BY <1>1, <3>1 DEF SetsDhcp, SetsAddr
      <4> QED BY <3>1, <4>1, <4>2 DEF WireTodo
    <3> QED BY <3>1, <3>2, <3>3
  <2>2. CASE NetPlan(a) = << dh, ad, gw, up1 >>
    <3> DEFINE t == << dh, ad, gw, up1 >>
    <3>1. t \in Seq(Cmds) /\ DOMAIN t = 1..4 /\ Len(t) = 4 /\ t[1] = dh /\ t[2] = ad /\ t[3] = gw /\ t[4] = up1 /\ t # << >>
      BY <1>1, <1>8
    <3>2. NetPlan(a) = t
      BY <2>2
    <3> HIDE DEF t
    <3>3. WireTodo(a, t, p, d)
      <4>1. /\ \A i \in DOMAIN t : WireCmd(a, t[i])
            /\ \A i \in DOMAIN t : t[i].k = "wired-up" <=> i = Len(t)
        BY <1>1, <1>8, <3>1
      <4>2. SetsDhcp(t[1]) /\ 1 \in DOMAIN t /\ SetsAddr(t[2]) /\ 2 \in DOMAIN t
        BY <1>1, <3>1 DEF SetsDhcp, SetsAddr
      <4> QED BY <3>1, <4>1, <4>2 DEF WireTodo
    <3> QED BY <3>1, <3>2, <3>3
  <2> QED BY <1>5, <1>8, <2>1, <2>2
<1> QED BY <1>6, <1>7, <1>8

-----------------------------------------------------------------------------
LEMMA AskKinds ==
  ASSUME NEW c \in Asks
  PROVE  \/ c.op = "none" \/ c.op \in OfScript \/ c.op = "pair"
         \/ c.op = "pin" /\ c.for \in Requests
         \/ c \in NetArgs /\ c.op \in NetOps \cup RadioOps
<1>1. CASE c = NoCmd
  BY <1>1 DEF NoCmd
<1>2. CASE c \in {[op |-> o] : o \in {"detect", "install", "users", "uninstall", "pair"}}
  BY <1>2 DEF OfScript
<1>3. CASE c \in NetArgs
  BY <1>3, RequestsAssumption DEF NetOps
<1>4. CASE c \in [op : {"pin"}, for : Requests]
  BY <1>4
<1> QED BY <1>1, <1>2, <1>3, <1>4 DEF Asks

LEMMA Contented ==
  /\ \A status \in Statuses :
       /\ Result(status) \in Seq(Events) /\ Len(Result(status)) = 1
       /\ Result(status)[1].kind = "result" /\ Result(status)[1].data = status
  /\ \A n \in Nat :
       /\ LogLine(n) \in Events /\ Challenge(n) \in Events
       /\ LogLine(n).kind = "log" /\ Challenge(n).kind = "pin_required" /\ Challenge(n).data = n
       /\ << LogLine(n) >> \in Seq(Events) /\ Len(<< LogLine(n) >>) = 1
       /\ << LogLine(n), Challenge(n) >> \in Seq(Events) /\ Len(<< LogLine(n), Challenge(n) >>) = 2
<1>1. ASSUME NEW status \in Statuses
      PROVE  /\ Result(status) \in Seq(Events) /\ Len(Result(status)) = 1
             /\ Result(status)[1].kind = "result" /\ Result(status)[1].data = status
  <2>1. [kind |-> "result", data |-> status] \in Events
    BY DEF Events, Contents
  <2> QED BY <2>1 DEF Result
<1>2. ASSUME NEW n \in Nat
      PROVE  /\ LogLine(n) \in Events /\ Challenge(n) \in Events
             /\ LogLine(n).kind = "log" /\ Challenge(n).kind = "pin_required" /\ Challenge(n).data = n
             /\ << LogLine(n) >> \in Seq(Events) /\ Len(<< LogLine(n) >>) = 1
             /\ << LogLine(n), Challenge(n) >> \in Seq(Events) /\ Len(<< LogLine(n), Challenge(n) >>) = 2
  <2>1. LogLine(n) \in Events /\ LogLine(n).kind = "log"
    BY DEF LogLine, Events, Contents
  <2>2. Challenge(n) \in Events /\ Challenge(n).kind = "pin_required" /\ Challenge(n).data = n
    BY DEF Challenge, Events, Contents
  <2> HIDE DEF LogLine, Challenge
  <2> QED BY <2>1, <2>2
<1> QED BY <1>1, <1>2

\* What is sent leaves the types as they are.
LEMMA SendTypes ==
  ASSUME ReqTypes, NEW r \in Requests, NEW ms \in Seq(Events), SendDirect(r, ms),
         \A i \in 1..Len(ms) : ms[i].kind = "result" => ms[i].data \in Statuses
  PROVE  /\ up' \in Seq(Messages) /\ Len(up') <= DirectCap
         /\ ResultsTell(up)'
         /\ missed' \in [Requests -> BOOLEAN] /\ faults' \in Nat
<1>1. /\ up \in Seq(Messages) /\ Len(up) <= DirectCap /\ missed \in [Requests -> BOOLEAN] /\ faults \in Nat
      /\ \A i \in DOMAIN up : up[i].kind = "result" => up[i].data \in Statuses
  BY DEF ReqTypes, ResultsTell
<1>2. /\ up' \in Seq(Messages) /\ Len(up') <= DirectCap
      /\ Len(up) <= Len(up')
      /\ \A i \in 1..Len(up) : up'[i] = up[i]
      /\ \A i \in (Len(up) + 1)..Len(up') :
           /\ i - Len(up) \in 1..Len(ms)
           /\ up'[i] = [id |-> r, kind |-> ms[i - Len(up)].kind, data |-> ms[i - Len(up)].data]
      /\ missed' \in [Requests -> BOOLEAN] /\ faults' \in Nat
  BY <1>1, Sending
<1>3. Len(up) \in Nat /\ DOMAIN up = 1..Len(up) /\ Len(up') \in Nat /\ DOMAIN up' = 1..Len(up')
  BY <1>1, <1>2, SeqFacts
<1>4. ASSUME NEW i \in DOMAIN up', up'[i].kind = "result"
      PROVE  up'[i].data \in Statuses
  <2>1. CASE i <= Len(up)
    BY <1>1, <1>2, <1>3, <1>4, <2>1
  <2>2. CASE ~(i <= Len(up))
    <3>1. i \in (Len(up) + 1)..Len(up')
      BY <1>3, <1>4, <2>2
    <3>2. up'[i] = [id |-> r, kind |-> ms[i - Len(up)].kind, data |-> ms[i - Len(up)].data]
          /\ i - Len(up) \in 1..Len(ms)
      BY <3>1, <1>2
    <3> QED BY <3>2, <1>4
  <2> QED BY <2>1, <2>2
<1> QED BY <1>2, <1>4 DEF ResultsTell

LEMMA PlansAreCommands ==
  ASSUME NEW a \in NetArgs, backend \in {"nm", "netplan"}
  PROVE  NetPlan(a) \in Seq(Cmds)
<1>1. CASE a.op = "wired"
  BY <1>1, WiredPlan
<1>2. CASE a.op # "wired"
  <2> DEFINE S == {c \in Cmds : c.k \notin WireKinds}
  <2>1. NetPlan(a) \in Seq(S)
    BY <1>2, OtherPlans
  <2>2. S \subseteq Cmds
    OBVIOUS
  <2> HIDE DEF S
  <2> QED BY <2>1, <2>2
<1> QED BY <1>1, <1>2

LEMMA NoJobType == NoJob \in Jobs /\ PairJob \in Jobs
                   /\ [NoJob EXCEPT !.at = "replied"] \in Jobs /\ [NoJob EXCEPT !.at = "script"] \in Jobs
                   /\ \A t \in Seq(Cmds) : [NoJob EXCEPT !.at = "net", !.todo = t] \in Jobs
<1>1. << >> \in Seq(Cmds)
  OBVIOUS
<1>2. NoJob \in Jobs
  BY <1>1 DEF NoJob, Jobs
<1> HIDE DEF NoJob
<1> QED BY <1>2 DEF Jobs, PairJob

LEMMA HandlerType ==
  ASSUME NEW f \in [Requests -> Handlers], NEW r \in Requests, NEW how \in Outcomes
  PROVE  [f EXCEPT ![r].at = "done", ![r].end = how] \in [Requests -> Handlers]
  BY DEF Handlers

LEMMA MailboxType ==
  ASSUME NEW f \in [Requests -> Mailboxes], NEW r \in Requests
  PROVE  /\ Closed \in Mailboxes /\ [f EXCEPT ![r] = Closed] \in [Requests -> Mailboxes]
         /\ \A o \in BOOLEAN : [f EXCEPT ![r].open = o] \in [Requests -> Mailboxes]
         /\ \A l \in Seq(Events) : [f EXCEPT ![r].logs = l] \in [Requests -> Mailboxes]
         /\ \A x \in Statuses : [f EXCEPT ![r].res = x] \in [Requests -> Mailboxes]
  BY DEF Mailboxes, Closed

LEMMA JobType ==
  ASSUME NEW f \in [Requests -> Jobs], NEW r \in Requests
  PROVE  /\ [f EXCEPT ![r].lines = @ + 1] \in [Requests -> Jobs]
         /\ [f EXCEPT ![r].at = "replied"] \in [Requests -> Jobs]
         /\ [f EXCEPT ![r].bt = "gone"] \in [Requests -> Jobs]
         /\ [f EXCEPT ![r].scan = "failed"] \in [Requests -> Jobs]
         /\ \A t \in Seq(Cmds) : [f EXCEPT ![r].todo = t] \in [Requests -> Jobs]
         /\ \A x \in {"waits", "failed"} :
              [f EXCEPT ![r].lines = @ + 1, ![r].bt = "asks", ![r].scan = x] \in [Requests -> Jobs]
         /\ \A b \in {"none", "runs", "paired", "asks", "refused", "gone"} :
              [f EXCEPT ![r].scan = "reads", ![r].bt = b] \in [Requests -> Jobs]
<1>1. [f EXCEPT ![r].lines = @ + 1] \in [Requests -> Jobs]
  <2>1. f[r].lines + 1 \in Nat
    BY DEF Jobs
  <2> QED BY <2>1 DEF Jobs
<1>2. [f EXCEPT ![r].at = "replied"] \in [Requests -> Jobs]
  BY DEF Jobs
<1>3. [f EXCEPT ![r].bt = "gone"] \in [Requests -> Jobs]
  BY DEF Jobs
<1>4. [f EXCEPT ![r].scan = "failed"] \in [Requests -> Jobs]
  BY DEF Jobs
<1>5. ASSUME NEW t \in Seq(Cmds)
      PROVE  [f EXCEPT ![r].todo = t] \in [Requests -> Jobs]
  BY DEF Jobs
<1>6. ASSUME NEW x \in {"waits", "failed"}
      PROVE  [f EXCEPT ![r].lines = @ + 1, ![r].bt = "asks", ![r].scan = x] \in [Requests -> Jobs]
  <2> DEFINE y == [f[r] EXCEPT !.lines = f[r].lines + 1, !.bt = "asks", !.scan = x]
             h == [f EXCEPT ![r].lines = @ + 1, ![r].bt = "asks", ![r].scan = x]
  <2>1. f[r].lines + 1 \in Nat /\ f[r] \in Jobs
    BY DEF Jobs
  <2>2. y \in Jobs
    <3> DEFINE n == f[r].lines + 1
    <3>1. n \in Nat
      BY <2>1
    <3> HIDE DEF n
    <3>2. [f[r] EXCEPT !.lines = n] \in Jobs
      BY <2>1, <3>1 DEF Jobs
    <3>3. [[f[r] EXCEPT !.lines = n] EXCEPT !.bt = "asks"] \in Jobs
      BY <3>2 DEF Jobs
    <3>4. [[[f[r] EXCEPT !.lines = n] EXCEPT !.bt = "asks"] EXCEPT !.scan = x] \in Jobs
      BY <3>3 DEF Jobs
    <3> QED BY <3>4 DEF n
  <2>3. h = [f EXCEPT ![r] = y]
    OBVIOUS
  <2> HIDE DEF y, h
  <2>4. h \in [Requests -> Jobs]
    BY <2>2, <2>3
  <2> QED BY <2>4 DEF h
<1>7. ASSUME NEW b \in {"none", "runs", "paired", "asks", "refused", "gone"}
      PROVE  [f EXCEPT ![r].scan = "reads", ![r].bt = b] \in [Requests -> Jobs]
  BY DEF Jobs
<1> QED BY <1>1, <1>2, <1>3, <1>4, <1>5, <1>6, <1>7

LEMMA ReplyType ==
  ASSUME ReqTypes, NEW r \in Requests, Replied(r)
  PROVE  job' \in [Requests -> Jobs]
<1>1. job \in [Requests -> Jobs]
  BY DEF ReqTypes
<1>2. job' = [job EXCEPT ![r] = [NoJob EXCEPT !.at = "replied"]] /\ [NoJob EXCEPT !.at = "replied"] \in Jobs
  BY NoJobType DEF Replied
<1> QED BY <1>1, <1>2

LEMMA AnswerTypes ==
  ASSUME ReqTypes, NEW r \in Requests, NEW status \in Statuses, SendDirect(r, Result(status))
  PROVE  /\ up' \in Seq(Messages) /\ Len(up') <= DirectCap /\ ResultsTell(up)'
         /\ missed' \in [Requests -> BOOLEAN] /\ faults' \in Nat
  BY SendTypes, Contented

LEMMA RestLength ==
  ASSUME NEW a \in Nat, NEW n \in 0..a
  PROVE  /\ (IF n + 1 <= a THEN a - (n + 1) + 1 ELSE 0) = a - n
         /\ a - (n + 1) + 1 = a - n /\ n + 1 \in 1..(a + 1) /\ a \in 0..a
         /\ \A i \in 1..(a - n) : n + 1 + i - 1 = n + i /\ n + i \in 1..a
  OBVIOUS

LEMMA BufferTypes ==
  ASSUME ReqTypes, NEW n \in 0..Len(up)
  PROVE  LET rest == SubSeq(up, n + 1, Len(up))
         IN  /\ rest \in Seq(Messages) /\ Len(rest) <= DirectCap /\ ResultsTell(rest)
             /\ Len(rest) = Len(up) - n /\ \A i \in 1..(Len(up) - n) : rest[i] = up[n + i]
<1> DEFINE rest == SubSeq(up, n + 1, Len(up))
<1>1. /\ up \in Seq(Messages) /\ Len(up) \in Nat /\ n \in Nat /\ n <= Len(up) /\ DOMAIN up = 1..Len(up)
      /\ \A i \in 1..Len(up) : up[i] \in Messages
  BY SeqFacts DEF ReqTypes
<1>2. /\ rest \in Seq(Messages) /\ Len(rest) = Len(up) - n
      /\ \A i \in 1..(Len(up) - n) : rest[i] = up[n + i]
  <2>1. n + 1 \in 1..(Len(up) + 1) /\ Len(up) \in 0..Len(up) /\ \A i \in (n + 1)..Len(up) : up[i] \in Messages
    BY <1>1
  <2>2. /\ rest \in Seq(Messages)
        /\ Len(rest) = IF n + 1 <= Len(up) THEN Len(up) - (n + 1) + 1 ELSE 0
        /\ \A i \in 1..(Len(up) - (n + 1) + 1) : rest[i] = up[n + 1 + i - 1]
    BY <1>1, <2>1, SubSeqProperties
  <2> HIDE DEF rest
  <2>3. /\ (IF n + 1 <= Len(up) THEN Len(up) - (n + 1) + 1 ELSE 0) = Len(up) - n
        /\ Len(up) - (n + 1) + 1 = Len(up) - n
        /\ \A i \in 1..(Len(up) - n) : n + 1 + i - 1 = n + i
    BY <1>1, RestLength
  <2>6. Len(rest) = Len(up) - n
    BY <2>2, <2>3
  <2>7. ASSUME NEW i \in 1..(Len(up) - n)
        PROVE  rest[i] = up[n + i]
    BY <2>2, <2>3
  <2> QED BY <2>2, <2>6, <2>7
<1> HIDE DEF rest
<1>3. ASSUME NEW i \in DOMAIN rest, rest[i].kind = "result"
      PROVE  rest[i].data \in Statuses
  <2>1. i \in 1..(Len(up) - n) /\ n + i \in DOMAIN up
    BY <1>1, <1>2, SeqFacts
  <2> QED BY <2>1, <1>2, <1>3 DEF ReqTypes, ResultsTell
<1>4. Len(rest) <= DirectCap
  <2>1. DirectCap \in Nat /\ Len(up) <= DirectCap
    BY RequestsAssumption DEF ReqTypes
  <2> QED BY <2>1, <1>1, <1>2
<1> QED BY <1>2, <1>3, <1>4 DEF ResultsTell, rest

LEMMA ReceiveTypes ==
  ASSUME ReqTypes, up # << >>
  PROVE  /\ Head(up) \in Messages /\ Tail(up) \in Seq(Messages) /\ Len(Tail(up)) <= DirectCap
         /\ Head(up).kind = "result" => Head(up).data \in Statuses
         /\ ResultsTell(Tail(up))
<1>1. /\ Len(up) \in Nat /\ DOMAIN up = 1..Len(up) /\ Len(up) > 0
      /\ Head(up) = up[1] /\ Head(up) \in Messages /\ Tail(up) \in Seq(Messages) /\ Len(Tail(up)) = Len(up) - 1
      /\ \A i \in 1..(Len(up) - 1) : Tail(up)[i] = up[i + 1]
  BY SeqFacts DEF ReqTypes
<1>2. DOMAIN Tail(up) = 1..(Len(up) - 1)
  BY <1>1, SeqFacts
<1>3. DirectCap \in Nat /\ Len(up) <= DirectCap /\ ResultsTell(up)
  BY RequestsAssumption DEF ReqTypes
<1>4. \A i \in 1..(Len(up) - 1) : i + 1 \in 1..Len(up)
  BY <1>1
<1>5. 1 \in DOMAIN up
  BY <1>1
<1> QED BY <1>1, <1>2, <1>3, <1>4, <1>5 DEF ResultsTell

LEMMA TypeStep ==
  ASSUME ReqTypes, PlaceInv, [Next]_vars
  PROVE  ReqTypes'
<1>0. /\ family \in Families /\ backend \in {"nm", "netplan"} /\ conn \in BOOLEAN /\ faults \in Nat
      /\ down \subseteq Requests /\ up \in Seq(Messages) /\ Len(up) <= DirectCap
      /\ ResultsTell(up)
      /\ req \in [Requests -> Handlers] /\ box \in [Requests -> Mailboxes]
      /\ job \in [Requests -> Jobs]
      /\ pins \in [Requests -> {None, Empty} \cup Requests]
      /\ client \in [Requests -> Seq(Events)] /\ pushed \in [Requests -> Seq(Events)]
      /\ missed \in [Requests -> BOOLEAN]
      /\ typed \subseteq Requests \X Requests
  BY DEF ReqTypes
<1>1. CASE Receive
  <2>1. /\ up # << >> /\ up' = Tail(up)
        /\ UNCHANGED <<family, backend, conn, down, req, job, pins, net, faults, client, missed, typed>>
    BY <1>1 DEF Receive
  <2>2. /\ Head(up) \in Messages /\ Tail(up) \in Seq(Messages) /\ Len(Tail(up)) <= DirectCap
        /\ Head(up).kind = "result" => Head(up).data \in Statuses
        /\ ResultsTell(Tail(up))
    BY <2>1, ReceiveTypes
  <2> DEFINE m == Head(up)
             e == [kind |-> m.kind, data |-> m.data]
  <2>3. m.id \in Requests /\ e \in Events
    BY <2>2 DEF Messages, Events
  <2>4. box' \in [Requests -> Mailboxes]
    <3>1. CASE m.kind = "result"
      <4>1. box' = box \/ box' = [box EXCEPT ![m.id].res = m.data]
        BY <1>1, <3>1 DEF Receive, Resolve
      <4>2. m.data \in Statuses
        BY <3>1, <2>2
      <4>3. ASSUME NEW i \in Requests, NEW d \in Statuses, box' = [box EXCEPT ![i].res = d]
            PROVE  box' \in [Requests -> Mailboxes]
        <5>1. [box EXCEPT ![i].res = d] \in [Requests -> Mailboxes]
          BY <1>0, MailboxType
        <5> QED BY <4>3, <5>1
      <4> HIDE DEF m
      <4> QED BY <4>1, <4>2, <4>3, <2>3, <1>0
    <3>2. CASE m.kind # "result"
      <4>1. PushEvent(m.id, e)
        BY <1>1, <3>2 DEF Receive
      <4> DEFINE l == box[m.id].logs
                 l2 == Append(IF Len(l) < Cap THEN l ELSE Tail(l), e)
      <4>2. l \in Seq(Events)
        BY <1>0, <2>3 DEF Mailboxes
      <4>3. l2 \in Seq(Events)
        <5>1. Len(l) < Cap \/ l # << >>
          <6>1. Len(l) \in Nat /\ Cap \in Nat \ {0}
            BY <4>2, RequestsAssumption, SeqFacts
          <6>2. l = << >> => Len(l) = 0
            OBVIOUS
          <6> QED BY <6>1, <6>2
        <5>2. (IF Len(l) < Cap THEN l ELSE Tail(l)) \in Seq(Events)
          BY <4>2, <5>1, SeqFacts
        <5> QED BY <5>2, <2>3, AppendFacts
      <4>4. box' = box \/ box' = [box EXCEPT ![m.id].logs = l2]
        BY <4>1 DEF PushEvent
      <4>5. ASSUME NEW i \in Requests, NEW d \in Seq(Events), box' = [box EXCEPT ![i].logs = d]
            PROVE  box' \in [Requests -> Mailboxes]
        <5>1. [box EXCEPT ![i].logs = d] \in [Requests -> Mailboxes]
          BY <1>0, MailboxType
        <5> QED BY <4>5, <5>1
      <4> HIDE DEF l2, m
      <4> QED BY <4>3, <4>4, <4>5, <2>3, <1>0
    <3> QED BY <3>1, <3>2
  <2>5. pushed' \in [Requests -> Seq(Events)]
    <3>1. pushed' = pushed \/ pushed' = [pushed EXCEPT ![m.id] = Append(@, e)]
      BY <1>1 DEF Receive
    <3> HIDE DEF m, e
    <3>2. m.id \in Requests /\ e \in Events
      BY <2>3 DEF m, e
    <3>3. Append(pushed[m.id], e) \in Seq(Events)
      BY <1>0, <3>2, AppendFacts
    <3> QED BY <1>0, <3>1, <3>2, <3>3
  <2> QED BY <1>0, <2>1, <2>2, <2>4, <2>5 DEF ReqTypes
<1>2. CASE Connect
  BY <1>0, <1>2 DEF Connect, history, ReqTypes
<1>3. CASE Drop
  <2>1. PICK n \in 0..Len(up) :
          /\ up' = SubSeq(up, n + 1, Len(up))
          /\ missed' = [r \in Requests |-> missed[r] \/ \E i \in 1..n : up[i].id = r]
    BY <1>3 DEF Drop
  <2>2. up' \in Seq(Messages) /\ Len(up') <= DirectCap /\ ResultsTell(up')
    BY <2>1, BufferTypes
  <2>3. missed' \in [Requests -> BOOLEAN]
    BY <2>1
  <2>4. /\ conn' = FALSE /\ down' = {}
        /\ UNCHANGED <<family, backend, req, box, job, pins, net, client, pushed, typed>>
    BY <1>3, Zenon DEF Drop
  <2>5. conn' \in BOOLEAN /\ down' \subseteq Requests
    BY <2>4
  <2>6. faults' \in Nat
    BY <1>0, <1>3 DEF Drop, Fault
  <2> QED BY <2>5, <2>6, <1>0, <2>2, <2>3, <2>4 DEF ReqTypes
<1>4. CASE AgentCrash
  <2>1. << >> \in Seq(Messages) /\ Len(<< >>) = 0 /\ DirectCap \in Nat /\ ResultsTell(<< >>)
    BY RequestsAssumption DEF ResultsTell
  <2>2. /\ up' = << >> /\ conn' = FALSE /\ down' = {}
        /\ UNCHANGED <<family, backend, req, box, net, client, pushed, typed>>
    BY <1>4, Zenon DEF AgentCrash
  <2>4. conn' \in BOOLEAN /\ down' \subseteq Requests
    BY <2>2
  <2>5. faults' \in Nat
    BY <1>0, <1>4 DEF AgentCrash, Fault
  <2>3. /\ job' \in [Requests -> Jobs] /\ pins' \in [Requests -> {None, Empty} \cup Requests]
        /\ missed' \in [Requests -> BOOLEAN]
    BY <1>4, NoJobType DEF AgentCrash
  <2> QED BY <1>0, <2>1, <2>2, <2>3, <2>4, <2>5 DEF ReqTypes
<1>5. ASSUME NEW r \in Requests, Begins(r)
      PROVE  ReqTypes'
  <2>1. PICK cmd \in Asks : cmd.op # "none" /\ Fits(cmd) /\ Begin(r, cmd)
    BY <1>5 DEF Begins
  <2>2. req' \in [Requests -> Handlers]
    <3>1. [at |-> IF conn THEN "wait" ELSE "done", cmd |-> cmd, end |-> IF conn THEN None ELSE "offline"]
            \in Handlers
      BY <2>1 DEF Outcomes, Handlers
    <3> QED BY <1>0, <2>1, <3>1 DEF Begin
  <2>3. box' \in [Requests -> Mailboxes]
    BY <1>0, <2>1, MailboxType DEF Begin
  <2>4. /\ UNCHANGED <<family, backend, conn, up, job, pins, net, history>> /\ down' \subseteq Requests
        /\ faults' \in Nat
    BY <1>0, <2>1 DEF Begin, Midway, Fault
  <2> QED BY <1>0, <2>2, <2>3, <2>4 DEF history, ReqTypes
<1>6. ASSUME NEW r \in Requests, HangUp(r)
      PROVE  ReqTypes'
  <2>1. "gone" \in Outcomes
    BY DEF Outcomes
  <2>2. req' \in [Requests -> Handlers] /\ box' \in [Requests -> Mailboxes]
    BY <1>0, <1>6, <2>1, HandlerType, MailboxType DEF HangUp, Ends
  <2>3. faults' \in Nat /\ UNCHANGED <<family, backend, link, job, pins, net, history>>
    BY <1>0, <1>6 DEF HangUp, Fault
  <2> QED BY <1>0, <2>2, <2>3 DEF link, history, ReqTypes
<1>7. ASSUME NEW r \in Requests, Arrive(r)
      PROVE  ReqTypes'
  <2> DEFINE c == req[r].cmd
  <2>1. c \in Asks /\ c.op # "none"
    BY <1>0, <1>7 DEF PlaceInv, Placed, Arrive, Handlers
  <2>2. /\ down' \subseteq Requests
        /\ UNCHANGED <<family, backend, conn, req, box, net, client, pushed, typed>>
    BY <1>0, <1>7 DEF Arrive
  <2>3. ASSUME NEW j \in Jobs, job' = [job EXCEPT ![r] = j], UNCHANGED <<up, missed, faults>>,
               pins' = pins \/ pins' = [pins EXCEPT ![r] = Empty]
        PROVE  ReqTypes'
    <3>1. job' \in [Requests -> Jobs] /\ pins' \in [Requests -> {None, Empty} \cup Requests]
      BY <1>0, <2>3
    <3> HIDE DEF c
    <3> QED BY <1>0, <2>2, <2>3, <3>1 DEF ReqTypes
  <2>4. ASSUME NEW status \in Statuses, Replied(r), SendDirect(r, Result(status)),
               pins' \in [Requests -> {None, Empty} \cup Requests]
        PROVE  ReqTypes'
    <3>1. /\ up' \in Seq(Messages) /\ Len(up') <= DirectCap /\ ResultsTell(up)'
          /\ missed' \in [Requests -> BOOLEAN] /\ faults' \in Nat
          /\ job' \in [Requests -> Jobs]
      BY <2>4, AnswerTypes, ReplyType
    <3> HIDE DEF c
    <3> QED BY <1>0, <2>2, <2>4, <3>1 DEF ReqTypes
  <2>5. CASE c.op \in {"detect", "users", "install", "uninstall"}
    <3>1. job' = [job EXCEPT ![r] = [NoJob EXCEPT !.at = "script"]] /\ UNCHANGED <<up, missed, faults, pins>>
      BY <1>7, <2>5 DEF Arrive
    <3> QED BY <2>3, <3>1, NoJobType
  <2>6. CASE c.op = "pair"
    <3>1. job' = [job EXCEPT ![r] = PairJob] /\ Arm(r) /\ UNCHANGED <<up, missed, faults>>
      BY <1>7, <2>6 DEF Arrive
    <3> QED BY <2>3, <3>1, NoJobType DEF Arm
  <2>7. CASE c.op = "pin"
    <3>1. c.for \in Requests
      BY <2>1, <2>7, AskKinds, RequestsAssumption DEF OfScript, NetOps, RadioOps
    <3>2. Deliver(r, c.for) /\ Replied(r)
      BY <1>7, <2>7 DEF Arrive
    <3>3. PICK status \in Statuses : SendDirect(r, Result(status))
      BY <3>2 DEF Deliver, Statuses
    <3>4. pins' \in [Requests -> {None, Empty} \cup Requests]
      BY <1>0, <3>1, <3>2 DEF Deliver
    <3> QED BY <2>4, <3>2, <3>3, <3>4
  <2>8. CASE c.op \in NetOps \cup RadioOps
    <3>1. c \in NetArgs
      BY <2>1, <2>8, AskKinds DEF OfScript, NetOps, RadioOps
    <3>2. \/ Replied(r) /\ SendDirect(r, Result("failed")) /\ UNCHANGED pins
          \/ /\ job' = [job EXCEPT ![r] = [NoJob EXCEPT !.at = "net", !.todo = NetPlan(c)]]
             /\ UNCHANGED <<up, missed, faults, pins>>
      BY <1>7, <2>8 DEF Arrive, NetOps, RadioOps
    <3>3. NetPlan(c) \in Seq(Cmds)
      BY <1>0, <3>1, PlansAreCommands
    <3>4. [NoJob EXCEPT !.at = "net", !.todo = NetPlan(c)] \in Jobs
      BY <3>3, NoJobType
    <3>5. "failed" \in Statuses
      BY DEF Statuses
    <3> QED BY <1>0, <2>3, <2>4, <3>2, <3>4, <3>5
  <2> QED BY <2>1, <2>5, <2>6, <2>7, <2>8, AskKinds DEF OfScript
<1>8. ASSUME NEW r \in Requests, WriteEvent(r)
      PROVE  ReqTypes'
  <2> DEFINE l == box[r].logs
  <2>1. l \in Seq(Events) /\ l # << >>
    BY <1>0, <1>8 DEF WriteEvent, Mailboxes
  <2>2. Head(l) \in Events /\ Tail(l) \in Seq(Events)
    BY <2>1, SeqFacts
  <2>3. Append(client[r], Head(l)) \in Seq(Events)
    BY <1>0, <2>2, AppendFacts
  <2>4. client' = client \/ client' = [client EXCEPT ![r] = Append(@, Head(l))]
    BY <1>8 DEF WriteEvent
  <2>5. box' = [box EXCEPT ![r].logs = Tail(l)]
    BY <1>8 DEF WriteEvent
  <2>6. client' \in [Requests -> Seq(Events)]
    BY <1>0, <2>3, <2>4
  <2> HIDE DEF l
  <2>7. box' \in [Requests -> Mailboxes]
    BY <1>0, <2>2, <2>5, MailboxType
  <2> QED BY <1>0, <1>8, <2>6, <2>7 DEF WriteEvent, link, ReqTypes
<1>9. ASSUME NEW r \in Requests, MutateDone(r) \/ UnaryDone(r)
      PROVE  ReqTypes'
  <2>1. client[r] \o box[r].logs \in Seq(Events) /\ << >> \in Seq(Events)
    BY <1>0, ConcatProperties DEF Mailboxes
  <2>2. box[r].res \in Outcomes
    BY <1>0 DEF Outcomes, Statuses, Mailboxes
  <2>3. req' \in [Requests -> Handlers] /\ box' \in [Requests -> Mailboxes]
    <3>1. Ends(r, box[r].res) /\ box' = [box EXCEPT ![r] = Closed]
      BY <1>9 DEF MutateDone, UnaryDone
    <3> QED BY <1>0, <3>1, <2>2, HandlerType, MailboxType DEF Ends
  <2>4. client' \in [Requests -> Seq(Events)]
    BY <1>0, <1>9, <2>1 DEF MutateDone, UnaryDone
  <2>5. UNCHANGED <<family, backend, link, job, pins, net, faults, pushed, missed, typed>>
    BY <1>9 DEF MutateDone, UnaryDone
  <2> QED BY <1>0, <2>3, <2>4, <2>5 DEF link, ReqTypes
<1>10. ASSUME NEW r \in Requests, Timeout(r)
       PROVE  ReqTypes'
  <2>1. "timeout" \in Outcomes /\ << >> \in Seq(Events)
    BY DEF Outcomes
  <2>2. req' \in [Requests -> Handlers] /\ box' \in [Requests -> Mailboxes]
    BY <1>0, <1>10, <2>1, HandlerType, MailboxType DEF Timeout, Ends
  <2>3. client' \in [Requests -> Seq(Events)]
    BY <1>0, <1>10, <2>1 DEF Timeout
  <2>4. faults' \in Nat /\ UNCHANGED <<family, backend, link, job, pins, net, pushed, missed, typed>>
    BY <1>0, <1>10 DEF Timeout, Fault
  <2> QED BY <1>0, <2>2, <2>3, <2>4 DEF link, ReqTypes
<1>11. ASSUME NEW r \in Requests, NEW ms \in Seq(Events), SendDirect(r, ms), job' \in [Requests -> Jobs],
              \A i \in 1..Len(ms) : ms[i].kind = "result" => ms[i].data \in Statuses,
              UNCHANGED <<family, backend, conn, down, req, box, pins, net, client, pushed, typed>>
       PROVE  ReqTypes'
  <2>1. /\ up' \in Seq(Messages) /\ Len(up') <= DirectCap /\ ResultsTell(up)'
        /\ missed' \in [Requests -> BOOLEAN] /\ faults' \in Nat
    BY <1>11, SendTypes
  <2> QED BY <1>0, <1>11, <2>1 DEF ReqTypes
<1>12. ASSUME NEW r \in Requests, NEW status \in Statuses, SendDirect(r, Result(status)),
              job' \in [Requests -> Jobs],
              UNCHANGED <<family, backend, conn, down, req, box, pins, net, client, pushed, typed>>
       PROVE  ReqTypes'
  <2>1. /\ up' \in Seq(Messages) /\ Len(up') <= DirectCap /\ ResultsTell(up)'
        /\ missed' \in [Requests -> BOOLEAN] /\ faults' \in Nat
    BY <1>12, AnswerTypes
  <2> QED BY <1>0, <1>12, <2>1 DEF ReqTypes
<1>13. ASSUME NEW r \in Requests
       PROVE  job[r] \in Jobs /\ job[r].lines + 1 \in Nat
  BY <1>0 DEF Jobs
<1>14. "succeeded" \in Statuses /\ "failed" \in Statuses
  BY DEF Statuses
<1>15. ASSUME NEW r \in Requests, PrintLine(r) \/ BtLine(r)
       PROVE  ReqTypes'
  <2> DEFINE ms == << LogLine(job[r].lines + 1) >>
  <2>1. ms \in Seq(Events) /\ Len(ms) = 1 /\ ms[1].kind # "result"
    BY <1>13, Contented
  <2>2. SendDirect(r, ms) /\ job' = [job EXCEPT ![r].lines = @ + 1]
        /\ UNCHANGED <<family, backend, conn, down, req, box, pins, net, client, pushed, typed>>
    BY <1>15 DEF PrintLine, BtLine
  <2>3. job' \in [Requests -> Jobs]
    BY <1>0, <2>2, JobType
  <2> HIDE DEF ms
  <2> QED BY <2>1, <2>2, <2>3, <1>11
<1>16. ASSUME NEW r \in Requests, BtAsks(r)
       PROVE  ReqTypes'
  <2> DEFINE ms == << LogLine(job[r].lines + 1), Challenge(job[r].lines + 1) >>
             x  == IF pins[r] = None THEN "failed" ELSE "waits"
  <2>1. ms \in Seq(Events) /\ Len(ms) = 2 /\ ms[1].kind # "result" /\ ms[2].kind # "result"
    BY <1>13, Contented
  <2>2. SendDirect(r, ms) /\ job' = [job EXCEPT ![r].lines = @ + 1, ![r].bt = "asks", ![r].scan = x]
        /\ UNCHANGED <<family, backend, conn, down, req, box, pins, net, client, pushed, typed>>
    BY <1>16 DEF BtAsks
  <2>3. x \in {"waits", "failed"}
    OBVIOUS
  <2> HIDE DEF ms, x
  <2>4. job' \in [Requests -> Jobs]
    BY <1>0, <2>2, <2>3, JobType
  <2>5. \A i \in 1..2 : i = 1 \/ i = 2
    OBVIOUS
  <2> QED BY <2>1, <2>2, <2>4, <2>5, <1>11
<1>17. ASSUME NEW r \in Requests, RunScript(r) \/ ReadUsers(r)
       PROVE  ReqTypes'
  <2>1. PICK status \in Statuses : SendDirect(r, Result(status))
    BY <1>17 DEF RunScript, ReadUsers, Statuses
  <2>2. Replied(r) /\ UNCHANGED <<family, backend, conn, down, req, box, pins, net, client, pushed, typed>>
    BY <1>17 DEF RunScript, ReadUsers
  <2> QED BY <2>1, <2>2, <1>12, ReplyType
<1>18. ASSUME NEW r \in Requests, TypePin(r)
       PROVE  ReqTypes'
  <2>1. pins[r] \in Requests /\ pins' = [pins EXCEPT ![r] = None]
        /\ (typed' = typed \/ typed' = typed \cup {<<r, pins[r]>>})
        /\ UNCHANGED <<family, backend, link, req, box, net, faults, client, pushed, missed>>
    BY <1>18 DEF TypePin
  <2>2. PICK bt \in IF job[r].bt = "asks" THEN {"paired", "refused", "runs"} ELSE {job[r].bt} :
          job' = [job EXCEPT ![r].scan = "reads", ![r].bt = bt]
    BY <1>18 DEF TypePin
  <2>3. bt \in {"none", "runs", "paired", "asks", "refused", "gone"}
    BY <1>0, <2>2 DEF Jobs
  <2>4. job' \in [Requests -> Jobs]
    BY <1>0, <2>2, <2>3, JobType
  <2>5. pins' \in [Requests -> {None, Empty} \cup Requests] /\ typed' \subseteq Requests \X Requests
    BY <1>0, <2>1
  <2> QED BY <1>0, <2>1, <2>4, <2>5 DEF link, ReqTypes
<1>19. ASSUME NEW r \in Requests, WaitEnds(r) \/ Quit(r)
       PROVE  ReqTypes'
  <2>1. job' \in [Requests -> Jobs]
    <3>1. job' = [job EXCEPT ![r].scan = "failed"] \/ job' = [job EXCEPT ![r].bt = "gone"]
      BY <1>19 DEF WaitEnds, Quit
    <3>2. [job EXCEPT ![r].scan = "failed"] \in [Requests -> Jobs]
      BY <1>0, JobType
    <3>3. [job EXCEPT ![r].bt = "gone"] \in [Requests -> Jobs]
      BY <1>0, JobType
    <3> QED BY <3>1, <3>2, <3>3
  <2>2. pins' \in [Requests -> {None, Empty} \cup Requests]
    BY <1>0, <1>19 DEF WaitEnds, Quit
  <2>3. UNCHANGED <<family, backend, link, req, box, net, faults, history>>
    BY <1>19 DEF WaitEnds, Quit
  <2> QED BY <1>0, <2>1, <2>2, <2>3 DEF link, history, ReqTypes
<1>20. ASSUME NEW r \in Requests, PairDone(r)
       PROVE  ReqTypes'
  <2>1. PICK status \in Statuses : SendDirect(r, Result(status))
    BY <1>20 DEF PairDone, Statuses
  <2>2. job' \in [Requests -> Jobs]
    BY <1>0, <1>20, JobType DEF PairDone
  <2>3. UNCHANGED <<family, backend, conn, down, req, box, pins, net, client, pushed, typed>>
    BY <1>20 DEF PairDone
  <2> QED BY <2>1, <2>2, <2>3, <1>12
<1>21. ASSUME NEW r \in Requests, NetStep(r) \/ NetDone(r)
       PROVE  ReqTypes'
  <2>1. UNCHANGED <<family, backend, conn, down, req, box, pins, client, pushed, typed>>
    BY <1>21 DEF NetStep, NetDone
  <2>2. \/ job[r].todo # << >> /\ job' = [job EXCEPT ![r].todo = Tail(@)] /\ UNCHANGED <<up, missed, faults>>
        \/ Replied(r) /\ SendDirect(r, Result("failed"))
        \/ Replied(r) /\ SendDirect(r, Result("succeeded"))
    BY <1>21 DEF NetStep, NetDone
  <2>3. CASE job[r].todo # << >> /\ job' = [job EXCEPT ![r].todo = Tail(@)] /\ UNCHANGED <<up, missed, faults>>
    <3>1. job[r].todo \in Seq(Cmds)
      BY <1>13 DEF Jobs
    <3>2. Tail(job[r].todo) \in Seq(Cmds)
      BY <2>3, <3>1, SeqFacts
    <3>3. job' \in [Requests -> Jobs]
      BY <1>0, <2>3, <3>2, JobType
    <3> QED BY <1>0, <2>1, <2>3, <3>3 DEF ReqTypes
  <2>4. ASSUME NEW status \in Statuses, Replied(r), SendDirect(r, Result(status))
        PROVE  ReqTypes'
    <3>1. /\ up' \in Seq(Messages) /\ Len(up') <= DirectCap /\ ResultsTell(up)'
          /\ missed' \in [Requests -> BOOLEAN] /\ faults' \in Nat
          /\ job' \in [Requests -> Jobs]
      BY <2>4, AnswerTypes, ReplyType
    <3> QED BY <1>0, <2>1, <3>1 DEF ReqTypes
  <2> QED BY <2>2, <2>3, <2>4, <1>14
<1>22. CASE UNCHANGED vars
  BY <1>0, <1>22 DEF vars, link, history, ReqTypes
<1> QED
  BY <1>1, <1>2, <1>3, <1>4, <1>5, <1>6, <1>7, <1>8, <1>9, <1>10, <1>15,
     <1>16, <1>17, <1>18, <1>19, <1>20, <1>21, <1>22, Steps

-----------------------------------------------------------------------------
(***************************************************************************)
(* Where a request is.                                                     *)
(***************************************************************************)
LEMMA NoJobParts ==
  /\ NoJob.at = "none" /\ NoJob.scan = "none" /\ NoJob.bt = "none"
  /\ [NoJob EXCEPT !.at = "replied"].at = "replied" /\ [NoJob EXCEPT !.at = "replied"].scan = "none"
  /\ [NoJob EXCEPT !.at = "script"].at = "script" /\ [NoJob EXCEPT !.at = "script"].scan = "none"
  /\ PairJob.at = "pair" /\ PairJob.scan = "reads"
  /\ \A t : /\ [NoJob EXCEPT !.at = "net", !.todo = t].at = "net"
            /\ [NoJob EXCEPT !.at = "net", !.todo = t].scan = "none"
            /\ [NoJob EXCEPT !.at = "net", !.todo = t].todo = t
  BY DEF NoJob, PairJob

LEMMA ClosedParts == ~Closed.open /\ Closed.res = None /\ Closed.logs = << >>
  BY DEF Closed

\* One that sends is no longer quiet, the others stay so.
LEMMA OthersQuiet ==
  ASSUME ReqTypes, NEW r \in Requests, NEW ms \in Seq(Events), SendDirect(r, ms),
         NEW s \in Requests, s # r, Quiet(s)
  PROVE  Quiet(s)'
<1>1. /\ up \in Seq(Messages) /\ Len(up) <= DirectCap /\ missed \in [Requests -> BOOLEAN] /\ faults \in Nat
  BY DEF ReqTypes
<1>2. /\ up' \in Seq(Messages) /\ Len(up) <= Len(up')
      /\ \A i \in 1..Len(up) : up'[i] = up[i]
      /\ \A i \in (Len(up) + 1)..Len(up') : up'[i].id = r
  BY <1>1, Sending
<1>3. Len(up) \in Nat /\ DOMAIN up = 1..Len(up) /\ Len(up') \in Nat /\ DOMAIN up' = 1..Len(up')
  BY <1>1, <1>2, SeqFacts
<1>4. ASSUME NEW i \in DOMAIN up'
      PROVE  up'[i].id # s
  <2>1. CASE i <= Len(up)
    <3>1. i \in 1..Len(up)
      BY <1>3, <1>4, <2>1
    <3> QED BY <3>1, <1>2, <1>3 DEF Quiet
  <2>2. CASE ~(i <= Len(up))
    <3>1. i \in (Len(up) + 1)..Len(up')
      BY <1>3, <1>4, <2>2
    <3> QED BY <3>1, <1>2
  <2> QED BY <2>1, <2>2
<1> QED BY <1>4 DEF Quiet

LEMMA PlacedFrame ==
  ASSUME NEW s \in Requests, Placed(s), req'[s] = req[s], box'[s] = box[s], job'[s] = job[s],
         client'[s] = client[s], pushed'[s] = pushed[s], s \in down' => s \in down,
         family' = family, Quiet(s) => Quiet(s)'
  PROVE  Placed(s)'
  BY DEF Placed

LEMMA PlacedJob ==
  ASSUME NEW s \in Requests, Placed(s), req'[s] = req[s], box'[s] = box[s],
         req[s].at # "idle", family' = family,
         job'[s].at # "none" => s \notin down',
         job'[s].at = "none" => job'[s] = NoJob,
         job'[s].at = "script" => req[s].cmd.op \in OfScript /\ job'[s].scan = "none",
         job'[s].at = "pair" => req[s].cmd.op = "pair",
         job'[s].at = "net" => req[s].cmd \in NetArgs /\ job'[s].scan = "none"
  PROVE  Placed(s)'
  BY DEF Placed

\* Who works for it has begun it.
LEMMA WorkersBegun ==
  ASSUME NEW s \in Requests, Placed(s),
         job[s].at # "none" \/ job[s].scan # "none" \/ job[s].bt # "none" \/ s \in down \/ ~Quiet(s)
  PROVE  req[s].at # "idle"
  BY NoJobParts DEF Placed

LEMMA PlacedSends ==
  ASSUME ReqTypes, PlaceInv, NEW r \in Requests, NEW ms \in Seq(Events), SendDirect(r, ms),
         job[r].at # "none", \A s \in Requests : s # r => job'[s] = job[s],
         job'[r].at # "none", job'[r].at \in {job[r].at, "replied"}, job'[r].scan = job[r].scan \/ job[r].at \notin {"script", "net"},
         UNCHANGED <<family, req, box, down, client, pushed>>
  PROVE  PlaceInv'
<1> SUFFICES ASSUME NEW s \in Requests
             PROVE  Placed(s)'
  BY DEF PlaceInv
<1>1. Placed(s)
  BY DEF PlaceInv
<1>2. CASE s # r
  <2>1. Quiet(s) => Quiet(s)'
    BY <1>2, OthersQuiet
  <2> QED BY <1>1, <1>2, <2>1, PlacedFrame
<1>3. CASE s = r
  <2>1. req[s].at # "idle"
    BY <1>1, <1>3, WorkersBegun
  <2>2. s \notin down
    BY <1>1, <1>3 DEF Placed
  <2> QED BY <1>1, <1>3, <2>1, <2>2, PlacedJob DEF Placed
<1> QED BY <1>2, <1>3

\* A request ends for who waits.
LEMMA PlacedEnds ==
  ASSUME ReqTypes, PlaceInv, NEW r \in Requests, NEW how \in Outcomes, req[r].at = "wait", Ends(r, how),
         box' = [box EXCEPT ![r] = Closed], \A s \in Requests : s # r => client'[s] = client[s],
         UNCHANGED <<family, down, up, job, pushed>>
  PROVE  PlaceInv'
<1> SUFFICES ASSUME NEW s \in Requests
             PROVE  Placed(s)'
  BY DEF PlaceInv
<1>1. Placed(s)
  BY DEF PlaceInv
<1>2. req \in [Requests -> Handlers] /\ box \in [Requests -> Mailboxes]
  BY DEF ReqTypes
<1>3. CASE s # r
  <2>1. req'[s] = req[s] /\ box'[s] = box[s] /\ (Quiet(s) => Quiet(s)')
    BY <1>2, <1>3 DEF Ends, Quiet
  <2> QED BY <1>1, <1>3, <2>1, PlacedFrame
<1>4. CASE s = r
  <2>1. req'[s].at = "done" /\ req'[s].cmd = req[s].cmd /\ box'[s] = Closed
    BY <1>2, <1>4 DEF Ends, Handlers
  <2> QED BY <1>1, <1>4, <2>1, ClosedParts DEF Placed
<1> QED BY <1>3, <1>4

LEMMA PlaceStep ==
  ASSUME ReqTypes, PlaceInv, [Next]_vars
  PROVE  PlaceInv'
<1>0. /\ req \in [Requests -> Handlers] /\ box \in [Requests -> Mailboxes]
      /\ job \in [Requests -> Jobs] /\ client \in [Requests -> Seq(Events)] /\ pushed \in [Requests -> Seq(Events)]
      /\ up \in Seq(Messages) /\ \A s \in Requests : Placed(s)
  BY DEF ReqTypes, PlaceInv
<1>1. CASE Receive
  <2> SUFFICES ASSUME NEW s \in Requests
               PROVE  Placed(s)'
    BY DEF PlaceInv
  <2>1. /\ up # << >> /\ up' = Tail(up)
        /\ UNCHANGED <<family, down, req, job, client>>
    BY <1>1 DEF Receive
  <2> DEFINE m == Head(up)
             e == [kind |-> m.kind, data |-> m.data]
  <2>2. m \in Messages /\ m = up[1] /\ 1 \in DOMAIN up
    BY <1>0, <2>1, SeqFacts
  <2>3. Quiet(s) => Quiet(s)' /\ s # m.id
    <3>1. /\ Len(up) \in Nat /\ DOMAIN up = 1..Len(up)
          /\ Tail(up) \in Seq(Messages) /\ Len(Tail(up)) = Len(up) - 1
          /\ \A i \in 1..(Len(up) - 1) : Tail(up)[i] = up[i + 1]
      BY <1>0, <2>1, SeqFacts
    <3>2. DOMAIN Tail(up) = 1..(Len(up) - 1) /\ \A i \in 1..(Len(up) - 1) : i + 1 \in 1..Len(up)
      BY <3>1, SeqFacts
    <3> QED BY <2>1, <2>2, <3>1, <3>2 DEF Quiet
  <2>4. \/ box' = box \/ (box[m.id].open /\ box' = [box EXCEPT ![m.id].res = m.data])
        \/ box[m.id].open /\ \E l \in Seq(Events) : box' = [box EXCEPT ![m.id].logs = l]
    <3>1. CASE m.kind = "result"
      BY <1>1, <3>1 DEF Receive, Resolve
    <3>2. CASE m.kind # "result"
      <4>1. PushEvent(m.id, e)
        BY <1>1, <3>2 DEF Receive
      <4> DEFINE l == box[m.id].logs
                 l2 == Append(IF Len(l) < Cap THEN l ELSE Tail(l), e)
      <4>2. l \in Seq(Events) /\ e \in Events
        BY <1>0, <2>2 DEF Mailboxes, Messages, Events
      <4>3. l2 \in Seq(Events)
        <5>1. Len(l) < Cap \/ l # << >>
          <6>1. Len(l) \in Nat /\ Cap \in Nat \ {0}
            BY <4>2, RequestsAssumption, SeqFacts
          <6>2. l = << >> => Len(l) = 0
            OBVIOUS
          <6> QED BY <6>1, <6>2
        <5>2. (IF Len(l) < Cap THEN l ELSE Tail(l)) \in Seq(Events)
          BY <4>2, <5>1, SeqFacts
        <5> QED BY <5>2, <4>2, AppendFacts
      <4>4. box' = box \/ (box[m.id].open /\ box' = [box EXCEPT ![m.id].logs = l2])
        BY <4>1 DEF PushEvent
      <4> HIDE DEF l2, m
      <4> QED BY <4>3, <4>4
    <3> QED BY <3>1, <3>2
  <2>5. m.id \in Requests
    BY <2>2 DEF Messages
  <2>6. /\ box'[s].open = box[s].open /\ (box'[s].res # None => box[s].res # None \/ box[s].open)
        /\ s # m.id => box'[s] = box[s]
    <3> HIDE DEF m
    <3>1. CASE box' = box
      BY <3>1
    <3>2. CASE box[m.id].open /\ box' = [box EXCEPT ![m.id].res = m.data]
      BY <1>0, <2>5, <3>2 DEF Mailboxes
    <3>3. ASSUME NEW l \in Seq(Events), box[m.id].open, box' = [box EXCEPT ![m.id].logs = l]
          PROVE  /\ box'[s].open = box[s].open /\ (box'[s].res # None => box[s].res # None \/ box[s].open)
                 /\ s # m.id => box'[s] = box[s]
      BY <1>0, <2>5, <3>3 DEF Mailboxes
    <3> QED BY <2>4, <3>1, <3>2, <3>3
  <2>7. s # m.id => pushed'[s] = pushed[s]
    <3>1. pushed' = pushed \/ pushed' = [pushed EXCEPT ![m.id] = Append(@, e)]
      BY <1>1 DEF Receive
    <3> QED BY <1>0, <3>1, <2>5
  <2>8. CASE s # m.id
    BY <1>0, <2>1, <2>3, <2>6, <2>7, <2>8, PlacedFrame
  <2>9. CASE s = m.id
    <3>1. req[s].at # "idle" /\ Placed(s)
      BY <1>0, <2>3, <2>9 DEF Placed
    <3> HIDE DEF m
    <3> QED BY <3>1, <2>1, <2>6 DEF Placed
  <2> QED BY <2>8, <2>9
<1>2. CASE Connect
  BY <1>0, <1>2 DEF Connect, history, PlaceInv, Placed, Quiet
<1>3. CASE Drop
  <2> SUFFICES ASSUME NEW s \in Requests
               PROVE  Placed(s)'
    BY DEF PlaceInv
  <2>1. PICK n \in 0..Len(up) : up' = SubSeq(up, n + 1, Len(up))
    BY <1>3 DEF Drop
  <2> DEFINE rest == SubSeq(up, n + 1, Len(up))
  <2>2. /\ rest \in Seq(Messages) /\ Len(rest) = Len(up) - n
        /\ \A i \in 1..(Len(up) - n) : rest[i] = up[n + i]
    BY BufferTypes
  <2>3. DOMAIN rest = 1..(Len(up) - n) /\ Len(up) \in Nat /\ DOMAIN up = 1..Len(up)
    BY <1>0, <2>2, SeqFacts
  <2>4. \A i \in 1..(Len(up) - n) : n + i \in 1..Len(up)
    BY <2>3
  <2>5. Quiet(s) => Quiet(s)'
    <3>1. up' = rest
      BY <2>1
    <3> HIDE DEF rest
    <3> QED BY <2>2, <2>3, <2>4, <3>1 DEF Quiet
  <2>6. /\ down' = {}
        /\ UNCHANGED <<family, backend, req, box, job, pins, net, client, pushed, typed>>
    BY <1>3, Zenon DEF Drop
  <2> QED BY <1>0, <2>5, <2>6, PlacedFrame
<1>4. CASE AgentCrash
  <2> SUFFICES ASSUME NEW s \in Requests
               PROVE  Placed(s)'
    BY DEF PlaceInv
  <2>1. up' = << >> /\ down' = {} /\ UNCHANGED <<family, backend, req, box, net, client, pushed, typed>>
    BY <1>4, Zenon DEF AgentCrash
  <2>2. job'[s] = NoJob
    BY <1>4 DEF AgentCrash
  <2>3. Quiet(s)'
    BY <2>1 DEF Quiet
  <2> QED BY <1>0, <2>1, <2>2, <2>3, NoJobParts DEF Placed
<1>5. ASSUME NEW r \in Requests, Begins(r)
      PROVE  PlaceInv'
  <2> SUFFICES ASSUME NEW s \in Requests
               PROVE  Placed(s)'
    BY DEF PlaceInv
  <2>1. PICK cmd \in Asks : cmd.op # "none" /\ Fits(cmd) /\ Begin(r, cmd)
    BY <1>5 DEF Begins
  <2>2. /\ req[r].at = "idle"
        /\ req' = [req EXCEPT ![r] = [at |-> IF conn THEN "wait" ELSE "done", cmd |-> cmd,
                                      end |-> IF conn THEN None ELSE "offline"]]
        /\ box' = [box EXCEPT ![r].open = conn]
        /\ down' = IF conn THEN down \cup {r} ELSE down
        /\ UNCHANGED <<family, backend, conn, up, job, pins, net, history>>
    BY <2>1 DEF Begin
  <2>3. Quiet(s) => Quiet(s)'
    BY <2>2 DEF Quiet
  <2>4. CASE s # r
    <3>1. req'[s] = req[s] /\ box'[s] = box[s] /\ (s \in down' => s \in down)
      BY <1>0, <2>2, <2>4
    <3> QED BY <1>0, <2>2, <2>3, <3>1, PlacedFrame DEF history
  <2>5. CASE s = r
    <3>1. req'[s].at = (IF conn THEN "wait" ELSE "done") /\ req'[s].cmd = cmd /\ req'[s].end = (IF conn THEN None ELSE "offline")
      BY <1>0, <2>2, <2>5
    <3>2. box'[s].open = conn /\ box'[s].res = box[s].res /\ box[s].res = None
      BY <1>0, <2>2, <2>5, ClosedParts DEF Placed, Mailboxes
    <3>3. job'[s] = NoJob /\ family' = family /\ conn \in BOOLEAN
      BY <1>0, <2>2, <2>5 DEF Placed, ReqTypes
    <3>4. Fits(cmd)' /\ cmd.op # "none"
      BY <2>1, <3>3 DEF Fits
    <3> QED BY <3>1, <3>2, <3>3, <3>4, NoJobParts DEF Placed, Fits
  <2> QED BY <2>4, <2>5
<1>6. ASSUME NEW r \in Requests, HangUp(r)
      PROVE  PlaceInv'
  BY <1>6, PlacedEnds DEF HangUp, link, history, Outcomes
<1>7. ASSUME NEW r \in Requests, Arrive(r)
      PROVE  PlaceInv'
  <2> SUFFICES ASSUME NEW s \in Requests
               PROVE  Placed(s)'
    BY DEF PlaceInv
  <2> DEFINE c == req[r].cmd
  <2>1. c \in Asks /\ c.op # "none" /\ req[r].at # "idle"
    BY <1>0, <1>7 DEF Placed, Arrive, Handlers
  <2>2. /\ down' = down \ {r}
        /\ UNCHANGED <<family, backend, conn, req, box, net, client, pushed, typed>>
    BY <1>7 DEF Arrive
  <2>3. ASSUME NEW j \in Jobs, job' = [job EXCEPT ![r] = j], Quiet(s) /\ s # r => Quiet(s)',
               j.at # "none", j.scan = "none" \/ j.at = "pair",
               j.at = "script" => c.op \in OfScript,
               j.at = "pair" => c.op = "pair",
               j.at = "net" => c \in NetArgs
        PROVE  Placed(s)'
    <3>1. CASE s # r
      BY <1>0, <2>2, <2>3, <3>1, PlacedFrame
    <3>2. CASE s = r
      BY <1>0, <2>1, <2>2, <2>3, <3>2, PlacedJob
    <3> QED BY <3>1, <3>2
  <2>4. ASSUME NEW status \in Statuses, Replied(r), SendDirect(r, Result(status))
        PROVE  Placed(s)'
    <3>1. Quiet(s) /\ s # r => Quiet(s)'
      BY <2>4, OthersQuiet, Contented
    <3> QED BY <2>3, <2>4, <3>1, NoJobParts, NoJobType DEF Replied
  <2>5. CASE c.op \in {"detect", "users", "install", "uninstall"}
    <3>1. job' = [job EXCEPT ![r] = [NoJob EXCEPT !.at = "script"]] /\ UNCHANGED <<up, missed, faults, pins>>
      BY <1>7, <2>5 DEF Arrive
    <3> QED BY <2>3, <2>5, <3>1, NoJobType, NoJobParts DEF OfScript, Quiet
  <2>6. CASE c.op = "pair"
    <3>1. job' = [job EXCEPT ![r] = PairJob] /\ Arm(r) /\ UNCHANGED <<up, missed, faults>>
      BY <1>7, <2>6 DEF Arrive
    <3> QED BY <2>3, <2>6, <3>1, NoJobType, NoJobParts DEF Quiet
  <2>7. CASE c.op = "pin"
    <3>1. Deliver(r, c.for) /\ Replied(r)
      BY <1>7, <2>7 DEF Arrive
    <3>2. PICK status \in Statuses : SendDirect(r, Result(status))
      BY <3>1 DEF Deliver, Statuses
    <3> QED BY <2>4, <3>1, <3>2
  <2>8. CASE c.op \in NetOps \cup RadioOps
    <3>1. c \in NetArgs
      BY <2>1, <2>8, AskKinds DEF OfScript, NetOps, RadioOps
    <3>2. \/ Replied(r) /\ SendDirect(r, Result("failed"))
          \/ /\ job' = [job EXCEPT ![r] = [NoJob EXCEPT !.at = "net", !.todo = NetPlan(c)]]
             /\ UNCHANGED <<up, missed, faults, pins>>
      BY <1>7, <2>8 DEF Arrive, NetOps, RadioOps
    <3>3. NetPlan(c) \in Seq(Cmds)
      BY <1>0, <3>1, PlansAreCommands DEF ReqTypes
    <3> DEFINE j == [NoJob EXCEPT !.at = "net", !.todo = NetPlan(c)]
    <3>4. j \in Jobs /\ j.at = "net" /\ j.scan = "none"
      BY <3>3, NoJobType, NoJobParts
    <3>5. "failed" \in Statuses
      BY DEF Statuses
    <3>6. CASE job' = [job EXCEPT ![r] = j] /\ UNCHANGED <<up, missed, faults, pins>>
      <4>1. Quiet(s) => Quiet(s)'
        BY <3>6 DEF Quiet
      <4> HIDE DEF j, c
      <4> QED BY <2>3, <3>1, <3>4, <3>6, <4>1
    <3> QED BY <2>4, <3>2, <3>5, <3>6
  <2> QED BY <2>1, <2>5, <2>6, <2>7, <2>8, AskKinds DEF OfScript
<1>8. ASSUME NEW r \in Requests, WriteEvent(r)
      PROVE  PlaceInv'
  <2> SUFFICES ASSUME NEW s \in Requests
               PROVE  Placed(s)'
    BY DEF PlaceInv
  <2>1. /\ req[r].at = "wait" /\ box' = [box EXCEPT ![r].logs = Tail(@)]
        /\ UNCHANGED <<family, backend, link, req, job, pins, net, faults, pushed, missed, typed>>
        /\ \A x \in Requests : x # r => client'[x] = client[x]
    BY <1>0, <1>8 DEF WriteEvent
  <2>2. CASE s # r
    <3>1. box'[s] = box[s] /\ (Quiet(s) => Quiet(s)')
      BY <1>0, <2>1, <2>2 DEF Quiet, link
    <3> QED BY <1>0, <2>1, <2>2, <3>1, PlacedFrame DEF link
  <2>3. CASE s = r
    <3>1. box'[s].open = box[s].open /\ box'[s].res = box[s].res
      BY <1>0, <2>1, <2>3 DEF Mailboxes
    <3> QED BY <1>0, <2>1, <2>3, <3>1 DEF Placed, link
  <2> QED BY <2>2, <2>3
<1>9. ASSUME NEW r \in Requests, MutateDone(r) \/ UnaryDone(r)
      PROVE  PlaceInv'
  <2>1. /\ req[r].at = "wait" /\ Ends(r, box[r].res) /\ box' = [box EXCEPT ![r] = Closed]
        /\ UNCHANGED <<family, backend, link, job, pins, net, faults, pushed, missed, typed>>
    BY <1>9 DEF MutateDone, UnaryDone
  <2>2. \A x \in Requests : x # r => client'[x] = client[x]
    BY <1>0, <1>9 DEF MutateDone, UnaryDone
  <2>3. box[r].res \in Outcomes
    BY <1>0 DEF Outcomes, Statuses, Mailboxes
  <2> QED BY <2>1, <2>2, <2>3, PlacedEnds DEF link
<1>10. ASSUME NEW r \in Requests, Timeout(r)
       PROVE  PlaceInv'
  <2>1. \A x \in Requests : x # r => client'[x] = client[x]
    BY <1>0, <1>10 DEF Timeout
  <2>2. "timeout" \in Outcomes
    BY DEF Outcomes
  <2> QED BY <1>10, <2>1, <2>2, PlacedEnds DEF Timeout, link
<1>11. ASSUME NEW r \in Requests
       PROVE  job[r] \in Jobs /\ job[r].lines + 1 \in Nat /\ Placed(r)
  BY <1>0 DEF Jobs
<1>12. "succeeded" \in Statuses /\ "failed" \in Statuses
  BY DEF Statuses
<1>13. ASSUME NEW r \in Requests, PrintLine(r) \/ BtLine(r)
       PROVE  PlaceInv'
  <2> DEFINE ms == << LogLine(job[r].lines + 1) >>
  <2>1. ms \in Seq(Events)
    BY <1>11, Contented
  <2>2. SendDirect(r, ms) /\ job' = [job EXCEPT ![r].lines = @ + 1]
        /\ UNCHANGED <<family, backend, conn, down, req, box, pins, net, client, pushed, typed>>
    BY <1>13 DEF PrintLine, BtLine
  <2>3. /\ \A s \in Requests : s # r => job'[s] = job[s]
        /\ job'[r].at = job[r].at /\ job'[r].scan = job[r].scan
    BY <1>0, <2>2 DEF Jobs
  <2>4. job[r].at # "none"
    BY <1>11, <1>13, NoJobParts DEF PrintLine, BtLine, Placed
  <2> HIDE DEF ms
  <2> QED BY <2>1, <2>2, <2>3, <2>4, PlacedSends
<1>14. ASSUME NEW r \in Requests, BtAsks(r)
       PROVE  PlaceInv'
  <2> DEFINE ms == << LogLine(job[r].lines + 1), Challenge(job[r].lines + 1) >>
             x  == IF pins[r] = None THEN "failed" ELSE "waits"
  <2>1. ms \in Seq(Events)
    BY <1>11, Contented
  <2>2. SendDirect(r, ms) /\ job' = [job EXCEPT ![r].lines = @ + 1, ![r].bt = "asks", ![r].scan = x]
        /\ UNCHANGED <<family, backend, conn, down, req, box, pins, net, client, pushed, typed>>
        /\ job[r].scan = "reads"
    BY <1>14 DEF BtAsks
  <2> HIDE DEF x
  <2>3. /\ \A s \in Requests : s # r => job'[s] = job[s]
        /\ job'[r].at = job[r].at
    BY <1>0, <2>2 DEF Jobs
  <2>4. job[r].at # "none" /\ job[r].at \notin {"script", "net"}
    BY <1>11, <2>2, NoJobParts DEF Placed
  <2> HIDE DEF ms
  <2> QED BY <2>1, <2>2, <2>3, <2>4, PlacedSends
<1>15. ASSUME NEW r \in Requests, NEW status \in Statuses, SendDirect(r, Result(status)), Replied(r), job[r].at \in {"script", "net"},
              UNCHANGED <<family, req, box, down, client, pushed>>
       PROVE  PlaceInv'
  <2>1. /\ \A s \in Requests : s # r => job'[s] = job[s]
        /\ job'[r].at = "replied" /\ job'[r].scan = "none"
    BY <1>0, <1>15, NoJobParts DEF Replied
  <2>2. job[r].scan = "none" /\ Result(status) \in Seq(Events)
    BY <1>11, <1>15, Contented DEF Placed
  <2> QED BY <1>15, <2>1, <2>2, PlacedSends
<1>16. ASSUME NEW r \in Requests, RunScript(r) \/ ReadUsers(r)
       PROVE  PlaceInv'
  <2>1. PICK status \in Statuses : SendDirect(r, Result(status))
    BY <1>16 DEF RunScript, ReadUsers, Statuses
  <2>2. Replied(r) /\ job[r].at = "script" /\ UNCHANGED <<family, backend, conn, down, req, box, pins, net, client, pushed, typed>>
    BY <1>16 DEF RunScript, ReadUsers
  <2> QED BY <2>1, <2>2, <1>15
<1>17. ASSUME NEW r \in Requests, TypePin(r) \/ WaitEnds(r) \/ Quit(r)
       PROVE  PlaceInv'
  <2> SUFFICES ASSUME NEW s \in Requests
               PROVE  Placed(s)'
    BY DEF PlaceInv
  <2>1. UNCHANGED <<family, backend, link, req, box, net, client, pushed>>
    BY <1>17 DEF TypePin, WaitEnds, Quit, history
  <2>2. (\A x \in Requests : x # r => job'[x] = job[x]) /\ job'[r].at = job[r].at
    BY <1>0, <1>17 DEF TypePin, WaitEnds, Quit, Jobs
  <2>3. job[r].at \notin {"none", "script", "net"}
    BY <1>11, <1>17, NoJobParts DEF TypePin, WaitEnds, Quit, Placed
  <2>4. CASE s # r
    <3>1. Quiet(s) => Quiet(s)'
      BY <2>1 DEF Quiet, link
    <3> QED BY <1>0, <2>1, <2>2, <2>4, <3>1, PlacedFrame DEF link
  <2>5. CASE s = r
    <3>1. req[s].at # "idle"
      BY <1>11, <2>3, <2>5, WorkersBegun
    <3> QED BY <1>11, <2>1, <2>2, <2>3, <2>5, <3>1 DEF Placed, link
  <2> QED BY <2>4, <2>5
<1>18. ASSUME NEW r \in Requests, PairDone(r)
       PROVE  PlaceInv'
  <2>1. PICK status \in Statuses : SendDirect(r, Result(status))
    BY <1>18 DEF PairDone, Statuses
  <2>2. job' = [job EXCEPT ![r].at = "replied"] /\ job[r].at = "pair"
        /\ UNCHANGED <<family, backend, conn, down, req, box, pins, net, client, pushed, typed>>
    BY <1>18 DEF PairDone
  <2>3. /\ \A s \in Requests : s # r => job'[s] = job[s]
        /\ job'[r].at = "replied"
    BY <1>0, <2>2 DEF Jobs
  <2>4. Result(status) \in Seq(Events)
    BY Contented
  <2> QED BY <2>1, <2>2, <2>3, <2>4, PlacedSends
<1>19. ASSUME NEW r \in Requests, NetStep(r) \/ NetDone(r)
       PROVE  PlaceInv'
  <2>1. UNCHANGED <<family, backend, conn, down, req, box, pins, client, pushed, typed>> /\ job[r].at = "net"
    BY <1>19 DEF NetStep, NetDone
  <2>2. \/ job[r].todo # << >> /\ job' = [job EXCEPT ![r].todo = Tail(@)] /\ UNCHANGED <<up, missed, faults>>
        \/ Replied(r) /\ SendDirect(r, Result("failed"))
        \/ Replied(r) /\ SendDirect(r, Result("succeeded"))
    BY <1>19 DEF NetStep, NetDone
  <2>3. CASE job[r].todo # << >> /\ job' = [job EXCEPT ![r].todo = Tail(@)] /\ UNCHANGED <<up, missed, faults>>
    <3> SUFFICES ASSUME NEW s \in Requests
                 PROVE  Placed(s)'
      BY DEF PlaceInv
    <3>1. (\A x \in Requests : x # r => job'[x] = job[x]) /\ job'[r].at = job[r].at /\ job'[r].scan = job[r].scan
      BY <1>0, <2>3 DEF Jobs
    <3>2. CASE s # r
      <4>1. Quiet(s) => Quiet(s)'
        BY <2>3 DEF Quiet
      <4> QED BY <1>0, <2>1, <3>1, <3>2, <4>1, PlacedFrame
    <3>3. CASE s = r
      <4>1. req[s].at # "idle"
        BY <1>11, <2>1, <3>3, WorkersBegun
      <4> QED BY <1>11, <2>1, <3>1, <3>3, <4>1 DEF Placed
    <3> QED BY <3>2, <3>3
  <2> QED BY <2>1, <2>2, <2>3, <1>12, <1>15
<1>20. CASE UNCHANGED vars
  BY <1>0, <1>20 DEF vars, link, history, PlaceInv, Placed, Quiet
<1> QED
  BY <1>1, <1>2, <1>3, <1>4, <1>5, <1>6, <1>7, <1>8, <1>9, <1>10, <1>13, <1>14,
     <1>16, <1>17, <1>18, <1>19, <1>20, Steps

-----------------------------------------------------------------------------
(***************************************************************************)
(* The log of an install.                                                  *)
(***************************************************************************)
LEMMA NoneIsNoStatus == None \notin Statuses /\ "offline" \notin Statuses
  BY RequestsAssumption DEF Statuses

LEMMA ToldFrame ==
  ASSUME NEW s \in Requests, Told(s), req'[s] = req[s], box'[s] = box[s],
         client'[s] = client[s], pushed'[s] = pushed[s]
  PROVE  Told(s)'
  BY DEF Told

\* An event more in the mailbox.
LEMMA ToldPushed ==
  ASSUME NEW c \in Seq(Events), NEW l \in Seq(Events), NEW p \in Seq(Events), NEW e \in Events,
         Len(l) <= Cap, EndOf(l, p), Covers(c \o l, p)
  PROVE  LET l2 == Append(IF Len(l) < Cap THEN l ELSE Tail(l), e)
         IN  Len(l2) <= Cap /\ EndOf(l2, Append(p, e)) /\ Covers(c \o l2, Append(p, e))
<1>1. Cap \in Nat /\ Cap > 0 /\ Len(l) \in Nat
  BY RequestsAssumption, SeqFacts
<1>2. CASE Len(l) < Cap
  <2>1. /\ Append(l, e) \in Seq(Events) /\ Len(Append(l, e)) = Len(l) + 1
    BY AppendFacts
  <2>2. EndOf(Append(l, e), Append(p, e))
    BY EndGrows
  <2>3. c \o l \in Seq(Events)
    BY ConcatProperties
  <2>4. Covers(Append(c \o l, e), Append(p, e))
    BY <1>1, <2>3, CoversGrow
  <2>5. Append(c \o l, e) = c \o Append(l, e)
    OBVIOUS
  <2>6. Len(l) + 1 <= Cap
    BY <1>1, <1>2
  <2> QED BY <1>2, <2>1, <2>2, <2>4, <2>5, <2>6
<1>3. CASE ~(Len(l) < Cap)
  <2> DEFINE t == Tail(l)
  <2>0. l # << >>
    BY <1>1, <1>3, SeqFacts
  <2>1. t \in Seq(Events) /\ Len(t) = Len(l) - 1
    BY <2>0, SeqFacts
  <2>2. EndOf(t, p)
    BY <2>0, EndTail
  <2> HIDE DEF t
  <2>3. Append(t, e) \in Seq(Events) /\ Len(Append(t, e)) = Len(t) + 1 /\ Append(p, e) \in Seq(Events)
    BY <2>1, AppendFacts
  <2>4. EndOf(Append(t, e), Append(p, e))
    BY <2>1, <2>2, EndGrows
  <2>5. Len(Append(t, e)) = Cap
    BY <1>1, <1>3, <2>1, <2>3
  <2>6. Covers(c \o Append(t, e), Append(p, e))
    <3> DEFINE u == Append(t, e)
               v == Append(p, e)
    <3>1. /\ u \in Seq(Events) /\ v \in Seq(Events) /\ EndOf(u, v) /\ Len(u) >= Cap /\ Cap \in Nat
      BY <1>1, <2>3, <2>4, <2>5
    <3> HIDE DEF u, v
    <3>2. Covers(c \o u, v)
      BY <3>1, CoversFull
    <3> QED BY <3>2 DEF u, v
  <2> QED BY <1>1, <1>3, <2>4, <2>5, <2>6 DEF t
<1> QED BY <1>2, <1>3

LEMMA ToldStep ==
  ASSUME ReqTypes, PlaceInv, ToldInv, [Next]_vars
  PROVE  ToldInv'
<1> SUFFICES ASSUME NEW s \in Requests
             PROVE  Told(s)'
  BY DEF ToldInv
<1>0. /\ req \in [Requests -> Handlers] /\ box \in [Requests -> Mailboxes]
      /\ client \in [Requests -> Seq(Events)] /\ pushed \in [Requests -> Seq(Events)]
      /\ up \in Seq(Messages) /\ (\A r \in Requests : Placed(r)) /\ Told(s)
  BY DEF ReqTypes, PlaceInv, ToldInv
<1>1. CASE Receive
  <2>1. /\ up # << >> /\ UNCHANGED <<family, req, client>>
    BY <1>1 DEF Receive
  <2> DEFINE m == Head(up)
             e == [kind |-> m.kind, data |-> m.data]
             l == box[m.id].logs
             l2 == Append(IF Len(l) < Cap THEN l ELSE Tail(l), e)
  <2>2. m \in Messages
    BY <1>0, <2>1, SeqFacts
  <2>3. m.id \in Requests /\ e \in Events /\ l \in Seq(Events)
    BY <1>0, <2>2 DEF Messages, Events, Mailboxes
  <2>4. CASE m.kind = "result"
    <3>1. pushed' = pushed /\ (box' = box \/ box' = [box EXCEPT ![m.id].res = m.data])
      BY <1>1, <2>4 DEF Receive, Resolve
    <3>2. box'[s].logs = box[s].logs
      <4>1. ASSUME NEW i \in Requests, NEW d, box' = [box EXCEPT ![i].res = d]
            PROVE  box'[s].logs = box[s].logs
        BY <1>0, <4>1 DEF Mailboxes
      <4> HIDE DEF m
      <4> QED BY <2>3, <3>1, <4>1
    <3> QED BY <1>0, <2>1, <3>1, <3>2 DEF Told
  <2>5. CASE m.kind # "result"
    <3>1. PushEvent(m.id, e) /\ pushed' = IF box[m.id].open /\ family = "tools"
                       THEN [pushed EXCEPT ![m.id] = Append(@, e)] ELSE pushed
      BY <1>1, <2>5 DEF Receive
    <3>2. CASE ~box[m.id].open
      <4>1. box' = box /\ pushed' = pushed
        BY <3>1, <3>2 DEF PushEvent
      <4> QED BY <1>0, <2>1, <4>1, ToldFrame
    <3>3. CASE box[m.id].open
      <4>1. box' = [box EXCEPT ![m.id].logs = l2]
        BY <3>1, <3>3 DEF PushEvent
      <4>2. CASE s # m.id
        <5> HIDE DEF l2, m, e
        <5>1. box'[s] = box[s] /\ pushed'[s] = pushed[s]
          BY <1>0, <2>3, <3>1, <4>1, <4>2
        <5> QED BY <1>0, <2>1, <5>1, ToldFrame
      <4>3. CASE s = m.id
        <5>1. SUFFICES ASSUME req[s].cmd.op \in Installs
                       PROVE  Told(s)'
          BY <2>1 DEF Told
        <5>2. family = "tools" /\ req[s].at = "wait" /\ req[s].end = None
          BY <1>0, <3>3, <4>3, <5>1 DEF Placed, Installs, OfScript
        <5>3. Len(l) <= Cap /\ EndOf(l, pushed[s]) /\ Covers(client[s] \o l, pushed[s])
          BY <1>0, <4>3, <5>1, <5>2 DEF Told
        <5>4. Len(l2) <= Cap /\ EndOf(l2, Append(pushed[s], e)) /\ Covers(client[s] \o l2, Append(pushed[s], e))
          <6> HIDE DEF l, e
          <6> QED BY <1>0, <2>3, <5>3, ToldPushed
        <5>5. pushed'[s] = Append(pushed[s], e)
          <6> HIDE DEF e, m
          <6> QED BY <1>0, <3>1, <3>3, <4>3, <5>2
        <5> HIDE DEF l2, m, e
        <5>6. box'[s].logs = l2
          BY <1>0, <2>3, <4>1, <4>3 DEF Mailboxes
        <5>7. None \notin Statuses
          BY NoneIsNoStatus
        <5> QED BY <2>1, <5>2, <5>4, <5>5, <5>6, <5>7 DEF Told
      <4> QED BY <4>2, <4>3
    <3> QED BY <3>2, <3>3
  <2> QED BY <2>4, <2>5
<1>2. CASE \/ Connect \/ UNCHANGED vars
           \/ \E r \in Requests :
                \/ Arrive(r) \/ PrintLine(r) \/ RunScript(r) \/ ReadUsers(r)
                \/ BtLine(r) \/ BtAsks(r) \/ TypePin(r) \/ WaitEnds(r) \/ Quit(r) \/ PairDone(r)
                \/ NetStep(r) \/ NetDone(r)
  <2>1. UNCHANGED <<req, box, client, pushed>>
    BY <1>2 DEF Connect, vars, history, link, Arrive, PrintLine, RunScript, ReadUsers, BtLine, BtAsks,
                TypePin, WaitEnds, Quit, PairDone, NetStep, NetDone
  <2> QED BY <1>0, <2>1, ToldFrame
<1>3. CASE Drop \/ AgentCrash
  <2>1. UNCHANGED <<req, box, client, pushed>>
    BY <1>3, Zenon DEF Drop, AgentCrash
  <2> QED BY <1>0, <2>1, ToldFrame
<1>4. ASSUME NEW r \in Requests, Begins(r)
      PROVE  Told(s)'
  <2>1. PICK cmd \in Asks : cmd.op # "none" /\ Fits(cmd) /\ Begin(r, cmd)
    BY <1>4 DEF Begins
  <2>2. /\ req[r].at = "idle"
        /\ req' = [req EXCEPT ![r] = [at |-> IF conn THEN "wait" ELSE "done", cmd |-> cmd,
                                      end |-> IF conn THEN None ELSE "offline"]]
        /\ box' = [box EXCEPT ![r].open = conn]
        /\ UNCHANGED <<client, pushed>>
    BY <2>1 DEF Begin, history
  <2>3. CASE s # r
    <3>1. req'[s] = req[s] /\ box'[s] = box[s]
      BY <1>0, <2>2, <2>3
    <3> QED BY <1>0, <2>2, <3>1, ToldFrame
  <2>4. CASE s = r
    <3>1. box'[s].logs = << >> /\ client'[s] = << >> /\ pushed'[s] = << >>
      BY <1>0, <2>2, <2>4, ClosedParts DEF Placed, Mailboxes
    <3>2. req'[s].end = (IF conn THEN None ELSE "offline")
      BY <1>0, <2>2, <2>4
    <3>3. None \notin Statuses /\ "offline" \notin Statuses
      BY NoneIsNoStatus
    <3>4. Cap \in Nat /\ Len(<< >>) = 0 /\ << >> \o << >> = << >>
      BY RequestsAssumption
    <3>5. req'[s].end \notin Statuses
      BY <3>2, <3>3
    <3>6. Len(box'[s].logs) <= Cap /\ EndOf(box'[s].logs, pushed'[s]) /\ Covers(client'[s] \o box'[s].logs, pushed'[s])
      BY <3>1, <3>4, EndEmpty
    <3> QED BY <3>5, <3>6 DEF Told
  <2> QED BY <2>3, <2>4
<1>5. ASSUME NEW r \in Requests, WriteEvent(r)
      PROVE  Told(s)'
  <2> DEFINE l == box[r].logs
  <2>1. /\ req[r].at = "wait" /\ l # << >> /\ box' = [box EXCEPT ![r].logs = Tail(l)]
        /\ client' = IF family = "tools" \/ Head(l).kind = "pin_required"
                     THEN [client EXCEPT ![r] = Append(@, Head(l))] ELSE client
        /\ UNCHANGED <<req, pushed>>
    BY <1>5 DEF WriteEvent
  <2>2. l \in Seq(Events)
    BY <1>0 DEF Mailboxes
  <2>3. CASE s # r
    <3> HIDE DEF l
    <3>1. box'[s] = box[s] /\ client'[s] = client[s]
      BY <1>0, <2>1, <2>3
    <3> QED BY <1>0, <2>1, <3>1, ToldFrame
  <2>4. CASE s = r
    <3>1. SUFFICES ASSUME req[s].cmd.op \in Installs
                   PROVE  Told(s)'
      BY <2>1 DEF Told
    <3>2. family = "tools" /\ req[s].end = None
      BY <1>0, <2>1, <2>4, <3>1 DEF Placed, Installs, OfScript
    <3>3. Len(l) <= Cap /\ EndOf(l, pushed[s]) /\ Covers(client[s] \o l, pushed[s])
      BY <1>0, <2>1, <2>4, <3>1 DEF Told
    <3> HIDE DEF l
    <3>4. client'[s] = Append(client[s], Head(l)) /\ box'[s].logs = Tail(l)
      BY <1>0, <2>1, <2>4, <3>2 DEF Mailboxes
    <3>5. Append(client[s], Head(l)) \o Tail(l) = client[s] \o l
      BY <1>0, <2>1, <2>2, MoveFirst
    <3>6. EndOf(Tail(l), pushed[s])
      BY <1>0, <2>1, <2>2, <3>3, EndTail
    <3>7. Len(Tail(l)) <= Cap
      <4>1. Len(Tail(l)) = Len(l) - 1 /\ Len(l) \in Nat /\ Cap \in Nat
        BY <2>1, <2>2, SeqFacts, RequestsAssumption
      <4> QED BY <3>3, <4>1
    <3>8. None \notin Statuses
      BY NoneIsNoStatus
    <3> QED BY <2>1, <3>2, <3>3, <3>4, <3>5, <3>6, <3>7, <3>8 DEF Told
  <2> QED BY <2>3, <2>4
<1>6. ASSUME NEW r \in Requests, NEW how \in Outcomes, Ends(r, how), box' = [box EXCEPT ![r] = Closed],
             \A x \in Requests : x # r => client'[x] = client[x], UNCHANGED pushed,
             req[r].cmd.op \in Installs /\ how \in Statuses => client'[r] = client[r] \o box[r].logs /\ req[r].at = "wait"
      PROVE  Told(s)'
  <2>1. CASE s # r
    <3>1. req'[s] = req[s] /\ box'[s] = box[s]
      BY <1>0, <1>6, <2>1 DEF Ends
    <3> QED BY <1>0, <1>6, <2>1, <3>1, ToldFrame
  <2>2. CASE s = r
    <3>1. req'[s].at = "done" /\ req'[s].cmd = req[s].cmd /\ req'[s].end = how
      BY <1>0, <1>6, <2>2 DEF Ends, Handlers
    <3> QED BY <1>0, <1>6, <2>2, <3>1 DEF Told
  <2> QED BY <2>1, <2>2
<1>7. ASSUME NEW r \in Requests, MutateDone(r) \/ UnaryDone(r)
      PROVE  Told(s)'
  <2>1. /\ req[r].at = "wait" /\ Ends(r, box[r].res) /\ box' = [box EXCEPT ![r] = Closed]
        /\ UNCHANGED pushed
    BY <1>7 DEF MutateDone, UnaryDone
  <2>2. \A x \in Requests : x # r => client'[x] = client[x]
    BY <1>0, <1>7 DEF MutateDone, UnaryDone
  <2>3. box[r].res \in Outcomes
    BY <1>0 DEF Outcomes, Statuses, Mailboxes
  <2>4. req[r].cmd.op \in Installs => client'[r] = client[r] \o box[r].logs
    BY <1>0, <1>7 DEF MutateDone, UnaryDone, Installs
  <2> QED BY <2>1, <2>2, <2>3, <2>4, <1>6
<1>8. ASSUME NEW r \in Requests, Timeout(r)
      PROVE  Told(s)'
  <2>1. /\ Ends(r, "timeout") /\ box' = [box EXCEPT ![r] = Closed] /\ UNCHANGED pushed
    BY <1>8 DEF Timeout
  <2>2. \A x \in Requests : x # r => client'[x] = client[x]
    BY <1>0, <1>8 DEF Timeout
  <2>3. "timeout" \in Outcomes /\ "timeout" \notin Statuses
    BY DEF Outcomes, Statuses
  <2> QED BY <2>1, <2>2, <2>3, <1>6
<1>9. ASSUME NEW r \in Requests, HangUp(r)
      PROVE  Told(s)'
  <2>1. /\ Ends(r, "gone") /\ box' = [box EXCEPT ![r] = Closed] /\ UNCHANGED <<pushed, client>>
    BY <1>9 DEF HangUp, history
  <2>2. "gone" \in Outcomes /\ "gone" \notin Statuses
    BY DEF Outcomes, Statuses
  <2> QED BY <2>1, <2>2, <1>6
<1> QED BY <1>1, <1>2, <1>3, <1>4, <1>5, <1>7, <1>8, <1>9, Steps

-----------------------------------------------------------------------------
(***************************************************************************)
(* The challenge of a pairing.                                             *)
(***************************************************************************)
\* Nothing is said of s: its question stays where it is, or at the end.
LEMMA AskFrame ==
  ASSUME NEW s \in Requests, Asking(s), up \in Seq(Messages), up' \in Seq(Messages),
         req'[s] = req[s], job'[s] = job[s], box'[s] = box[s], client'[s] = client[s],
         missed[s] => missed'[s], Len(up) <= Len(up'),
         \A i \in 1..Len(up) : up'[i] = up[i],
         \A i \in (Len(up) + 1)..Len(up') : up'[i].id # s
  PROVE  Asking(s)'
<1>1. Len(up) \in Nat /\ DOMAIN up = 1..Len(up) /\ Len(up') \in Nat /\ DOMAIN up' = 1..Len(up')
  BY SeqFacts
<1>2. \A i \in DOMAIN up' : i \in 1..Len(up) \/ i \in (Len(up) + 1)..Len(up')
  BY <1>1
<1>3. \A i \in DOMAIN up : i \in DOMAIN up' /\ up'[i] = up[i]
  BY <1>1
<1>4. Pending(s) => Pending(s)'
  <2>1. ASSUME NEW i \in DOMAIN up, up[i] = Question(s), \A j \in DOMAIN up : j > i => up[j].id # s
        PROVE  Pending(s)'
    <3>1. i \in DOMAIN up' /\ up'[i] = Question(s)'
      BY <1>3, <2>1 DEF Question
    <3>2. \A j \in DOMAIN up' : j > i => up'[j].id # s
      BY <1>1, <1>2, <1>3, <2>1
    <3> QED BY <3>1, <3>2 DEF Pending
  <2>2. ASSUME Quiet(s)
        PROVE  Quiet(s)'
    BY <1>1, <1>2, <1>3, <2>2 DEF Quiet
  <2> QED BY <2>1, <2>2 DEF Pending, Asked
<1> QED BY <1>4 DEF Asking

LEMMA AskSame ==
  ASSUME NEW s \in Requests, Asking(s), req'[s] = req[s], job'[s] = job[s], box'[s] = box[s],
         client'[s] = client[s], missed'[s] = missed[s], up' = up
  PROVE  Asking(s)'
  BY DEF Asking, Pending, Quiet, Question, Asked

LEMMA AskSends ==
  ASSUME ReqTypes, NEW r \in Requests, NEW ms \in Seq(Events), SendDirect(r, ms),
         NEW s \in Requests, s # r, Asking(s), job'[s] = job[s], UNCHANGED <<req, box, client>>
  PROVE  Asking(s)'
<1>1. /\ up \in Seq(Messages) /\ Len(up) <= DirectCap /\ missed \in [Requests -> BOOLEAN] /\ faults \in Nat
  BY DEF ReqTypes
<1>2. /\ up' \in Seq(Messages) /\ Len(up) <= Len(up')
      /\ \A i \in 1..Len(up) : up'[i] = up[i]
      /\ \A i \in (Len(up) + 1)..Len(up') : up'[i].id = r
      /\ missed[s] => missed'[s]
  BY <1>1, Sending
<1> QED BY <1>1, <1>2, AskFrame

\* A pairing that does not ask, or is not waited for.
LEMMA NoQuestion ==
  ASSUME NEW s \in Requests, job'[s].scan # "none" => req'[s].cmd.op = "pair",
         job'[s].scan # "waits" \/ job'[s].bt # "asks" \/ req'[s].at # "wait" \/ missed'[s]
  PROVE  Asking(s)'
  BY DEF Asking

LEMMA AskEnds ==
  ASSUME ReqTypes, AskInv, NEW r \in Requests, NEW how, Ends(r, how),
         box' = [box EXCEPT ![r] = Closed], \A s \in Requests : s # r => client'[s] = client[s],
         UNCHANGED <<up, job, missed>>
  PROVE  AskInv'
<1> SUFFICES ASSUME NEW s \in Requests
             PROVE  Asking(s)'
  BY DEF AskInv
<1>1. Asking(s) /\ req \in [Requests -> Handlers] /\ box \in [Requests -> Mailboxes] /\ up \in Seq(Messages)
  BY DEF ReqTypes, AskInv
<1>2. CASE s # r
  <2>1. req'[s] = req[s] /\ box'[s] = box[s]
    BY <1>1, <1>2 DEF Ends
  <2> QED BY <1>1, <1>2, <2>1 DEF Asking, Pending, Quiet, Question, Asked
<1>3. CASE s = r
  <2>1. req'[s].at = "done" /\ req'[s].cmd = req[s].cmd
    BY <1>1, <1>3 DEF Ends, Handlers
  <2> QED BY <1>1, <2>1, NoQuestion DEF Asking
<1> QED BY <1>2, <1>3

LEMMA AskStep ==
  ASSUME ReqTypes, PlaceInv, AskInv, [Next]_vars
  PROVE  AskInv'
<1> SUFFICES ASSUME NEW s \in Requests
             PROVE  Asking(s)'
  BY DEF AskInv
<1>0. /\ req \in [Requests -> Handlers] /\ box \in [Requests -> Mailboxes] /\ job \in [Requests -> Jobs]
      /\ client \in [Requests -> Seq(Events)] /\ missed \in [Requests -> BOOLEAN]
      /\ up \in Seq(Messages) /\ (\A r \in Requests : Placed(r)) /\ Asking(s)
  BY DEF ReqTypes, PlaceInv, AskInv
<1>a. Len(up) \in Nat /\ DOMAIN up = 1..Len(up)
  BY <1>0, SeqFacts
<1>1. CASE Receive
  <2>1. /\ up # << >> /\ up' = Tail(up)
        /\ UNCHANGED <<req, job, client, missed>>
    BY <1>1 DEF Receive
  <2> DEFINE m == Head(up)
             e == [kind |-> m.kind, data |-> m.data]
             l == box[m.id].logs
             l2 == Append(IF Len(l) < Cap THEN l ELSE Tail(l), e)
  <2>2. m \in Messages /\ m = up[1] /\ 1 \in DOMAIN up /\ Len(up) > 0
    BY <1>0, <1>a, <2>1, SeqFacts
  <2>3. m.id \in Requests /\ e \in Events /\ l \in Seq(Events)
    BY <1>0, <2>2 DEF Messages, Events, Mailboxes
  <2>4. /\ DOMAIN up' = 1..(Len(up) - 1) /\ \A i \in 1..(Len(up) - 1) : up'[i] = up[i + 1] /\ i + 1 \in DOMAIN up
    <3>1. /\ Tail(up) \in Seq(Messages) /\ Len(Tail(up)) = Len(up) - 1
          /\ \A i \in 1..(Len(up) - 1) : Tail(up)[i] = up[i + 1]
      BY <1>0, <2>1, SeqFacts
    <3>2. DOMAIN Tail(up) = 1..(Len(up) - 1) /\ \A i \in 1..(Len(up) - 1) : i + 1 \in 1..Len(up)
      BY <1>a, <3>1, SeqFacts
    <3> QED BY <1>a, <2>1, <3>1, <3>2
  <2>5. Quiet(s) => s # m.id /\ Quiet(s)'
    BY <2>2, <2>4 DEF Quiet
  <2>6. s # m.id => box'[s] = box[s]
    <3>1. \/ box' = box \/ box' = [box EXCEPT ![m.id].res = m.data]
          \/ box' = [box EXCEPT ![m.id].logs = l2]
      BY <1>1 DEF Receive, Resolve, PushEvent
    <3> HIDE DEF m, l2
    <3> QED BY <1>0, <2>3, <3>1
  <2>7. SUFFICES ASSUME job[s].scan = "waits", job[s].bt = "asks", req[s].at = "wait", ~missed[s], Pending(s)
                 PROVE  Pending(s)'
    BY <1>0, <2>1 DEF Asking
  <2>8. ASSUME NEW i \in DOMAIN up, up[i] = Question(s), \A j \in DOMAIN up : j > i => up[j].id # s, i > 1
        PROVE  Pending(s)'
    <3>1. i - 1 \in DOMAIN up' /\ i - 1 + 1 = i
      BY <1>a, <2>4, <2>8
    <3>2. up'[i - 1] = Question(s)'
      BY <2>1, <2>4, <2>8, <3>1 DEF Question
    <3>3. ASSUME NEW j \in DOMAIN up', j > i - 1
          PROVE  up'[j].id # s
      <4>1. j + 1 \in DOMAIN up /\ j + 1 > i /\ up'[j] = up[j + 1]
        BY <1>a, <2>4, <2>8, <3>3
      <4> QED BY <4>1, <2>8
    <3> QED BY <3>1, <3>2, <3>3 DEF Pending
  <2>9. ASSUME up[1] = Question(s), \A j \in DOMAIN up : j > 1 => up[j].id # s
        PROVE  Pending(s)'
    <3>1. m.id = s /\ m.kind = "pin_required" /\ m.data = job[s].lines
      BY <2>2, <2>9 DEF Question
    <3>2. e = Asked(s)
      BY <3>1 DEF Asked
    <3>3. PushEvent(m.id, e)
      BY <1>1, <3>1 DEF Receive
    <3>4. box[s].open
      BY <1>0, <2>7 DEF Placed
    <3>5. box' = [box EXCEPT ![s].logs = l2]
      BY <3>1, <3>3, <3>4 DEF PushEvent
    <3>6. DOMAIN l2 = 1..Len(l2) /\ Len(l2) \in DOMAIN l2 /\ l2[Len(l2)] = e
      <4> DEFINE k == IF Len(l) < Cap THEN l ELSE Tail(l)
      <4>1. Len(l) < Cap \/ l # << >>
        <5>1. Len(l) \in Nat /\ Cap \in Nat \ {0}
          BY <2>3, RequestsAssumption, SeqFacts
        <5>2. l = << >> => Len(l) = 0
          OBVIOUS
        <5> QED BY <5>1, <5>2
      <4>2. k \in Seq(Events)
        BY <2>3, <4>1, SeqFacts
      <4> HIDE DEF k, e
      <4>3. Append(k, e) \in Seq(Events) /\ Len(Append(k, e)) = Len(k) + 1 /\ Append(k, e)[Len(k) + 1] = e
        BY <2>3, <4>2, AppendFacts
      <4>4. Len(k) \in Nat /\ DOMAIN Append(k, e) = 1..Len(Append(k, e))
        BY <4>2, <4>3, SeqFacts
      <4> QED BY <4>3, <4>4 DEF k
    <3> HIDE DEF l2, e
    <3>7. box'[s].logs = l2
      BY <1>0, <3>5 DEF Mailboxes
    <3>8. Quiet(s)'
      <4>1. ASSUME NEW j \in DOMAIN up'
            PROVE  up'[j].id # s
        <5>1. j + 1 \in DOMAIN up /\ j + 1 > 1 /\ up'[j] = up[j + 1]
          BY <1>a, <2>4, <4>1
        <5> QED BY <5>1, <2>9
      <4> QED BY <4>1 DEF Quiet
    <3>9. Asked(s)' = Asked(s)
      BY <2>1 DEF Asked
    <3> QED BY <3>2, <3>6, <3>7, <3>8, <3>9 DEF Pending
  <2>10. ASSUME Quiet(s), \/ \E i \in DOMAIN box[s].logs : box[s].logs[i] = Asked(s)
                          \/ \E i \in DOMAIN client[s] : client[s][i] = Asked(s)
         PROVE  Pending(s)'
    <3>1. Quiet(s)' /\ box'[s] = box[s] /\ Asked(s)' = Asked(s)
      BY <2>1, <2>5, <2>6, <2>10 DEF Asked
    <3> QED BY <2>1, <2>10, <3>1 DEF Pending
  <2>11. \A i \in DOMAIN up : i = 1 \/ i > 1
    BY <1>a
  <2> QED BY <2>7, <2>8, <2>9, <2>10, <2>11 DEF Pending
<1>2. CASE Connect \/ UNCHANGED vars
  <2>1. UNCHANGED <<up, req, job, box, client, missed>>
    BY <1>2 DEF Connect, vars, link, history
  <2> QED BY <1>0, <2>1 DEF Asking, Pending, Quiet, Question, Asked
<1>3. CASE Drop
  <2>1. PICK n \in 0..Len(up) :
          /\ up' = SubSeq(up, n + 1, Len(up))
          /\ missed' = [r \in Requests |-> missed[r] \/ \E i \in 1..n : up[i].id = r]
    BY <1>3 DEF Drop
  <2> DEFINE rest == SubSeq(up, n + 1, Len(up))
  <2>2. /\ rest \in Seq(Messages) /\ Len(rest) = Len(up) - n
        /\ \A i \in 1..(Len(up) - n) : rest[i] = up[n + i]
    BY BufferTypes
  <2>3. DOMAIN rest = 1..(Len(up) - n)
    BY <2>2, SeqFacts
  <2>4. up' = rest
    BY <2>1
  <2> HIDE DEF rest
  <2>5. UNCHANGED <<req, job, box, client>>
    BY <1>3, Zenon DEF Drop
  <2>6. missed'[s] = (missed[s] \/ \E i \in 1..n : up[i].id = s)
    BY <2>1
  <2>7. SUFFICES ASSUME job[s].scan = "waits", job[s].bt = "asks", req[s].at = "wait", ~missed'[s], Pending(s)
                 PROVE  Pending(s)'
    BY <1>0, <2>5, <2>6 DEF Asking
  <2>8. \A i \in 1..n : up[i].id # s
    BY <2>6, <2>7
  <2>9. ASSUME NEW i \in DOMAIN up, up[i] = Question(s), \A j \in DOMAIN up : j > i => up[j].id # s
        PROVE  Pending(s)'
    <3>1. up[i].id = s
      BY <2>9 DEF Question
    <3>2. i > n
      BY <1>a, <2>8, <3>1
    <3>3. i - n \in DOMAIN up' /\ up'[i - n] = up[i]
      <4>1. i - n \in 1..(Len(up) - n) /\ n + (i - n) = i
        BY <1>a, <3>2
      <4> QED BY <4>1, <2>2, <2>3, <2>4
    <3>4. ASSUME NEW j \in DOMAIN up', j > i - n
          PROVE  up'[j].id # s
      <4>1. j \in 1..(Len(up) - n) /\ n + j \in DOMAIN up /\ n + j > i
        BY <1>a, <2>3, <2>4, <3>2, <3>4
      <4> QED BY <4>1, <2>2, <2>4, <2>9
    <3>5. Question(s)' = Question(s)
      BY <2>5 DEF Question
    <3> QED BY <2>9, <3>3, <3>4, <3>5 DEF Pending
  <2>10. Quiet(s) => Quiet(s)'
    <3>1. \A j \in 1..(Len(up) - n) : n + j \in DOMAIN up
      BY <1>a
    <3> QED BY <2>2, <2>3, <2>4, <3>1 DEF Quiet
  <2> QED BY <2>5, <2>7, <2>9, <2>10 DEF Pending, Asked
<1>4. CASE AgentCrash
  <2>1. UNCHANGED <<req, box, client>>
    BY <1>4, Zenon DEF AgentCrash
  <2>2. job'[s] = NoJob
    BY <1>4 DEF AgentCrash
  <2> QED BY <2>1, <2>2, NoJobParts, NoQuestion
<1>5. ASSUME NEW r \in Requests, Begins(r)
      PROVE  Asking(s)'
  <2>1. PICK cmd \in Asks : cmd.op # "none" /\ Fits(cmd) /\ Begin(r, cmd)
    BY <1>5 DEF Begins
  <2>2. /\ req[r].at = "idle"
        /\ req' = [req EXCEPT ![r] = [at |-> IF conn THEN "wait" ELSE "done", cmd |-> cmd,
                                      end |-> IF conn THEN None ELSE "offline"]]
        /\ box' = [box EXCEPT ![r].open = conn]
        /\ UNCHANGED <<up, job, client, missed>>
    BY <2>1 DEF Begin, history
  <2>3. CASE s # r
    <3>1. req'[s] = req[s] /\ box'[s] = box[s]
      BY <1>0, <2>2, <2>3
    <3> QED BY <1>0, <2>2, <3>1 DEF Asking, Pending, Quiet, Question, Asked
  <2>4. CASE s = r
    <3>1. job'[s] = NoJob
      BY <1>0, <2>2, <2>4 DEF Placed
    <3> QED BY <3>1, NoJobParts, NoQuestion
  <2> QED BY <2>3, <2>4
<1>6. ASSUME NEW r \in Requests, HangUp(r) \/ MutateDone(r) \/ UnaryDone(r) \/ Timeout(r)
      PROVE  Asking(s)'
  <2>1. UNCHANGED <<up, job, missed>> /\ box' = [box EXCEPT ![r] = Closed]
    BY <1>6 DEF HangUp, MutateDone, UnaryDone, Timeout, link, history
  <2>2. \A x \in Requests : x # r => client'[x] = client[x]
    BY <1>0, <1>6 DEF HangUp, MutateDone, UnaryDone, Timeout, history
  <2>3. PICK how : Ends(r, how)
    BY <1>6 DEF HangUp, MutateDone, UnaryDone, Timeout
  <2>4. AskInv'
    BY <2>1, <2>2, <2>3, AskEnds
  <2> QED BY <2>4 DEF AskInv
<1>7. ASSUME NEW r \in Requests, Arrive(r)
      PROVE  Asking(s)'
  <2> DEFINE c == req[r].cmd
  <2>0. UNCHANGED <<req, box, client>>
    BY <1>7 DEF Arrive
  <2>1. \/ /\ UNCHANGED <<up, missed>>
           /\ \/ job' = [job EXCEPT ![r] = [NoJob EXCEPT !.at = "script"]]
              \/ c.op = "pair" /\ job' = [job EXCEPT ![r] = PairJob]
              \/ \E t : job' = [job EXCEPT ![r] = [NoJob EXCEPT !.at = "net", !.todo = t]]
        \/ Replied(r) /\ \E status \in Statuses : SendDirect(r, Result(status))
    BY <1>7 DEF Arrive, Deliver, Statuses
  <2>2. job'[r].scan = "none" \/ (c.op = "pair" /\ job'[r].scan = "reads")
    <3>1. CASE job' = [job EXCEPT ![r] = [NoJob EXCEPT !.at = "script"]]
      BY <1>0, <3>1, NoJobParts
    <3>2. CASE c.op = "pair" /\ job' = [job EXCEPT ![r] = PairJob]
      BY <1>0, <3>2, NoJobParts
    <3>3. ASSUME NEW t, job' = [job EXCEPT ![r] = [NoJob EXCEPT !.at = "net", !.todo = t]]
          PROVE  job'[r].scan = "none"
      <4>1. job'[r] = [NoJob EXCEPT !.at = "net", !.todo = t]
        BY <1>0, <3>3
      <4> QED BY <4>1, NoJobParts
    <3>4. CASE Replied(r)
      BY <1>0, <3>4, NoJobParts DEF Replied
    <3> QED BY <2>1, <3>1, <3>2, <3>3, <3>4
  <2>3. \A x \in Requests : x # r => job'[x] = job[x]
    BY <1>0, <2>1 DEF Replied
  <2>4. CASE s = r
    BY <2>0, <2>2, <2>4, NoQuestion
  <2>5. CASE s # r /\ UNCHANGED <<up, missed>>
    BY <1>0, <2>0, <2>3, <2>5 DEF Asking, Pending, Quiet, Question, Asked
  <2>6. CASE s # r /\ \E status \in Statuses : SendDirect(r, Result(status))
    BY <1>0, <2>0, <2>3, <2>6, AskSends, Contented
  <2> QED BY <2>1, <2>4, <2>5, <2>6
<1>8. ASSUME NEW r \in Requests, WriteEvent(r)
      PROVE  Asking(s)'
  <2> DEFINE l == box[r].logs
  <2>1. /\ l # << >> /\ box' = [box EXCEPT ![r].logs = Tail(l)]
        /\ client' = IF family = "tools" \/ Head(l).kind = "pin_required"
                     THEN [client EXCEPT ![r] = Append(@, Head(l))] ELSE client
        /\ UNCHANGED <<req, up, job, missed>>
    BY <1>8 DEF WriteEvent, link
  <2>2. l \in Seq(Events)
    BY <1>0 DEF Mailboxes
  <2>3. CASE s # r
    <3> HIDE DEF l
    <3>1. box'[s] = box[s] /\ client'[s] = client[s]
      BY <1>0, <2>1, <2>3
    <3> QED BY <1>0, <2>1, <3>1, AskSame
  <2>4. CASE s = r
    <3>0. Asked(s)' = Asked(s) /\ Question(s)' = Question(s) /\ (Quiet(s) => Quiet(s)')
      BY <2>1 DEF Asked, Question, Quiet
    <3>1. /\ Len(l) \in Nat /\ DOMAIN l = 1..Len(l) /\ Head(l) = l[1] /\ Head(l) \in Events
          /\ Tail(l) \in Seq(Events) /\ Len(Tail(l)) = Len(l) - 1
          /\ \A i \in 1..(Len(l) - 1) : Tail(l)[i] = l[i + 1]
      BY <2>1, <2>2, SeqFacts
    <3>1a. DOMAIN Tail(l) = 1..(Len(l) - 1)
      BY <3>1, SeqFacts
    <3>2. box'[s].logs = Tail(l)
      <4> HIDE DEF l
      <4> QED BY <1>0, <2>1, <2>4 DEF Mailboxes
    <3>3. ASSUME NEW i \in DOMAIN client[s], client[s][i] = Asked(s)
          PROVE  \E j \in DOMAIN client'[s] : client'[s][j] = Asked(s)
      <4> HIDE DEF l
      <4>1. CASE client' = client
        BY <3>3, <4>1
      <4>2. CASE client' = [client EXCEPT ![r] = Append(@, Head(l))]
        <5>1. client'[s] = Append(client[s], Head(l)) /\ client[s] \in Seq(Events)
          BY <1>0, <2>4, <4>2
        <5>2. DOMAIN client[s] = 1..Len(client[s]) /\ Len(client[s]) \in Nat
          BY <5>1, SeqFacts
        <5>3. client'[s] \in Seq(Events) /\ Len(client'[s]) = Len(client[s]) + 1 /\ client'[s][i] = client[s][i]
          BY <3>1, <3>3, <5>1, <5>2, AppendFacts
        <5>4. i \in DOMAIN client'[s]
          BY <5>2, <5>3, SeqFacts
        <5> QED BY <3>3, <5>3, <5>4
      <4> QED BY <2>1, <4>1, <4>2
    <3>4. ASSUME NEW i \in DOMAIN l, l[i] = Asked(s), i > 1
          PROVE  \E j \in DOMAIN box'[s].logs : box'[s].logs[j] = Asked(s)
      <4>1. i - 1 \in 1..(Len(l) - 1) /\ i - 1 + 1 = i
        BY <3>1, <3>4
      <4>2. i - 1 \in DOMAIN box'[s].logs /\ box'[s].logs[i - 1] = Asked(s)
        <5> HIDE DEF l
        <5> QED BY <3>1, <3>1a, <3>2, <3>4, <4>1
      <4> QED BY <4>2
    <3>5. ASSUME l[1] = Asked(s)
          PROVE  \E j \in DOMAIN client'[s] : client'[s][j] = Asked(s)
      <4>1. Head(l) = Asked(s)
        BY <3>1, <3>5
      <4>2. Head(l).kind = "pin_required"
        BY <4>1 DEF Asked
      <4> HIDE DEF l
      <4>3. client'[s] = Append(client[s], Asked(s)) /\ client[s] \in Seq(Events) /\ Asked(s) \in Events
        BY <1>0, <2>1, <2>4, <3>1, <4>1, <4>2
      <4> DEFINE d == client[s]
                 a == Asked(s)
      <4>4. d \in Seq(Events) /\ a \in Events /\ client'[s] = Append(d, a)
        BY <4>3
      <4> HIDE DEF d, a
      <4>5. Append(d, a) \in Seq(Events) /\ Len(Append(d, a)) = Len(d) + 1 /\ Append(d, a)[Len(d) + 1] = a
        BY <4>4, AppendFacts
      <4>6. Len(d) \in Nat /\ DOMAIN Append(d, a) = 1..Len(Append(d, a))
        BY <4>4, <4>5, SeqFacts
      <4>7. Len(d) + 1 \in DOMAIN client'[s] /\ client'[s][Len(d) + 1] = a
        BY <4>4, <4>5, <4>6
      <4> QED BY <4>7 DEF a
    <3>6. \A i \in DOMAIN l : i = 1 \/ i > 1
      BY <3>1
    <3>7. Pending(s) => Pending(s)'
      <4>1. CASE \E i \in DOMAIN up : up[i] = Question(s) /\ \A j \in DOMAIN up : j > i => up[j].id # s
        <5>1. \E i \in DOMAIN up' : up'[i] = Question(s)' /\ \A j \in DOMAIN up' : j > i => up'[j].id # s
          BY <2>1, <3>0, <4>1
        <5> QED BY <5>1 DEF Pending
      <4>2. CASE Quiet(s) /\ \E i \in DOMAIN box[s].logs : box[s].logs[i] = Asked(s)
        <5>1. \/ \E j \in DOMAIN box'[s].logs : box'[s].logs[j] = Asked(s)
              \/ \E j \in DOMAIN client'[s] : client'[s][j] = Asked(s)
          BY <2>4, <3>4, <3>5, <3>6, <4>2
        <5> QED BY <3>0, <4>2, <5>1 DEF Pending
      <4>3. CASE Quiet(s) /\ \E i \in DOMAIN client[s] : client[s][i] = Asked(s)
        BY <3>0, <3>3, <4>3 DEF Pending
      <4> QED BY <4>1, <4>2, <4>3 DEF Pending
    <3> QED BY <1>0, <2>1, <3>7 DEF Asking
  <2> QED BY <2>3, <2>4
<1>9. ASSUME NEW r \in Requests, NEW ms \in Seq(Events), SendDirect(r, ms),
             \A x \in Requests : x # r => job'[x] = job[x], UNCHANGED <<req, box, client>>,
             job'[r].scan # "none" => req[r].cmd.op = "pair",
             job'[r].scan # "waits" \/ job'[r].bt # "asks"
      PROVE  Asking(s)'
  <2>1. CASE s # r
    BY <1>0, <1>9, <2>1, AskSends
  <2>2. CASE s = r
    BY <1>9, <2>2, NoQuestion
  <2> QED BY <2>1, <2>2
<1>10. ASSUME NEW r \in Requests
       PROVE  job[r] \in Jobs /\ job[r].lines + 1 \in Nat /\ Placed(r) /\ Asking(r)
  BY <1>0 DEF Jobs, AskInv
<1>11. ASSUME NEW r \in Requests, PrintLine(r) \/ BtLine(r)
       PROVE  Asking(s)'
  <2> DEFINE ms == << LogLine(job[r].lines + 1) >>
  <2>1. ms \in Seq(Events)
    BY <1>10, Contented
  <2>2. SendDirect(r, ms) /\ job' = [job EXCEPT ![r].lines = @ + 1] /\ UNCHANGED <<req, box, client>>
    BY <1>11 DEF PrintLine, BtLine
  <2>3. /\ \A x \in Requests : x # r => job'[x] = job[x]
        /\ job'[r].scan = job[r].scan
    BY <1>0, <2>2 DEF Jobs
  <2>4. job[r].scan # "waits"
    BY <1>10, <1>11 DEF PrintLine, BtLine, Placed
  <2> HIDE DEF ms
  <2> QED BY <1>10, <2>1, <2>2, <2>3, <2>4, <1>9 DEF Asking
<1>12. ASSUME NEW r \in Requests, RunScript(r) \/ ReadUsers(r) \/ PairDone(r)
       PROVE  Asking(s)'
  <2>1. PICK status \in Statuses : SendDirect(r, Result(status))
    BY <1>12 DEF RunScript, ReadUsers, PairDone, Statuses
  <2>2. Result(status) \in Seq(Events) /\ UNCHANGED <<req, box, client>>
    BY <1>12, Contented DEF RunScript, ReadUsers, PairDone
  <2>3. \A x \in Requests : x # r => job'[x] = job[x]
    BY <1>0, <1>12 DEF RunScript, ReadUsers, PairDone, Replied
  <2>4. job'[r].scan = "none" \/ (job'[r].scan = job[r].scan /\ job'[r].bt = "gone")
    <3>1. CASE Replied(r)
      BY <1>0, <3>1, NoJobParts DEF Replied
    <3>2. CASE PairDone(r)
      BY <1>0, <3>2 DEF PairDone, Jobs
    <3> QED BY <1>12, <3>1, <3>2 DEF RunScript, ReadUsers
  <2> QED BY <1>10, <2>1, <2>2, <2>3, <2>4, <1>9 DEF Asking
<1>13. ASSUME NEW r \in Requests, BtAsks(r)
       PROVE  Asking(s)'
  <2> DEFINE n  == job[r].lines + 1
             ms == << LogLine(n), Challenge(n) >>
             x  == IF pins[r] = None THEN "failed" ELSE "waits"
  <2>1. n \in Nat /\ ms \in Seq(Events) /\ Len(ms) = 2 /\ ms[2].kind = "pin_required" /\ ms[2].data = n
    BY <1>10, Contented
  <2>2. SendDirect(r, ms) /\ job' = [job EXCEPT ![r].lines = n, ![r].bt = "asks", ![r].scan = x]
        /\ UNCHANGED <<req, box, client>> /\ job[r].scan = "reads"
    BY <1>13 DEF BtAsks
  <2> HIDE DEF x, n
  <2>3. /\ \A y \in Requests : y # r => job'[y] = job[y]
        /\ job'[r].lines = n
    BY <1>0, <2>2 DEF Jobs
  <2> HIDE DEF ms
  <2>4. CASE s # r
    BY <1>0, <2>1, <2>2, <2>3, <2>4, AskSends
  <2>5. CASE s = r
    <3>1. req[s].cmd.op = "pair"
      BY <1>0, <2>2, <2>5 DEF Asking
    <3>2. /\ up \in Seq(Messages) /\ Len(up) <= DirectCap /\ missed \in [Requests -> BOOLEAN] /\ faults \in Nat
      BY DEF ReqTypes
    <3>2a. ms \in Seq(Events) /\ SendDirect(r, ms)
      BY <2>1, <2>2
    <3>3. /\ up' \in Seq(Messages)
          /\ \A i \in (Len(up) + 1)..Len(up') :
               up'[i] = [id |-> r, kind |-> ms[i - Len(up)].kind, data |-> ms[i - Len(up)].data]
          /\ ~missed'[r] => Len(up') = Len(up) + Len(ms)
      BY <3>2, <3>2a, Sending
    <3>4. ASSUME ~missed'[s]
          PROVE  Pending(s)'
      <4>1. Len(up') = Len(up) + 2
        BY <2>1, <2>5, <3>3, <3>4
      <4>2. Len(up') \in (Len(up) + 1)..Len(up') /\ Len(up') - Len(up) = 2 /\ Len(up') \in 1..Len(up')
        BY <1>a, <4>1
      <4>3. DOMAIN up' = 1..Len(up') /\ Len(up') \in Nat
        BY <3>3, SeqFacts
      <4>4. up'[Len(up')] = [id |-> s, kind |-> "pin_required", data |-> n]
        BY <2>1, <2>5, <3>3, <4>2
      <4>5. up'[Len(up')] = Question(s)'
        BY <2>3, <2>5, <4>4 DEF Question
      <4>6. \A j \in DOMAIN up' : ~(j > Len(up'))
        BY <4>3
      <4> QED BY <4>2, <4>3, <4>5, <4>6 DEF Pending
    <3> QED BY <2>2, <3>1, <3>4 DEF Asking
  <2> QED BY <2>4, <2>5
<1>14. ASSUME NEW r \in Requests, TypePin(r) \/ WaitEnds(r) \/ Quit(r)
       PROVE  Asking(s)'
  <2>1. UNCHANGED <<up, req, box, client, missed>>
    BY <1>14 DEF TypePin, WaitEnds, Quit, history, link
  <2>2. /\ \A x \in Requests : x # r => job'[x] = job[x]
        /\ job'[r].scan = "none" => job[r].scan = "none"
        /\ job'[r].scan # "waits" \/ job'[r].bt # "asks"
        /\ job[r].scan = "none" => job'[r].scan = "none"
    BY <1>0, <1>14 DEF TypePin, WaitEnds, Quit, Jobs
  <2>3. CASE s # r
    BY <1>0, <2>1, <2>2, <2>3 DEF Asking, Pending, Quiet, Question, Asked
  <2>4. CASE s = r
    BY <1>0, <2>1, <2>2, <2>4, NoQuestion DEF Asking
  <2> QED BY <2>3, <2>4
<1>15. ASSUME NEW r \in Requests, NetStep(r) \/ NetDone(r)
       PROVE  Asking(s)'
  <2>1. UNCHANGED <<req, box, client>> /\ job[r].at = "net"
    BY <1>15 DEF NetStep, NetDone
  <2>2. \/ job[r].todo # << >> /\ job' = [job EXCEPT ![r].todo = Tail(@)] /\ UNCHANGED <<up, missed>>
        \/ Replied(r) /\ \E status \in Statuses : SendDirect(r, Result(status))
    BY <1>15 DEF NetStep, NetDone, Statuses
  <2>3. (\A x \in Requests : x # r => job'[x] = job[x]) /\ job'[r].scan = "none"
    <3>1. job[r].scan = "none"
      BY <1>10, <2>1 DEF Placed
    <3>2. CASE Replied(r)
      BY <1>0, <3>2, NoJobParts DEF Replied
    <3>3. CASE job' = [job EXCEPT ![r].todo = Tail(@)]
      BY <1>0, <3>1, <3>3 DEF Jobs
    <3> QED BY <2>2, <3>2, <3>3
  <2>4. CASE s = r
    BY <2>3, <2>4, NoQuestion
  <2>5. CASE s # r /\ UNCHANGED <<up, missed>>
    BY <1>0, <2>1, <2>3, <2>5 DEF Asking, Pending, Quiet, Question, Asked
  <2>6. CASE s # r /\ \E status \in Statuses : SendDirect(r, Result(status))
    BY <1>0, <2>1, <2>3, <2>6, AskSends, Contented
  <2> QED BY <2>2, <2>4, <2>5, <2>6
<1> QED BY <1>1, <1>2, <1>3, <1>4, <1>5, <1>6, <1>7, <1>8, <1>11, <1>12, <1>13, <1>14, <1>15, Steps

-----------------------------------------------------------------------------
(***************************************************************************)
(* PINs.                                                                   *)
(***************************************************************************)
\* What was spent stays so: a request is begun once.
LEMMA SpentStays ==
  ASSUME ReqTypes, PlaceInv, [Next]_vars, NEW q \in Requests, NEW r, Spent(q, r)
  PROVE  Spent(q, r)'
<1>0. /\ req \in [Requests -> Handlers] /\ Placed(q) /\ down \subseteq Requests
  BY DEF ReqTypes, PlaceInv
<1>1. req[q].at # "idle"
  BY <1>0 DEF Placed, Spent, NoCmd
<1>2. ASSUME NEW x \in Requests, Begins(x)
      PROVE  Spent(q, r)'
  <2>1. /\ req[x].at = "idle" /\ down' \subseteq down \cup {x}
        /\ \A y \in Requests : y # x => req'[y] = req[y]
    BY <1>0, <1>2 DEF Begins, Begin
  <2> QED BY <1>1, <2>1 DEF Spent
<1>3. ASSUME req' = req \/ (\E x \in Requests, how \in Outcomes : Ends(x, how)), down' \subseteq down
      PROVE  Spent(q, r)'
  <2>1. req'[q].cmd = req[q].cmd
    <3>1. ASSUME NEW x \in Requests, NEW how \in Outcomes, Ends(x, how)
          PROVE  req'[q].cmd = req[q].cmd
      BY <1>0, <3>1 DEF Ends, Handlers
    <3> QED BY <1>3, <3>1
  <2> QED BY <1>3, <2>1 DEF Spent
<1>4. CASE Drop \/ AgentCrash
  <2>1. req' = req /\ down' = {}
    BY <1>4, Zenon DEF Drop, AgentCrash
  <2> QED BY <1>3, <2>1
<1>5. CASE \/ Receive \/ Connect \/ UNCHANGED vars
           \/ \E x \in Requests :
                \/ Arrive(x) \/ WriteEvent(x) \/ PrintLine(x) \/ RunScript(x) \/ ReadUsers(x)
                \/ BtLine(x) \/ BtAsks(x) \/ TypePin(x) \/ WaitEnds(x) \/ Quit(x) \/ PairDone(x)
                \/ NetStep(x) \/ NetDone(x)
  <2>1. req' = req /\ down' \subseteq down
    BY <1>5 DEF Receive, Connect, vars, history, link, Arrive, WriteEvent, PrintLine, RunScript, ReadUsers, BtLine,
                BtAsks, TypePin, WaitEnds, Quit, PairDone, NetStep, NetDone
  <2> QED BY <1>3, <2>1
<1>6. ASSUME NEW x \in Requests, MutateDone(x) \/ UnaryDone(x) \/ Timeout(x) \/ HangUp(x)
      PROVE  Spent(q, r)'
  <2>1. down' = down
    BY <1>6 DEF MutateDone, UnaryDone, Timeout, HangUp, link
  <2>2. \E how \in Outcomes : Ends(x, how)
    <3>1. box[x].res \in Outcomes /\ "timeout" \in Outcomes /\ "gone" \in Outcomes
      BY DEF ReqTypes, Mailboxes, Outcomes, Statuses
    <3> QED BY <1>6, <3>1 DEF MutateDone, UnaryDone, Timeout, HangUp
  <2> QED BY <1>3, <2>1, <2>2
<1> QED BY <1>2, <1>4, <1>5, <1>6, Steps

LEMMA PinStep ==
  ASSUME ReqTypes, PlaceInv, PinInv, [Next]_vars
  PROVE  PinInv'
<1>0. /\ pins \in [Requests -> {None, Empty} \cup Requests] /\ typed \subseteq Requests \X Requests
      /\ None \notin Requests /\ Empty \notin Requests
  BY Numbers DEF ReqTypes
<1>1. \A q \in Requests : \A r : Spent(q, r) => Spent(q, r)'
  BY SpentStays
<1>2. \A t \in typed : t[1] \in Requests /\ t[2] \in Requests
  BY <1>0
<1>3. ASSUME typed' = typed, \A r \in Requests : pins'[r] \in Requests => pins'[r] = pins[r]
      PROVE  PinInv'
  <2>1. ASSUME NEW r \in Requests, pins'[r] \in Requests
        PROVE  Spent(pins[r], r)' /\ \A t \in typed' : t[2] # pins'[r]
    <3>1. pins'[r] = pins[r] /\ Spent(pins[r], r) /\ \A t \in typed : t[2] # pins[r]
      BY <1>3, <2>1 DEF PinInv
    <3>2. PICK q \in Requests : q = pins[r]
      BY <2>1, <3>1
    <3>3. pins'[r] = q /\ Spent(q, r)
      BY <3>1, <3>2
    <3>4. Spent(q, r)'
      BY <1>1, <3>3
    <3>5. Spent(pins[r], r)'
      BY <3>3, <3>4 DEF Spent
    <3> QED BY <1>3, <3>1, <3>5
  <2>2. ASSUME NEW t \in typed'
        PROVE  Spent(t[2], t[1])'
    <3>1. Spent(t[2], t[1]) /\ t[2] \in Requests
      BY <1>2, <1>3, <2>2 DEF PinInv
    <3> QED BY <1>1, <3>1
  <2> QED BY <2>1, <2>2 DEF PinInv
<1>4. ASSUME NEW r \in Requests, TypePin(r)
      PROVE  PinInv'
  <2>1. pins[r] \in Requests /\ pins' = [pins EXCEPT ![r] = None]
        /\ (typed' = typed \/ typed' = typed \cup {<<r, pins[r]>>})
    BY <1>4 DEF TypePin
  <2>2. CASE typed' = typed
    BY <1>0, <1>3, <2>1, <2>2
  <2>3. CASE typed' = typed \cup {<<r, pins[r]>>}
    <3>1. ASSUME NEW s \in Requests, pins'[s] \in Requests
          PROVE  Spent(pins[s], s)' /\ \A t \in typed' : t[2] # pins'[s]
      <4>0. PICK q \in Requests : q = pins'[s]
        BY <3>1
      <4>1. s # r /\ pins[s] = q
        BY <1>0, <2>1, <3>1, <4>0
      <4>2. Spent(q, s) /\ \A t \in typed : t[2] # q
        BY <4>1 DEF PinInv
      <4>3. pins[r] # q
        BY <2>1, <4>1, <4>2 DEF PinInv, Spent
      <4>4. Spent(q, s)'
        BY <1>1, <4>2
      <4>5. Spent(pins[s], s)'
        BY <4>0, <4>4 DEF Spent
      <4>6. <<r, pins[r]>>[2] = pins[r]
        OBVIOUS
      <4> QED BY <2>3, <4>0, <4>2, <4>3, <4>5, <4>6
    <3>2. ASSUME NEW t \in typed'
          PROVE  Spent(t[2], t[1])'
      <4>1. CASE t \in typed
        <5>1. Spent(t[2], t[1]) /\ t[2] \in Requests
          BY <1>2, <4>1 DEF PinInv
        <5> QED BY <1>1, <5>1
      <4>2. CASE t = <<r, pins[r]>>
        <5>1. t[2] = pins[r] /\ t[1] = r
          BY <4>2
        <5>2. Spent(t[2], t[1]) /\ t[2] \in Requests
          BY <2>1, <5>1 DEF PinInv
        <5> QED BY <1>1, <5>2
      <4> QED BY <2>3, <4>1, <4>2
    <3> QED BY <3>1, <3>2 DEF PinInv
  <2> QED BY <2>1, <2>2, <2>3
<1>5. ASSUME NEW r \in Requests, Arrive(r)
      PROVE  PinInv'
  <2> DEFINE c == req[r].cmd
  <2>1. typed' = typed /\ down' = down \ {r} /\ req' = req /\ r \in down
    BY <1>5 DEF Arrive
  <2>2. c \in Asks
    BY DEF ReqTypes, Handlers
  <2>3. CASE UNCHANGED pins \/ Arm(r)
    BY <1>0, <1>3, <2>1, <2>3 DEF Arm
  <2>4. CASE c.op = "pin" /\ Deliver(r, c.for)
    <3>1. c.for \in Requests
      BY <2>2, <2>4, AskKinds, RequestsAssumption DEF OfScript, NetOps, RadioOps
    <3>2. pins' = pins \/ pins' = [pins EXCEPT ![c.for] = r]
      BY <2>4 DEF Deliver
    <3>3. CASE pins' = pins
      BY <1>3, <2>1, <3>3
    <3>4. CASE pins' = [pins EXCEPT ![c.for] = r]
      <4>1. ASSUME NEW s \in Requests, pins'[s] \in Requests
            PROVE  Spent(pins[s], s)' /\ \A t \in typed' : t[2] # pins'[s]
        <5>1. CASE s = c.for
          <6>1. pins'[s] = r
            BY <1>0, <3>1, <3>4, <5>1
          <6>2. Spent(r, s)'
            BY <2>1, <2>4, <5>1 DEF Spent
          <6>3. \A t \in typed : t[2] # r
            BY <2>1 DEF PinInv, Spent
          <6>4. Spent(pins[s], s)'
            BY <6>1, <6>2 DEF Spent
          <6> QED BY <2>1, <6>1, <6>3, <6>4
        <5>2. CASE s # c.for
          <6>0. PICK q \in Requests : q = pins'[s]
            BY <4>1
          <6>1. pins[s] = q
            BY <1>0, <3>1, <3>4, <5>2, <6>0
          <6>2. Spent(q, s) /\ \A t \in typed : t[2] # q
            BY <6>1 DEF PinInv
          <6>3. Spent(q, s)'
            BY <1>1, <6>2
          <6>4. Spent(pins[s], s)'
            BY <6>0, <6>3 DEF Spent
          <6> QED BY <2>1, <6>0, <6>2, <6>4
        <5> QED BY <5>1, <5>2
      <4>2. ASSUME NEW t \in typed'
            PROVE  Spent(t[2], t[1])'
        <5>1. Spent(t[2], t[1]) /\ t[2] \in Requests
          BY <1>2, <2>1, <4>2 DEF PinInv
        <5> QED BY <1>1, <5>1
      <4> QED BY <4>1, <4>2 DEF PinInv
    <3> QED BY <3>2, <3>3, <3>4
  <2>5. (UNCHANGED pins \/ Arm(r)) \/ (c.op = "pin" /\ Deliver(r, c.for))
    BY <1>5 DEF Arrive
  <2> QED BY <2>3, <2>4, <2>5
<1>6. CASE AgentCrash
  <2>1. typed' = typed
    BY <1>6, Zenon DEF AgentCrash
  <2>2. pins' = [r \in Requests |-> None]
    BY <1>6 DEF AgentCrash
  <2> QED BY <1>0, <1>3, <2>1, <2>2
<1>7. CASE Drop
  <2>1. UNCHANGED <<pins, typed>>
    BY <1>7, Zenon DEF Drop
  <2> QED BY <1>3, <2>1
<1>8. ASSUME NEW r \in Requests, WaitEnds(r) \/ Quit(r)
      PROVE  PinInv'
  <2>1. typed' = typed /\ (pins' = pins \/ pins' = [pins EXCEPT ![r] = None])
    BY <1>8 DEF WaitEnds, Quit, history
  <2> QED BY <1>0, <1>3, <2>1
<1>9. CASE \/ Receive \/ Connect \/ UNCHANGED vars
           \/ \E x \in Requests :
                \/ Begins(x) \/ HangUp(x)
                \/ WriteEvent(x) \/ MutateDone(x) \/ UnaryDone(x) \/ Timeout(x)
                \/ PrintLine(x) \/ RunScript(x) \/ ReadUsers(x)
                \/ BtLine(x) \/ BtAsks(x) \/ PairDone(x) \/ NetStep(x) \/ NetDone(x)
  <2>1. UNCHANGED <<pins, typed>>
    BY <1>9 DEF Receive, Connect, vars, history, link, Begins, Begin, HangUp, WriteEvent, MutateDone, UnaryDone,
                Timeout, PrintLine, RunScript, ReadUsers, BtLine, BtAsks, PairDone, NetStep, NetDone
  <2> QED BY <1>3, <2>1
<1> QED BY <1>4, <1>5, <1>6, <1>7, <1>8, <1>9, Steps

-----------------------------------------------------------------------------
(***************************************************************************)
(* The network.                                                            *)
(***************************************************************************)
\* Only a command of a network change changes it.
LEMMA NetUntouched ==
  ASSUME [Next]_vars
  PROVE  net' = net \/ \E r \in Requests : NetStep(r)
<1>1. CASE Drop \/ AgentCrash
  BY <1>1, Zenon DEF Drop, AgentCrash
<1>2. CASE \/ Receive \/ Connect \/ UNCHANGED vars
           \/ \E x \in Requests :
                \/ Begins(x) \/ HangUp(x) \/ Arrive(x)
                \/ WriteEvent(x) \/ MutateDone(x) \/ UnaryDone(x) \/ Timeout(x)
                \/ PrintLine(x) \/ RunScript(x) \/ ReadUsers(x)
                \/ BtLine(x) \/ BtAsks(x) \/ TypePin(x) \/ WaitEnds(x) \/ Quit(x) \/ PairDone(x) \/ NetDone(x)
  BY <1>2 DEF Receive, Connect, vars, Begins, Begin, HangUp, Arrive, WriteEvent, MutateDone, UnaryDone,
              Timeout, PrintLine, RunScript, ReadUsers, BtLine, BtAsks, TypePin, WaitEnds, Quit, PairDone, NetDone
<1> QED BY <1>1, <1>2, Steps

\* The command that is run.
LEMMA NetCommand ==
  ASSUME ReqTypes, NEW r \in Requests, NetStep(r)
  PROVE  /\ job[r].todo \in Seq(Cmds) /\ job[r].todo # << >> /\ job[r].at = "net"
         /\ Head(job[r].todo) \in Cmds /\ Tail(job[r].todo) \in Seq(Cmds)
         /\ net' = net \/ net' \in After(net, Head(job[r].todo))
<1>1. job[r].todo \in Seq(Cmds) /\ job[r].todo # << >> /\ job[r].at = "net"
  BY DEF NetStep, ReqTypes, Jobs
<1>2. Head(job[r].todo) \in Cmds /\ Tail(job[r].todo) \in Seq(Cmds)
  BY <1>1, SeqFacts
<1>3. net' = net \/ net' \in After(net, Head(job[r].todo))
  BY DEF NetStep
<1> QED BY <1>1, <1>2, <1>3

LEMMA CmdTypes ==
  ASSUME NEW c \in Cmds
  PROVE  c.k \in CmdKinds /\ Harmless(c) /\ c.must \in BOOLEAN
  BY DEF Cmds

LEMMA ProfileParts ==
  ASSUME NEW v \in Profiles
  PROVE  DOMAIN v = {"psk", "on"} /\ v.on \in {"any", "virt", "modem", "bt"}
  BY DEF Profiles

LEMMA ShapeKept ==
  ASSUME NetShape, NEW c \in Cmds, NEW m \in After(net, c)
  PROVE  ShapeOf(m)
<1>1. /\ DOMAIN net = NetParts /\ DOMAIN net.profile = {"dhcp", "addr", "gw"}
      /\ \A x \in DOMAIN net.saved :
           /\ DOMAIN net.saved[x] = {"psk", "on"} /\ net.saved[x].on \in {"any", "virt", "modem", "bt"}
           /\ x \in Seconds => net.saved[x].on # "any"
  BY DEF NetShape, ShapeOf
<1>2. c.k \in CmdKinds /\ Harmless(c)
  BY CmdTypes
<1>3. ASSUME DOMAIN m = NetParts, m.profile = net.profile, m.saved = net.saved
      PROVE  ShapeOf(m)
  BY <1>1, <1>3 DEF ShapeOf
<1>4. ASSUME DOMAIN m = NetParts, DOMAIN m.profile = {"dhcp", "addr", "gw"}, m.saved = net.saved
      PROVE  ShapeOf(m)
  BY <1>1, <1>4 DEF ShapeOf
<1>5. CASE c.k = "nm-modify"
  <2>1. m = [net EXCEPT !.profile = NmModify(net.profile, c.val)]
    BY <1>5 DEF After
  <2>2. DOMAIN NmModify(net.profile, c.val) = {"dhcp", "addr", "gw"}
    BY DEF NmModify
  <2>3. DOMAIN m = NetParts /\ m.profile = NmModify(net.profile, c.val) /\ m.saved = net.saved
    BY <1>1, <2>1 DEF NetParts
  <2> QED BY <1>4, <2>2, <2>3
<1>6. CASE c.k = "np-set"
  <2>1. m = [net EXCEPT !.profile = [net.profile EXCEPT ![c.name] = c.val]]
    BY <1>6 DEF After
  <2>2. DOMAIN m = NetParts /\ m.profile = [net.profile EXCEPT ![c.name] = c.val] /\ m.saved = net.saved
    BY <1>1, <2>1 DEF NetParts
  <2>3. DOMAIN m.profile = {"dhcp", "addr", "gw"}
    BY <1>1, <2>2
  <2> QED BY <1>4, <2>2, <2>3
<1>7. CASE c.k = "wired-up"
  <2>1. m = [net EXCEPT !.dev = net.profile]
    BY <1>7 DEF After
  <2>2. DOMAIN m = NetParts /\ m.profile = net.profile /\ m.saved = net.saved
    BY <1>1, <2>1 DEF NetParts
  <2> QED BY <1>3, <2>2
<1>8. ASSUME NEW sv, m = [net EXCEPT !.saved = sv],
             \A x \in DOMAIN sv :
               /\ DOMAIN sv[x] = {"psk", "on"} /\ sv[x].on \in {"any", "virt", "modem", "bt"}
               /\ x \in Seconds => sv[x].on # "any"
      PROVE  ShapeOf(m)
  <2>1. DOMAIN m = NetParts /\ m.profile = net.profile /\ m.saved = sv
    BY <1>1, <1>8 DEF NetParts
  <2> QED BY <1>1, <1>8, <2>1 DEF ShapeOf
<1>9. CASE c.k = "add"
  <2> DEFINE sv == [x \in DOMAIN net.saved \cup {c.name} |-> IF x = c.name THEN c.val ELSE net.saved[x]]
  <2>1. m = [net EXCEPT !.saved = sv]
    BY <1>9 DEF After
  <2>2. c.val \in Profiles /\ (c.name \in Seconds => c.val.on # "any")
    BY <1>2, <1>9 DEF Harmless
  <2>3. DOMAIN c.val = {"psk", "on"} /\ c.val.on \in {"any", "virt", "modem", "bt"}
    BY <2>2, ProfileParts
  <2>4. ASSUME NEW x \in DOMAIN sv
        PROVE  /\ DOMAIN sv[x] = {"psk", "on"} /\ sv[x].on \in {"any", "virt", "modem", "bt"}
               /\ x \in Seconds => sv[x].on # "any"
    <3>1. CASE x = c.name
      BY <2>2, <2>3, <3>1
    <3>2. CASE x # c.name
      BY <1>1, <2>4, <3>2
    <3> QED BY <3>1, <3>2
  <2> HIDE DEF sv
  <2> QED BY <1>8, <2>1, <2>4
<1>10. CASE c.k \in {"psk", "bind"}
  <2>1. PICK f \in {"psk", "on"} : m = [net EXCEPT !.saved[c.name][f] = c.val] /\ (f = "on" => c.val = "virt")
    <3>1. CASE c.k = "psk"
      <4>1. m = [net EXCEPT !.saved[c.name]["psk"] = c.val]
        BY <3>1 DEF After
      <4> QED BY <4>1
    <3>2. CASE c.k = "bind"
      <4>1. c.val = "virt"
        BY <1>2, <3>2 DEF Harmless
      <4>2. m = [net EXCEPT !.saved[c.name]["on"] = c.val]
        BY <3>2 DEF After
      <4> QED BY <4>1, <4>2
    <3> QED BY <1>10, <3>1, <3>2
  <2> DEFINE sv == [net.saved EXCEPT ![c.name][f] = c.val]
  <2>2. m = [net EXCEPT !.saved = sv]
    BY <2>1
  <2>3. ASSUME NEW x \in DOMAIN sv
        PROVE  /\ DOMAIN sv[x] = {"psk", "on"} /\ sv[x].on \in {"any", "virt", "modem", "bt"}
               /\ x \in Seconds => sv[x].on # "any"
    <3>1. x \in DOMAIN net.saved
      BY <2>3
    <3>2. CASE x = c.name
      <4>1. sv[x] = [net.saved[x] EXCEPT ![f] = c.val]
        BY <3>1, <3>2
      <4>2. DOMAIN sv[x] = {"psk", "on"}
        BY <1>1, <3>1, <4>1
      <4>3. sv[x].on = net.saved[x].on \/ sv[x].on = "virt"
        BY <1>1, <2>1, <3>1, <4>1
      <4> HIDE DEF sv
      <4> QED BY <1>1, <3>1, <4>2, <4>3
    <3>3. CASE x # c.name
      <4>1. sv[x] = net.saved[x]
        BY <3>1, <3>3
      <4> QED BY <1>1, <3>1, <4>1
    <3> QED BY <3>2, <3>3
  <2> HIDE DEF sv
  <2> QED BY <1>8, <2>2, <2>3
<1>11. CASE c.k = "up"
  <2>1. m \in UpOn(net, c.name)
    BY <1>11 DEF After
  <2>2. Saved(c.name) /\ net.saved[c.name].on \in {"any", "virt", "modem", "bt"}
    <3>1. Saved(c.name)
      BY <2>1 DEF UpOn
    <3> QED BY <1>1, <3>1 DEF Saved
  <2>3. \/ m = [net EXCEPT !.wifi = c.name] \/ m = [net EXCEPT !.cell = c.name]
        \/ m = [net EXCEPT !.pan = c.name] \/ m = [net EXCEPT !.second = c.name]
    BY <2>1, <2>2 DEF UpOn
  <2>4. DOMAIN m = NetParts /\ m.profile = net.profile /\ m.saved = net.saved
    BY <1>1, <2>3 DEF NetParts
  <2> QED BY <1>3, <2>4
<1>12. DOMAIN Off(net, c.name) = NetParts /\ Off(net, c.name).profile = net.profile /\ Off(net, c.name).saved = net.saved
  BY <1>1 DEF Off, NetParts
<1>13. CASE c.k = "down"
  <2>1. m = Off(net, c.name)
    BY <1>13 DEF After
  <2> QED BY <1>3, <1>12, <2>1
<1>14. CASE c.k = "delete"
  <2> DEFINE o == Off(net, c.name)
             sv == [x \in DOMAIN o.saved \ {c.name} |-> o.saved[x]]
  <2>1. m = [o EXCEPT !.saved = sv]
    BY <1>14 DEF After
  <2>2. \A x \in DOMAIN sv : x \in DOMAIN net.saved /\ sv[x] = net.saved[x]
    BY <1>12
  <2>3. DOMAIN o = NetParts /\ o.profile = net.profile
    BY <1>12
  <2> HIDE DEF o, sv
  <2>4. DOMAIN m = NetParts /\ m.profile = net.profile /\ m.saved = sv
    BY <2>1, <2>3 DEF NetParts
  <2> QED BY <1>1, <2>2, <2>4 DEF ShapeOf
<1>15. CASE c.k = "bt"
  <2>1. m \in BtDevice(net, c.val)
    BY <1>15 DEF After
  <2>2. \E d, p : m = [net EXCEPT !.device = d, !.pan = p]
    BY <2>1 DEF BtDevice
  <2>3. DOMAIN m = NetParts /\ m.profile = net.profile /\ m.saved = net.saved
    BY <1>1, <2>2 DEF NetParts
  <2> QED BY <1>3, <2>3
<1>16. CASE c.k = "look"
  <2>1. m = net
    BY <1>16 DEF After
  <2> QED BY <2>1 DEF NetShape
<1>17. CASE c.k \in {"del-virt", "add-virt"}
  <2>1. m = [net EXCEPT !.virt = None, !.second = None] \/ m = [net EXCEPT !.virt = "made"]
    BY <1>17 DEF After
  <2>2. DOMAIN m = NetParts /\ m.profile = net.profile /\ m.saved = net.saved
    BY <1>1, <2>1 DEF NetParts
  <2> QED BY <1>3, <2>2
<1> QED
  BY <1>2, <1>5, <1>6, <1>7, <1>9, <1>10, <1>11, <1>13, <1>14, <1>15, <1>16, <1>17 DEF CmdKinds

LEMMA ShapeStep ==
  ASSUME ReqTypes, NetShape, [Next]_vars
  PROVE  NetShape'
<1>1. CASE net' = net
  BY <1>1 DEF NetShape
<1>2. ASSUME NEW r \in Requests, NetStep(r)
      PROVE  NetShape'
  <2>1. /\ Head(job[r].todo) \in Cmds
        /\ net' = net \/ net' \in After(net, Head(job[r].todo))
    BY <1>2, NetCommand
  <2>2. PICK c \in Cmds : c = Head(job[r].todo)
    BY <2>1
  <2>3. CASE net' \in After(net, c)
    <3>1. PICK m \in After(net, c) : m = net'
      BY <2>3
    <3>2. ShapeOf(m)
      BY ShapeKept
    <3> QED BY <3>1, <3>2 DEF NetShape
  <2> QED BY <1>1, <2>1, <2>2, <2>3
<1> QED BY <1>1, <1>2, NetUntouched

\* The commands that answer an alongside request leave the first association alone.
LEMMA AlongsideKeeps ==
  ASSUME NetShape, NEW a \in NetArgs, a.op = "alongside", NEW c \in AlongsideCmds(a), NEW m \in After(net, c)
  PROVE  m.wifi = net.wifi
<1>1. c \in Cmds /\ c.k \in {"del-virt", "add-virt", "bind", "add", "up"}
  BY DEF AlongsideCmds
<1>2. DOMAIN net = NetParts
  BY DEF NetShape, ShapeOf
<1>3. CASE c.k = "up"
  <2>1. c.name \in Seconds /\ m \in UpOn(net, c.name)
    <3>1. m \in UpOn(net, c.name)
      BY <1>3 DEF After
    <3>2. c.name = Beside(a.name)
      BY <1>3 DEF AlongsideCmds
    <3> QED BY <3>1, <3>2 DEF Seconds
  <2>2. Saved(c.name)
    BY <2>1 DEF UpOn
  <2>3. net.saved[c.name].on \in {"virt", "modem", "bt"}
    BY <2>1, <2>2 DEF NetShape, ShapeOf, Saved
  <2>4. \/ m = [net EXCEPT !.cell = c.name]
        \/ m = [net EXCEPT !.pan = c.name] \/ m = [net EXCEPT !.second = c.name]
    BY <2>1, <2>2, <2>3 DEF UpOn
  <2> QED BY <1>2, <2>4 DEF NetParts
<1>4. CASE c.k = "add"
  BY <1>1, <1>2, <1>4 DEF After, NetParts
<1>5. CASE c.k = "bind"
  BY <1>1, <1>2, <1>5 DEF After, NetParts
<1>6. CASE c.k \in {"del-virt", "add-virt"}
  BY <1>1, <1>2, <1>6 DEF After, NetParts
<1> QED BY <1>1, <1>3, <1>4, <1>5, <1>6

\* What is not about the wire leaves it alone.
LEMMA WireKept ==
  ASSUME NetShape, NEW c \in Cmds, c.k \notin WireKinds, NEW m \in After(net, c)
  PROVE  m.profile = net.profile /\ m.dev = net.dev
<1>1. DOMAIN net = NetParts
  BY DEF NetShape, ShapeOf
<1>2. c.k \in CmdKinds
  BY CmdTypes
<1>3. CASE c.k = "up"
  <2>1. m \in UpOn(net, c.name)
    BY <1>3 DEF After
  <2>2. Saved(c.name)
    BY <2>1 DEF UpOn
  <2>3. net.saved[c.name].on \in {"any", "virt", "modem", "bt"}
    BY <2>2 DEF NetShape, ShapeOf, Saved
  <2>4. \/ m = [net EXCEPT !.wifi = c.name] \/ m = [net EXCEPT !.cell = c.name]
        \/ m = [net EXCEPT !.pan = c.name] \/ m = [net EXCEPT !.second = c.name]
    BY <2>1, <2>2, <2>3 DEF UpOn
  <2> QED BY <1>1, <2>4 DEF NetParts
<1>4. CASE c.k \in {"add", "psk", "bind"}
  <2>1. \E sv : m = [net EXCEPT !.saved = sv]
    BY <1>4 DEF After
  <2> QED BY <1>1, <2>1 DEF NetParts
<1>5. DOMAIN Off(net, c.name) = NetParts /\ Off(net, c.name).profile = net.profile /\ Off(net, c.name).dev = net.dev
  BY <1>1 DEF Off, NetParts
<1>6. CASE c.k = "down"
  BY <1>5, <1>6 DEF After
<1>7. CASE c.k = "delete"
  <2>1. \E sv : m = [Off(net, c.name) EXCEPT !.saved = sv]
    BY <1>7 DEF After
  <2> QED BY <1>5, <2>1 DEF NetParts
<1>8. CASE c.k = "bt"
  <2>1. m \in BtDevice(net, c.val)
    BY <1>8 DEF After
  <2>2. \E d, p : m = [net EXCEPT !.device = d, !.pan = p]
    BY <2>1 DEF BtDevice
  <2> QED BY <1>1, <2>2 DEF NetParts
<1>9. CASE c.k = "look"
  BY <1>9 DEF After
<1>10. CASE c.k \in {"del-virt", "add-virt"}
  <2>1. m = [net EXCEPT !.virt = None, !.second = None] \/ m = [net EXCEPT !.virt = "made"]
    BY <1>10 DEF After
  <2> QED BY <1>1, <2>1 DEF NetParts
<1> QED BY <1>2, <1>3, <1>4, <1>6, <1>7, <1>8, <1>9, <1>10 DEF CmdKinds, WireKinds

\* Where the plan of a network change comes from.
LEMMA NetJobs ==
  ASSUME ReqTypes, PlaceInv, [Next]_vars, NEW s \in Requests, job'[s].at = "net"
  PROVE  /\ req'[s].cmd = req[s].cmd /\ req[s].cmd \in NetArgs
         /\ \/ job[s].at = "net" /\ job'[s].todo = job[s].todo /\ ~NetStep(s)
            \/ NetStep(s) /\ job[s].at = "net" /\ job'[s].todo = Tail(job[s].todo)
            \/ Arrive(s) /\ job'[s].todo = NetPlan(req[s].cmd)
<1>0. /\ req \in [Requests -> Handlers] /\ job \in [Requests -> Jobs] /\ Placed(s) /\ backend \in {"nm", "netplan"}
  BY DEF ReqTypes, PlaceInv
<1>1. ASSUME job'[s] = job[s], req'[s].cmd = req[s].cmd, ~NetStep(s)
      PROVE  /\ req'[s].cmd = req[s].cmd /\ req[s].cmd \in NetArgs
             /\ job[s].at = "net" /\ job'[s].todo = job[s].todo /\ ~NetStep(s)
  BY <1>0, <1>1 DEF Placed
<1>2. CASE NetStep(s)
  <2>1. /\ job[s].at = "net" /\ req' = req
        /\ job' = [job EXCEPT ![s].todo = Tail(@)] \/ Replied(s)
    BY <1>2 DEF NetStep
  <2>2. ~Replied(s)
    BY <1>0, NoJobParts DEF Replied
  <2>3. job'[s].todo = Tail(job[s].todo)
    BY <1>0, <2>1, <2>2 DEF Jobs
  <2> QED BY <1>0, <1>2, <2>1, <2>3 DEF Placed
<1>3. CASE Arrive(s)
  <2> DEFINE c == req[s].cmd
  <2>1. c \in Asks /\ c.op # "none" /\ req' = req
    BY <1>0, <1>3 DEF Placed, Arrive, Handlers
  <2>2. ~Replied(s)
    BY <1>0, NoJobParts DEF Replied
  <2>3. job' # [job EXCEPT ![s] = [NoJob EXCEPT !.at = "script"]] /\ job' # [job EXCEPT ![s] = PairJob]
    BY <1>0, NoJobParts
  <2>4. c.op \notin OfScript \cup {"pair", "pin"}
    BY <1>3, <2>2, <2>3 DEF Arrive, OfScript
  <2>5. c \in NetArgs
    BY <2>1, <2>4, AskKinds
  <2>6. job' = [job EXCEPT ![s] = [NoJob EXCEPT !.at = "net", !.todo = NetPlan(c)]]
    BY <1>3, <2>2, <2>4 DEF Arrive, OfScript
  <2>7. job'[s].todo = NetPlan(c)
    <3> DEFINE t == NetPlan(c)
    <3>1. job'[s] = [NoJob EXCEPT !.at = "net", !.todo = t]
      BY <1>0, <2>6
    <3> HIDE DEF t, c
    <3>2. job'[s].todo = t
      BY <3>1, NoJobParts
    <3> QED BY <3>2 DEF t
  <2> QED BY <1>3, <2>1, <2>5, <2>7
<1>4. CASE ~NetStep(s) /\ ~Arrive(s)
  <2>0. job[s].at # "net" => job'[s] # job[s]
    OBVIOUS
  <2>1. CASE Drop \/ AgentCrash
    <3>1. CASE Drop
      <4>1. UNCHANGED <<req, job>>
        BY <3>1, Zenon DEF Drop
      <4> QED BY <1>1, <1>4, <4>1
    <3>2. CASE AgentCrash
      <4>1. job'[s] = NoJob
        BY <3>2 DEF AgentCrash
      <4> QED BY <4>1, NoJobParts
    <3> QED BY <2>1, <3>1, <3>2
  <2>2. CASE Receive \/ Connect \/ UNCHANGED vars
    <3>1. UNCHANGED <<req, job>>
      BY <2>2 DEF Receive, Connect, vars
    <3> QED BY <1>1, <1>4, <3>1
  <2>3. ASSUME NEW x \in Requests, Begins(x)
        PROVE  job'[s] = job[s] /\ req'[s].cmd = req[s].cmd
    <3>1. job' = job /\ req[x].at = "idle" /\ \A y \in Requests : y # x => req'[y] = req[y]
      BY <1>0, <2>3 DEF Begins, Begin
    <3>2. s # x
      BY <1>0, <3>1, NoJobParts DEF Placed
    <3> QED BY <3>1, <3>2
  <2>4. ASSUME NEW x \in Requests, HangUp(x) \/ MutateDone(x) \/ UnaryDone(x) \/ Timeout(x)
        PROVE  job'[s] = job[s] /\ req'[s].cmd = req[s].cmd
    <3>1. job' = job /\ \E how : Ends(x, how)
      BY <2>4 DEF HangUp, MutateDone, UnaryDone, Timeout
    <3> QED BY <1>0, <3>1 DEF Ends, Handlers
  <2>5. ASSUME NEW x \in Requests, WriteEvent(x)
        PROVE  job'[s] = job[s] /\ req'[s].cmd = req[s].cmd
    BY <2>5 DEF WriteEvent
  <2>6. ASSUME NEW x \in Requests, x # s,
               \/ Arrive(x) \/ PrintLine(x) \/ RunScript(x) \/ ReadUsers(x)
               \/ BtLine(x) \/ BtAsks(x) \/ TypePin(x) \/ WaitEnds(x) \/ Quit(x) \/ PairDone(x)
               \/ NetStep(x) \/ NetDone(x)
        PROVE  job'[s] = job[s] /\ req'[s].cmd = req[s].cmd
    <3>1. req' = req
      BY <2>6 DEF Arrive, PrintLine, RunScript, ReadUsers, BtLine, BtAsks, TypePin, WaitEnds, Quit, PairDone,
                  NetStep, NetDone
    <3>2. CASE Arrive(x) \/ RunScript(x) \/ ReadUsers(x) \/ NetStep(x) \/ NetDone(x)
      <4>1. \E j : job' = [job EXCEPT ![x] = j]
        BY <3>2 DEF Arrive, RunScript, ReadUsers, NetStep, NetDone, Replied
      <4> QED BY <1>0, <2>6, <3>1, <4>1
    <3>3. CASE \/ PrintLine(x) \/ BtLine(x) \/ BtAsks(x) \/ TypePin(x) \/ WaitEnds(x) \/ Quit(x) \/ PairDone(x)
      BY <1>0, <2>6, <3>1, <3>3 DEF PrintLine, BtLine, BtAsks, TypePin, WaitEnds, Quit, PairDone
    <3> QED BY <2>6, <3>2, <3>3
  <2>7. ASSUME \/ PrintLine(s) \/ RunScript(s) \/ ReadUsers(s)
               \/ BtLine(s) \/ BtAsks(s) \/ TypePin(s) \/ WaitEnds(s) \/ Quit(s) \/ PairDone(s) \/ NetDone(s)
        PROVE  FALSE
    <3>1. CASE RunScript(s) \/ ReadUsers(s) \/ NetDone(s)
      BY <1>0, <3>1, NoJobParts DEF RunScript, ReadUsers, NetDone, Replied
    <3>2. CASE PrintLine(s)
      BY <1>0, <3>2 DEF PrintLine, Jobs
    <3>3. CASE PairDone(s)
      BY <1>0, <3>3 DEF PairDone, Jobs
    <3>4. CASE Quit(s)
      BY <1>0, <3>4 DEF Quit, Jobs
    <3>5. CASE BtLine(s) \/ BtAsks(s) \/ TypePin(s) \/ WaitEnds(s)
      <4>1. job[s].scan # "none"
        BY <3>5 DEF BtLine, BtAsks, TypePin, WaitEnds
      <4>2. job[s].at # "net"
        BY <1>0, <4>1 DEF Placed
      <4>3. job'[s].at = job[s].at
        BY <1>0, <3>5 DEF BtLine, BtAsks, TypePin, WaitEnds, Jobs
      <4> QED BY <4>2, <4>3
    <3> QED BY <2>7, <3>1, <3>2, <3>3, <3>4, <3>5
  <2> QED BY <1>1, <1>4, <2>1, <2>2, <2>3, <2>4, <2>5, <2>6, <2>7, Steps
<1> QED BY <1>2, <1>3, <1>4

LEMMA AlongsideStep ==
  ASSUME ReqTypes, PlaceInv, AlongsideInv, [Next]_vars
  PROVE  AlongsideInv'
<1> SUFFICES ASSUME NEW s \in Requests, job'[s].at = "net", req'[s].cmd.op = "alongside"
             PROVE  job'[s].todo \in Seq(AlongsideCmds(req'[s].cmd))
  BY DEF AlongsideInv
<1>1. /\ req'[s].cmd = req[s].cmd /\ req[s].cmd \in NetArgs
      /\ \/ job[s].at = "net" /\ job'[s].todo = job[s].todo
         \/ NetStep(s) /\ job[s].at = "net" /\ job'[s].todo = Tail(job[s].todo)
         \/ Arrive(s) /\ job'[s].todo = NetPlan(req[s].cmd)
  BY NetJobs
<1> DEFINE S == AlongsideCmds(req[s].cmd)
<1>2. AlongsideCmds(req'[s].cmd) = S
  BY <1>1
<1>3. CASE job[s].at = "net" /\ job'[s].todo = job[s].todo
  BY <1>1, <1>3 DEF AlongsideInv
<1>4. CASE NetStep(s) /\ job[s].at = "net" /\ job'[s].todo = Tail(job[s].todo)
  <2>1. job[s].todo \in Seq(S) /\ job[s].todo # << >>
    BY <1>1, <1>4, NetCommand DEF AlongsideInv
  <2> HIDE DEF S
  <2>2. Tail(job[s].todo) \in Seq(S)
    BY <2>1, SeqFacts
  <2> QED BY <1>2, <1>4, <2>2
<1>5. CASE Arrive(s) /\ job'[s].todo = NetPlan(req[s].cmd)
  BY <1>1, <1>5, AlongsidePlan DEF ReqTypes
<1> QED BY <1>1, <1>3, <1>4, <1>5

\* The step that PrimaryKept is about.
LEMMA PrimaryStep ==
  ASSUME ReqTypes, PlaceInv, NetShape, AlongsideInv, [Next]_vars,
         NEW s \in Requests, req[s].cmd.op = "alongside", job[s].at = "net", job'[s] # job[s]
  PROVE  net'.wifi = net.wifi
<1>0. /\ job \in [Requests -> Jobs] /\ req[s].cmd \in NetArgs
  BY DEF ReqTypes, PlaceInv, Placed
<1>1. CASE net' = net
  BY <1>1
<1>2. ASSUME NEW r \in Requests, NetStep(r)
      PROVE  net'.wifi = net.wifi
  <2>1. job' = [job EXCEPT ![r].todo = Tail(@)] \/ Replied(r)
    BY <1>2 DEF NetStep
  <2>2. r = s
    <3>1. CASE job' = [job EXCEPT ![r].todo = Tail(@)]
      BY <1>0, <3>1
    <3>2. CASE Replied(r)
      BY <1>0, <3>2 DEF Replied
    <3> QED BY <2>1, <3>1, <3>2
  <2>3. job[s].todo \in Seq(AlongsideCmds(req[s].cmd)) /\ job[s].todo # << >>
    BY <1>2, <2>2, NetCommand DEF AlongsideInv
  <2> DEFINE S == AlongsideCmds(req[s].cmd)
  <2>4. Head(job[s].todo) \in S
    <3>1. job[s].todo \in Seq(S)
      BY <2>3
    <3> HIDE DEF S
    <3> QED BY <2>3, <3>1, SeqFacts
  <2>5. net' = net \/ net' \in After(net, Head(job[s].todo))
    BY <1>2, <2>2, NetCommand
  <2>6. CASE net' \in After(net, Head(job[s].todo))
    <3>1. PICK a \in NetArgs, c \in S, m \in After(net, Head(job[s].todo)) :
            a = req[s].cmd /\ c = Head(job[s].todo) /\ m = net'
      BY <1>0, <2>4, <2>6
    <3>2. c \in AlongsideCmds(a) /\ m \in After(net, c) /\ a.op = "alongside"
      BY <3>1
    <3>3. m.wifi = net.wifi
      BY <3>2, AlongsideKeeps
    <3> QED BY <3>1, <3>3
  <2> QED BY <1>1, <2>5, <2>6
<1> QED BY <1>1, <1>2, NetUntouched

-----------------------------------------------------------------------------
(***************************************************************************)
(* While nothing goes wrong, network changes are asked for, run and        *)
(* answered one by one.                                                    *)
(***************************************************************************)
\* Nobody waits, and nothing runs.
AllOver == \A r \in Requests : req[r].at \in Over /\ job[r].at \in {"none", "replied"}

LEMMA CalmSteps ==
  ASSUME ReqTypes, PlaceInv, AskInv, [Next]_vars, Calm'
  PROVE  /\ Calm
         /\ \/ Receive \/ Connect \/ UNCHANGED vars
            \/ \E r \in Requests :
                 \/ Begins(r) /\ AllOver
                 \/ Timeout(r) /\ Silent(r)
                 \/ Arrive(r) \/ WriteEvent(r) \/ UnaryDone(r) \/ NetStep(r) \/ NetDone(r)
<1>0. /\ faults \in Nat /\ faults' = 0 /\ family' = "net"
      /\ \A r \in Requests : Placed(r) /\ Asking(r)
  BY DEF ReqTypes, PlaceInv, AskInv, Calm
<1>1. ~Fault
  BY <1>0 DEF Fault
<1>2. ~Drop /\ ~AgentCrash /\ \A r \in Requests : ~HangUp(r)
  <2>1. ~Drop
    BY <1>1, Zenon DEF Drop
  <2>2. ~AgentCrash
    BY <1>1, Zenon DEF AgentCrash
  <2>3. \A r \in Requests : ~HangUp(r)
    BY <1>1, Zenon DEF HangUp
  <2> QED BY <2>1, <2>2, <2>3
<1>3. ASSUME NEW r \in Requests, NEW ms \in Seq(Events), SendDirect(r, ms)
      PROVE  faults = 0
  BY <1>0, <1>3, Sending DEF ReqTypes
<1>4. ASSUME NEW r \in Requests, MutateDone(r)
      PROVE  FALSE
  BY <1>0, <1>4 DEF MutateDone, Placed, OfScript
<1>5. ASSUME NEW r \in Requests, PrintLine(r) \/ RunScript(r) \/ ReadUsers(r)
      PROVE  FALSE
  <2>1. family = "tools"
    BY <1>0, <1>5 DEF PrintLine, RunScript, ReadUsers, Placed
  <2>2. family' = family
    BY <1>5 DEF PrintLine, RunScript, ReadUsers
  <2> QED BY <1>0, <2>1, <2>2
<1>6. ASSUME NEW r \in Requests, BtLine(r) \/ BtAsks(r) \/ TypePin(r) \/ WaitEnds(r) \/ Quit(r) \/ PairDone(r)
      PROVE  FALSE
  <2>1. job[r].scan # "none" \/ job[r].at = "pair"
    BY <1>6 DEF BtLine, BtAsks, TypePin, WaitEnds, Quit, PairDone
  <2>2. family = "pair"
    BY <1>0, <2>1 DEF Placed, Asking
  <2>3. family' = family
    BY <1>6 DEF BtLine, BtAsks, TypePin, WaitEnds, Quit, PairDone
  <2> QED BY <1>0, <2>2, <2>3
<1>7. ASSUME NEW r \in Requests, Begins(r)
      PROVE  faults = 0 /\ family' = family /\ AllOver
  <2>1. PICK cmd \in Asks : Fits(cmd) /\ Begin(r, cmd)
    BY <1>7 DEF Begins
  <2>2. family' = family /\ Midway(cmd)
    BY <2>1 DEF Begin
  <2>3. cmd.op # "pin"
    BY <1>0, <2>1, <2>2 DEF Fits
  <2> QED BY <1>0, <1>1, <2>2, <2>3 DEF Midway, AllOver
<1>8. ASSUME NEW r \in Requests, Timeout(r)
      PROVE  faults = 0 /\ family' = family /\ Silent(r)
  BY <1>0, <1>1, <1>8 DEF Timeout
<1>9. ASSUME NEW r \in Requests, Arrive(r)
      PROVE  faults = 0 /\ family' = family
  <2>1. faults' = faults \/ \E ms \in Seq(Events) : SendDirect(r, ms)
    BY <1>9, Contented DEF Arrive, Deliver, Statuses
  <2> QED BY <1>0, <1>3, <1>9, <2>1 DEF Arrive
<1>10. ASSUME NEW r \in Requests, NetStep(r) \/ NetDone(r)
       PROVE  faults = 0 /\ family' = family
  <2>1. faults' = faults \/ \E ms \in Seq(Events) : SendDirect(r, ms)
    BY <1>10, Contented DEF NetStep, NetDone, Statuses
  <2> QED BY <1>0, <1>3, <1>10, <2>1 DEF NetStep, NetDone
<1>11. ASSUME NEW r \in Requests, WriteEvent(r) \/ UnaryDone(r)
       PROVE  faults = 0 /\ family' = family
  BY <1>0, <1>11 DEF WriteEvent, UnaryDone
<1>12. ASSUME Receive \/ Connect \/ UNCHANGED vars
       PROVE  faults = 0 /\ family' = family
  BY <1>0, <1>12 DEF Receive, Connect, vars
<1> QED
  BY <1>0, <1>2, <1>4, <1>5, <1>6, <1>7, <1>8, <1>9, <1>10, <1>11, <1>12, Steps DEF Calm

LEMMA OutSends ==
  ASSUME ReqTypes, NEW x \in Requests, NEW ms \in Seq(Events), SendDirect(x, ms),
         UNCHANGED <<req, box>>, NEW r \in Requests, r # x, Out(r)'
  PROVE  Out(r)
<1>1. /\ up \in Seq(Messages) /\ Len(up) <= DirectCap /\ missed \in [Requests -> BOOLEAN] /\ faults \in Nat
  BY DEF ReqTypes
<1>2. /\ up' \in Seq(Messages) /\ Len(up) <= Len(up')
      /\ \A i \in 1..Len(up) : up'[i] = up[i]
      /\ \A i \in (Len(up) + 1)..Len(up') : up'[i].id = x
  BY <1>1, Sending
<1>3. Len(up) \in Nat /\ DOMAIN up = 1..Len(up) /\ Len(up') \in Nat /\ DOMAIN up' = 1..Len(up')
  BY <1>1, <1>2, SeqFacts
<1>4. ASSUME NEW i \in DOMAIN up', up'[i].id = r, up'[i].kind = "result"
      PROVE  Out(r)
  <2>1. ~(i \in (Len(up) + 1)..Len(up'))
    BY <1>2, <1>4
  <2>2. i \in 1..Len(up)
    BY <1>3, <1>4, <2>1
  <2> QED BY <1>2, <1>3, <1>4, <2>2 DEF Out
<1> QED BY <1>4 DEF Out

\* What was taken from the stream is known.
LEMMA OutReceived ==
  ASSUME ReqTypes, Receive, NEW r \in Requests, Out(r)'
  PROVE  Out(r)
<1>1. /\ Len(up) \in Nat /\ DOMAIN up = 1..Len(up) /\ Len(up) > 0 /\ up # << >>
      /\ Head(up) = up[1] /\ Head(up) \in Messages /\ Tail(up) \in Seq(Messages) /\ Len(Tail(up)) = Len(up) - 1
      /\ \A i \in 1..(Len(up) - 1) : Tail(up)[i] = up[i + 1]
  BY SeqFacts DEF ReqTypes, Receive
<1>2. DOMAIN Tail(up) = 1..(Len(up) - 1) /\ up' = Tail(up) /\ req' = req
  BY <1>1, SeqFacts DEF Receive
<1>3. ASSUME NEW i \in DOMAIN up', up'[i].id = r, up'[i].kind = "result"
      PROVE  Out(r)
  <2>1. i + 1 \in DOMAIN up /\ up'[i] = up[i + 1]
    BY <1>1, <1>2, <1>3
  <2> QED BY <1>3, <2>1 DEF Out
<1>4. ASSUME box'[r].res # None
      PROVE  Out(r)
  <2> DEFINE m == Head(up)
             e == [kind |-> m.kind, data |-> m.data]
  <2>1. box \in [Requests -> Mailboxes] /\ m.id \in Requests
    BY <1>1 DEF ReqTypes, Messages
  <2>2. CASE m.kind = "result"
    <3>1. Resolve(m.id, m.data)
      BY <2>2 DEF Receive
    <3>2. box'[r].res = box[r].res \/ m.id = r
      BY <2>1, <3>1 DEF Resolve, Mailboxes
    <3>3. 1 \in DOMAIN up
      BY <1>1
    <3> QED BY <1>1, <1>4, <2>2, <3>2, <3>3 DEF Out
  <2>3. CASE m.kind # "result"
    <3>1. PushEvent(m.id, e)
      BY <2>3 DEF Receive
    <3>2. box' = box \/ \E l : box' = [box EXCEPT ![m.id].logs = l]
      BY <3>1 DEF PushEvent
    <3>3. box'[r].res = box[r].res
      <4>1. CASE box' = box
        BY <4>1
      <4>2. ASSUME NEW i \in Requests, NEW l, box' = [box EXCEPT ![i].logs = l]
            PROVE  box'[r].res = box[r].res
        BY <2>1, <4>2 DEF Mailboxes
      <4> HIDE DEF m
      <4> QED BY <2>1, <3>2, <4>1, <4>2
    <3> QED BY <1>4, <3>3 DEF Out
  <2> QED BY <2>2, <2>3
<1> QED BY <1>2, <1>3, <1>4 DEF Out

LEMMA RestFrame ==
  ASSUME NEW r \in Requests, Out(r) => AtRest(r), Out(r)' => Out(r), job'[r].at = job[r].at, r \in down' => r \in down
  PROVE  Out(r)' => AtRest(r)'
BY DEF AtRest

LEMMA SerialStep ==
  ASSUME ReqTypes, PlaceInv, AskInv, SerialInv, [Next]_vars
  PROVE  SerialInv'
<1> SUFFICES ASSUME Calm'
             PROVE  /\ \A r \in Requests : Out(r)' => AtRest(r)'
                    /\ \A r, s \in Requests : r < s /\ req'[s].at # "idle" => req'[r].at = "done"
  BY DEF SerialInv
<1>0. /\ req \in [Requests -> Handlers] /\ job \in [Requests -> Jobs] /\ box \in [Requests -> Mailboxes]
      /\ \A r \in Requests : Placed(r)
      /\ \A r \in Requests : Out(r) => AtRest(r)
      /\ \A r, s \in Requests : r < s /\ req[s].at # "idle" => req[r].at = "done"
      /\ Requests = 1..MaxRequests /\ MaxRequests \in Nat
  BY CalmSteps, Numbers DEF ReqTypes, PlaceInv, SerialInv
<1>1. CASE Receive
  <2>1. UNCHANGED <<req, job, down>>
    BY <1>1 DEF Receive
  <2> QED BY <1>0, <1>1, <2>1, OutReceived, RestFrame
<1>2. CASE Connect \/ UNCHANGED vars
  BY <1>0, <1>2 DEF Connect, vars, link, history, Out, AtRest
<1>3. ASSUME NEW x \in Requests, Begins(x), AllOver
      PROVE  /\ \A r \in Requests : Out(r)' => AtRest(r)'
             /\ \A r, s \in Requests : r < s /\ req'[s].at # "idle" => req'[r].at = "done"
  <2>1. PICK cmd \in Asks : Begin(x, cmd)
    BY <1>3 DEF Begins
  <2>2. /\ req[x].at = "idle" /\ \A s \in 1..(x - 1) : req[s].at # "idle"
        /\ req' = [req EXCEPT ![x] = [at |-> IF conn THEN "wait" ELSE "done", cmd |-> cmd,
                                      end |-> IF conn THEN None ELSE "offline"]]
        /\ box' = [box EXCEPT ![x].open = conn]
        /\ down' = IF conn THEN down \cup {x} ELSE down
        /\ UNCHANGED <<up, job>>
    BY <2>1 DEF Begin
  <2>3. /\ \A r \in Requests : r # x => req'[r] = req[r]
        /\ req'[x].at = (IF conn THEN "wait" ELSE "done")
        /\ \A r \in Requests : box'[r].res = box[r].res
    BY <1>0, <2>2 DEF Mailboxes
  <2>4. ASSUME NEW r \in Requests
        PROVE  Out(r)' => AtRest(r)'
    <3>1. CASE r # x
      <4>1. Out(r)' => Out(r)
        BY <2>2, <2>3, <3>1 DEF Out
      <4>2. r \in down' => r \in down
        BY <2>2, <3>1
      <4> QED BY <1>0, <2>2, <4>1, <4>2, RestFrame
    <3>2. CASE r = x /\ conn
      <4>1. box[x].res = None /\ Quiet(x)
        BY <1>0, <2>2, ClosedParts DEF Placed
      <4>2. ~Out(x)'
        BY <2>2, <2>3, <3>2, <4>1 DEF Out, Quiet
      <4> QED BY <3>2, <4>2
    <3>3. CASE r = x /\ ~conn
      <4>1. x \notin down /\ job[x] = NoJob
        BY <1>0, <2>2 DEF Placed
      <4> QED BY <2>2, <3>3, <4>1, NoJobParts DEF AtRest
    <3> QED BY <3>1, <3>2, <3>3
  <2>5. ASSUME NEW r \in Requests, NEW s \in Requests, r < s, req'[s].at # "idle"
        PROVE  req'[r].at = "done"
    <3>1. CASE s = x
      <4>1. r \in 1..(x - 1) /\ r # x
        BY <1>0, <2>5, <3>1
      <4>2. req[r].at # "idle" /\ req[r].at \in Over
        BY <1>3, <2>2, <4>1 DEF AllOver
      <4> QED BY <2>3, <4>1, <4>2 DEF Over
    <3>2. CASE s # x
      <4>1. req[r].at = "done"
        BY <1>0, <2>3, <2>5, <3>2
      <4> QED BY <2>2, <2>3, <4>1
    <3> QED BY <3>1, <3>2
  <2> QED BY <2>4, <2>5
<1>4. ASSUME NEW x \in Requests, UnaryDone(x) \/ (Timeout(x) /\ Silent(x))
      PROVE  /\ \A r \in Requests : Out(r)' => AtRest(r)'
             /\ \A r, s \in Requests : r < s /\ req'[s].at # "idle" => req'[r].at = "done"
  <2>1. PICK how : Ends(x, how)
    BY <1>4 DEF UnaryDone, Timeout
  <2>2. req[x].at = "wait" /\ box' = [box EXCEPT ![x] = Closed] /\ UNCHANGED <<up, job, down>>
    BY <1>4 DEF UnaryDone, Timeout, link
  <2>3. /\ \A r \in Requests : r # x => req'[r] = req[r] /\ box'[r] = box[r]
        /\ req'[x].at = "done"
    BY <1>0, <2>1, <2>2 DEF Ends, Handlers
  <2>4. AtRest(x)
    BY <1>0, <1>4 DEF UnaryDone, Out, AtRest, Silent
  <2>5. ASSUME NEW r \in Requests
        PROVE  Out(r)' => AtRest(r)'
    <3>1. CASE r # x
      <4>1. Out(r)' => Out(r)
        BY <2>2, <2>3, <3>1 DEF Out
      <4> QED BY <1>0, <2>2, <4>1, RestFrame
    <3>2. CASE r = x
      BY <2>2, <2>4, <3>2 DEF AtRest
    <3> QED BY <3>1, <3>2
  <2> QED BY <1>0, <2>2, <2>3, <2>5
<1>5. ASSUME NEW x \in Requests, WriteEvent(x)
      PROVE  /\ \A r \in Requests : Out(r)' => AtRest(r)'
             /\ \A r, s \in Requests : r < s /\ req'[s].at # "idle" => req'[r].at = "done"
  <2>1. box' = [box EXCEPT ![x].logs = Tail(@)] /\ UNCHANGED <<up, down, req, job>>
    BY <1>5 DEF WriteEvent, link
  <2>2. \A r \in Requests : box'[r].res = box[r].res
    BY <1>0, <2>1 DEF Mailboxes
  <2>3. \A r \in Requests : Out(r)' => Out(r)
    BY <2>1, <2>2 DEF Out
  <2> QED BY <1>0, <2>1, <2>3, RestFrame
<1>6. ASSUME NEW x \in Requests, UNCHANGED <<req, box>>, ~AtRest(x), down' \subseteq down, x \notin down',
             NEW j, job' = [job EXCEPT ![x] = j],
             UNCHANGED up \/ (j.at = "replied" /\ \E ms \in Seq(Events) : SendDirect(x, ms))
      PROVE  /\ \A r \in Requests : Out(r)' => AtRest(r)'
             /\ \A r, s \in Requests : r < s /\ req'[s].at # "idle" => req'[r].at = "done"
  <2>1. ASSUME NEW r \in Requests
        PROVE  Out(r)' => AtRest(r)'
    <3>1. CASE r # x
      <4>1. Out(r)' => Out(r)
        <5>1. CASE UNCHANGED up
          BY <1>6, <5>1 DEF Out
        <5>2. CASE \E ms \in Seq(Events) : SendDirect(x, ms)
          BY <1>6, <3>1, <5>2, OutSends
        <5> QED BY <1>6, <5>1, <5>2
      <4>2. job'[r] = job[r]
        BY <1>0, <1>6, <3>1
      <4> QED BY <1>0, <1>6, <4>1, <4>2, RestFrame
    <3>2. CASE r = x /\ UNCHANGED up
      <4>1. Out(r)' => Out(r)
        BY <1>6, <3>2 DEF Out
      <4> QED BY <1>0, <1>6, <3>2, <4>1
    <3>3. CASE r = x /\ j.at = "replied"
      <4>1. job'[r].at = "replied"
        BY <1>0, <1>6, <3>3
      <4> QED BY <1>6, <3>3, <4>1 DEF AtRest
    <3> QED BY <1>6, <3>1, <3>2, <3>3
  <2> QED BY <1>0, <1>6, <2>1
<1>7. ASSUME NEW x \in Requests, Arrive(x)
      PROVE  /\ \A r \in Requests : Out(r)' => AtRest(r)'
             /\ \A r, s \in Requests : r < s /\ req'[s].at # "idle" => req'[r].at = "done"
  <2>1. /\ x \in down /\ down' = down \ {x} /\ UNCHANGED <<req, box>>
    BY <1>7 DEF Arrive
  <2>2. ~AtRest(x)
    BY <2>1 DEF AtRest
  <2>3. \/ Replied(x) /\ \E ms \in Seq(Events) : SendDirect(x, ms)
        \/ UNCHANGED up /\ \E j : job' = [job EXCEPT ![x] = j]
    BY <1>7, Contented DEF Arrive, Deliver, Statuses
  <2>4. Replied(x) => \E j : j.at = "replied" /\ job' = [job EXCEPT ![x] = j]
    BY NoJobParts DEF Replied
  <2> QED BY <1>6, <2>1, <2>2, <2>3, <2>4
<1>8. ASSUME NEW x \in Requests, NetStep(x) \/ NetDone(x)
      PROVE  /\ \A r \in Requests : Out(r)' => AtRest(r)'
             /\ \A r, s \in Requests : r < s /\ req'[s].at # "idle" => req'[r].at = "done"
  <2>1. /\ job[x].at = "net" /\ down' = down /\ UNCHANGED <<req, box>>
    BY <1>8 DEF NetStep, NetDone
  <2>2. ~AtRest(x) /\ x \notin down
    BY <1>0, <2>1 DEF AtRest, Placed
  <2>3. \/ Replied(x) /\ \E ms \in Seq(Events) : SendDirect(x, ms)
        \/ UNCHANGED up /\ job' = [job EXCEPT ![x].todo = Tail(@)]
    BY <1>8, Contented DEF NetStep, NetDone, Statuses
  <2>4. Replied(x) => \E j : j.at = "replied" /\ job' = [job EXCEPT ![x] = j]
    BY NoJobParts DEF Replied
  <2>5. job' = [job EXCEPT ![x].todo = Tail(@)] => \E j : job' = [job EXCEPT ![x] = j]
    OBVIOUS
  <2> QED BY <1>6, <2>1, <2>2, <2>3, <2>4, <2>5
<1> QED
  BY <1>1, <1>2, <1>3, <1>4, <1>5, <1>7, <1>8, CalmSteps

\* Who works is the only one.
LEMMA OneAtWork ==
  ASSUME ReqTypes, PlaceInv, SerialInv, Calm, NEW r \in Requests, NEW s \in Requests,
         job[r].at = "net", job[s].at = "net"
  PROVE  r = s
<1>1. /\ Placed(r) /\ Placed(s) /\ r \in Nat /\ s \in Nat
      /\ (Out(r) => AtRest(r)) /\ (Out(s) => AtRest(s))
      /\ r < s /\ req[s].at # "idle" => req[r].at = "done"
      /\ s < r /\ req[r].at # "idle" => req[s].at = "done"
  BY Numbers DEF PlaceInv, SerialInv
<1>2. req[r].at # "idle" /\ req[s].at # "idle"
  BY <1>1, WorkersBegun
<1>3. ~AtRest(r) /\ ~AtRest(s)
  BY DEF AtRest
<1>4. req[r].at # "done" /\ req[s].at # "done"
  BY <1>1, <1>3 DEF Out
<1>5. ~(r < s) /\ ~(s < r)
  BY <1>1, <1>2, <1>4
<1> QED BY <1>1, <1>5

-----------------------------------------------------------------------------
(***************************************************************************)
(* What a command of a wired change does.                                  *)
(***************************************************************************)
LEMMA WireRuns ==
  ASSUME NetShape, NEW a \in NetArgs, a.op = "wired", NEW c \in Cmds, WireCmd(a, c), NEW m \in After(net, c)
  PROVE  /\ m.profile.dhcp = (IF SetsDhcp(c) THEN a.dhcp ELSE net.profile.dhcp)
         /\ ~a.dhcp => m.profile.addr = (IF SetsAddr(c) THEN a.addr ELSE net.profile.addr)
         /\ m.dev = (IF c.k = "wired-up" THEN net.profile ELSE net.dev)
<1>0. /\ DOMAIN net = NetParts /\ DOMAIN net.profile = {"dhcp", "addr", "gw"}
      /\ "profile" \in NetParts /\ "dev" \in NetParts
  BY DEF NetShape, ShapeOf, NetParts
<1>1. CASE c.k = "nm-modify"
  <2>1. m = [net EXCEPT !.profile = NmModify(@, c.val)] /\ c.val = a
    BY <1>1 DEF After, WireCmd
  <2>2. m.profile = NmModify(net.profile, a) /\ m.dev = net.dev
    BY <1>0, <2>1
  <2>3. NmModify(net.profile, a).dhcp = a.dhcp /\ NmModify(net.profile, a).addr = a.addr
    BY DEF NmModify
  <2> QED BY <1>1, <2>2, <2>3 DEF SetsDhcp, SetsAddr
<1>2. CASE c.k = "np-set"
  <2>1. m = [net EXCEPT !.profile = [@ EXCEPT ![c.name] = c.val]] /\ c.name \in {"dhcp", "addr", "gw"}
    BY <1>2, CmdTypes DEF After, Harmless
  <2>2. m.profile = [net.profile EXCEPT ![c.name] = c.val] /\ m.dev = net.dev
    BY <1>0, <2>1
  <2>3. /\ m.profile.dhcp = IF c.name = "dhcp" THEN c.val ELSE net.profile.dhcp
        /\ m.profile.addr = IF c.name = "addr" THEN c.val ELSE net.profile.addr
    BY <1>0, <2>1, <2>2
  <2> QED BY <1>2, <2>2, <2>3 DEF SetsDhcp, SetsAddr, WireCmd
<1>3. CASE c.k = "wired-up"
  <2>1. m = [net EXCEPT !.dev = net.profile]
    BY <1>3 DEF After
  <2>2. m.profile = net.profile /\ m.dev = net.profile
    BY <1>0, <2>1
  <2> QED BY <1>3, <2>2 DEF SetsDhcp, SetsAddr
<1> QED BY <1>1, <1>2, <1>3 DEF WireCmd, WireKinds

\* After one command of it the rest still does the rest.
LEMMA WireTail ==
  ASSUME NEW a, NEW todo \in Seq(Cmds), todo # << >>, NEW p, NEW d, NEW p2, NEW d2,
         WireTodo(a, todo, p, d),
         \/ ~todo[1].must /\ p2 = p /\ d2 = d
         \/ /\ p2.dhcp = (IF SetsDhcp(todo[1]) THEN a.dhcp ELSE p.dhcp)
            /\ ~a.dhcp => p2.addr = (IF SetsAddr(todo[1]) THEN a.addr ELSE p.addr)
            /\ d2 = (IF todo[1].k = "wired-up" THEN p ELSE d)
  PROVE  WireTodo(a, Tail(todo), p2, d2)
<1> DEFINE rest == Tail(todo)
<1>1. /\ Len(todo) \in Nat /\ DOMAIN todo = 1..Len(todo) /\ Len(todo) > 0
      /\ rest \in Seq(Cmds) /\ Len(rest) = Len(todo) - 1
      /\ \A i \in 1..(Len(todo) - 1) : rest[i] = todo[i + 1]
  BY SeqFacts
<1>2. DOMAIN rest = 1..(Len(todo) - 1)
  BY <1>1, SeqFacts
<1>3. \A i \in DOMAIN rest : i + 1 \in DOMAIN todo /\ rest[i] = todo[i + 1]
  BY <1>1, <1>2
<1>4. 1 \in DOMAIN todo /\ \A i \in DOMAIN todo : i = 1 \/ (i - 1 \in DOMAIN rest /\ rest[i - 1] = todo[i])
  BY <1>1, <1>2
<1>5. rest = << >> => Len(todo) = 1
  <2> HIDE DEF rest
  <2>1. rest = << >> => Len(rest) = 0
    OBVIOUS
  <2>2. Len(todo) \in Nat /\ Len(rest) = Len(todo) - 1
    BY <1>1
  <2>3. Len(rest) = 0 => Len(todo) = 1
    BY ONLY <2>2
  <2> QED BY <2>1, <2>3
<1>6. /\ \A i \in DOMAIN todo : WireCmd(a, todo[i])
      /\ \A i \in DOMAIN todo : todo[i].k = "wired-up" <=> i = Len(todo)
      /\ p.dhcp = a.dhcp \/ \E i \in DOMAIN todo : SetsDhcp(todo[i])
      /\ a.dhcp \/ p.addr = a.addr \/ \E i \in DOMAIN todo : SetsAddr(todo[i])
  BY DEF WireTodo
<1> HIDE DEF rest
<1>7. \A i \in DOMAIN rest : WireCmd(a, rest[i])
  BY <1>3, <1>6
<1>8. \A i \in DOMAIN rest : rest[i].k = "wired-up" <=> i = Len(rest)
  BY <1>1, <1>2, <1>3, <1>6
<1>9. p2.dhcp = a.dhcp \/ \E i \in DOMAIN rest : SetsDhcp(rest[i])
  <2>1. CASE p.dhcp = a.dhcp \/ SetsDhcp(todo[1])
    <3>1. SetsDhcp(todo[1]) => todo[1].must
      BY <1>4, <1>6 DEF SetsDhcp, WireCmd
    <3> QED BY <2>1, <3>1
  <2>2. CASE \E i \in DOMAIN todo : i # 1 /\ SetsDhcp(todo[i])
    BY <1>4, <2>2
  <2> QED BY <1>6, <2>1, <2>2
<1>10. a.dhcp \/ p2.addr = a.addr \/ \E i \in DOMAIN rest : SetsAddr(rest[i])
  <2> SUFFICES ASSUME ~a.dhcp
               PROVE  p2.addr = a.addr \/ \E i \in DOMAIN rest : SetsAddr(rest[i])
    OBVIOUS
  <2>1. CASE p.addr = a.addr \/ SetsAddr(todo[1])
    <3>1. SetsAddr(todo[1]) => todo[1].must
      BY <1>4, <1>6 DEF SetsAddr, WireCmd
    <3> QED BY <2>1, <3>1
  <2>2. CASE \E i \in DOMAIN todo : i # 1 /\ SetsAddr(todo[i])
    BY <1>4, <2>2
  <2> QED BY <1>6, <2>1, <2>2
<1>11. rest = << >> => d2.dhcp = a.dhcp /\ (~a.dhcp => d2.addr = a.addr)
  <2> SUFFICES ASSUME rest = << >>
               PROVE  d2.dhcp = a.dhcp /\ (~a.dhcp => d2.addr = a.addr)
    OBVIOUS
  <2>1. Len(todo) = 1 /\ todo[1].k = "wired-up" /\ WireCmd(a, todo[1])
    BY <1>4, <1>5, <1>6
  <2>2. todo[1].must /\ d2 = p
    BY <2>1 DEF WireCmd
  <2>3. \A i \in DOMAIN todo : ~SetsDhcp(todo[i]) /\ ~SetsAddr(todo[i])
    BY <1>1, <2>1 DEF SetsDhcp, SetsAddr
  <2> QED BY <1>6, <2>2, <2>3
<1>12. WireTodo(a, rest, p2, d2)
  BY <1>7, <1>8, <1>9, <1>10, <1>11 DEF WireTodo
<1> QED BY <1>12 DEF rest

LEMMA WorkStep ==
  ASSUME ReqTypes, PlaceInv, AskInv, NetShape, SerialInv, WorkInv, [Next]_vars
  PROVE  WorkInv'
<1> SUFFICES ASSUME Calm', NEW s \in Requests, job'[s].at = "net"
             PROVE  IF req'[s].cmd.op = "wired"
                    THEN WireTodo(req'[s].cmd, job'[s].todo, net'.profile, net'.dev)
                    ELSE \A i \in DOMAIN job'[s].todo : job'[s].todo[i].k \notin WireKinds
  BY DEF WorkInv
<1> DEFINE a == req[s].cmd
           Good(todo, n) == IF a.op = "wired" THEN WireTodo(a, todo, n.profile, n.dev)
                            ELSE \A i \in DOMAIN todo : todo[i].k \notin WireKinds
<1>0. Calm /\ job \in [Requests -> Jobs] /\ backend \in {"nm", "netplan"}
  BY CalmSteps DEF ReqTypes
<1>1. /\ req'[s].cmd = a /\ a \in NetArgs
      /\ \/ job[s].at = "net" /\ job'[s].todo = job[s].todo /\ ~NetStep(s)
         \/ NetStep(s) /\ job[s].at = "net" /\ job'[s].todo = Tail(job[s].todo)
         \/ Arrive(s) /\ job'[s].todo = NetPlan(a)
  BY NetJobs
<1>2. job[s].at = "net" => Good(job[s].todo, net)
  BY <1>0 DEF WorkInv
<1>3. CASE job[s].at = "net" /\ job'[s].todo = job[s].todo /\ ~NetStep(s)
  <2>1. net' = net
    <3>1. ASSUME NEW r \in Requests, NetStep(r)
          PROVE  FALSE
      <4>1. job[r].at = "net"
        BY <3>1 DEF NetStep
      <4>2. r = s
        BY <1>0, <1>3, <4>1, OneAtWork
      <4> QED BY <1>3, <3>1, <4>2
    <3> QED BY <3>1, NetUntouched
  <2>2. Good(job'[s].todo, net')
    BY <1>2, <1>3, <2>1
  <2> QED BY <1>1, <2>2
<1>4. CASE NetStep(s) /\ job[s].at = "net" /\ job'[s].todo = Tail(job[s].todo)
  <2> DEFINE todo == job[s].todo
             c == Head(todo)
  <2>1. /\ todo \in Seq(Cmds) /\ todo # << >> /\ c \in Cmds /\ c = todo[1]
        /\ Len(todo) \in Nat /\ DOMAIN todo = 1..Len(todo) /\ Len(todo) > 0
        /\ DOMAIN Tail(todo) = 1..(Len(todo) - 1)
        /\ \A i \in 1..(Len(todo) - 1) : Tail(todo)[i] = todo[i + 1]
    BY <1>4, NetCommand, SeqFacts
  <2>2. net' \in After(net, c) \/ (~c.must /\ net' = net)
    <3>1. ~Replied(s)
      BY <1>0, NoJobParts DEF Replied
    <3> QED BY <1>4, <3>1 DEF NetStep
  <2>3. CASE a.op = "wired"
    <3>1. WireTodo(a, todo, net.profile, net.dev)
      BY <1>2, <1>4, <2>3
    <3>2. WireCmd(a, c)
      <4>1. 1 \in DOMAIN todo
        BY <2>1
      <4> QED BY <2>1, <3>1, <4>1 DEF WireTodo
    <3>3. \/ ~todo[1].must /\ net'.profile = net.profile /\ net'.dev = net.dev
          \/ /\ net'.profile.dhcp = (IF SetsDhcp(todo[1]) THEN a.dhcp ELSE net.profile.dhcp)
             /\ ~a.dhcp => net'.profile.addr = (IF SetsAddr(todo[1]) THEN a.addr ELSE net.profile.addr)
             /\ net'.dev = (IF todo[1].k = "wired-up" THEN net.profile ELSE net.dev)
      <4>1. CASE ~c.must /\ net' = net
        BY <2>1, <4>1
      <4>2. CASE net' \in After(net, c)
        <5>1. PICK b \in NetArgs, cc \in Cmds, m \in After(net, c) : b = a /\ cc = c /\ m = net'
          BY <1>1, <2>1, <4>2
        <5>2. b.op = "wired" /\ WireCmd(b, cc) /\ m \in After(net, cc)
          BY <2>3, <3>2, <5>1
        <5>3. /\ m.profile.dhcp = (IF SetsDhcp(cc) THEN b.dhcp ELSE net.profile.dhcp)
              /\ ~b.dhcp => m.profile.addr = (IF SetsAddr(cc) THEN b.addr ELSE net.profile.addr)
              /\ m.dev = (IF cc.k = "wired-up" THEN net.profile ELSE net.dev)
          BY <5>2, WireRuns
        <5> QED BY <2>1, <5>1, <5>3
      <4> QED BY <2>2, <4>1, <4>2
    <3> HIDE DEF a, todo, c
    <3>4. WireTodo(a, Tail(todo), net'.profile, net'.dev)
      BY <2>1, <3>1, <3>3, WireTail
    <3>5. job'[s].todo = Tail(todo)
      BY <1>4 DEF todo
    <3> QED BY <1>1, <2>3, <3>4, <3>5
  <2>4. CASE a.op # "wired"
    <3>1. \A i \in DOMAIN todo : todo[i].k \notin WireKinds
      BY <1>2, <1>4, <2>4
    <3>2. \A i \in DOMAIN Tail(todo) : i + 1 \in DOMAIN todo /\ Tail(todo)[i] = todo[i + 1]
      BY <2>1
    <3> QED BY <1>1, <1>4, <2>4, <3>1, <3>2
  <2> QED BY <2>3, <2>4
<1>5. CASE Arrive(s) /\ job'[s].todo = NetPlan(a)
  <2>1. CASE a.op = "wired"
    <3> DEFINE p == net'.profile
               d == net'.dev
    <3> HIDE DEF p, d, a
    <3>1. WireTodo(a, NetPlan(a), p, d)
      BY <1>0, <1>1, <2>1, WiredPlan
    <3> QED BY <1>1, <1>5, <2>1, <3>1 DEF p, d
  <2>2. CASE a.op # "wired"
    <3> DEFINE S == {c \in Cmds : c.k \notin WireKinds}
               t == NetPlan(a)
    <3>1. t \in Seq(S)
      BY <1>0, <1>1, <2>2, OtherPlans
    <3> HIDE DEF S, t
    <3>2. \A i \in DOMAIN t : t[i] \in S
      BY <3>1, SeqFacts
    <3> QED BY <1>1, <1>5, <2>2, <3>2 DEF S, t
  <2> QED BY <2>1, <2>2
<1> QED BY <1>1, <1>3, <1>4, <1>5

-----------------------------------------------------------------------------
(***************************************************************************)
(* A change that succeeded is in force.                                    *)
(***************************************************************************)
LEMMA SuccessOut ==
  ASSUME NEW r \in Requests, Placed(r), req[r] \in Handlers, Success(r)
  PROVE  Out(r) /\ req[r].at # "idle"
<1>1. CASE req[r].end = "succeeded"
  <2>1. req[r].end # None
    BY <1>1, NoneIsNoStatus DEF Statuses
  <2> QED BY <2>1 DEF Placed, Out, Handlers
<1>2. CASE box[r].res = "succeeded"
  <2>1. box[r].res # None
    BY <1>2, NoneIsNoStatus DEF Statuses
  <2> QED BY <2>1 DEF Placed, Out
<1>3. CASE \E i \in DOMAIN up : up[i].id = r /\ up[i].kind = "result" /\ up[i].data = "succeeded"
  <2>1. ~Quiet(r)
    BY <1>3 DEF Quiet
  <2> QED BY <1>3, <2>1 DEF Placed, Out
<1> QED BY <1>1, <1>2, <1>3 DEF Success

\* The answers that are sent.
LEMMA SuccessSends ==
  ASSUME ReqTypes, NEW x \in Requests, NEW ms \in Seq(Events), SendDirect(x, ms),
         UNCHANGED <<req, box>>, NEW r \in Requests, Success(r)',
         r = x => \A i \in 1..Len(ms) : ms[i].data # "succeeded"
  PROVE  Success(r)
<1>1. /\ up \in Seq(Messages) /\ Len(up) <= DirectCap /\ missed \in [Requests -> BOOLEAN] /\ faults \in Nat
  BY DEF ReqTypes
<1>2. /\ up' \in Seq(Messages) /\ Len(up) <= Len(up')
      /\ \A i \in 1..Len(up) : up'[i] = up[i]
      /\ \A i \in (Len(up) + 1)..Len(up') :
           /\ i - Len(up) \in 1..Len(ms) /\ up'[i].id = x
           /\ up'[i] = [id |-> x, kind |-> ms[i - Len(up)].kind, data |-> ms[i - Len(up)].data]
  BY <1>1, Sending
<1>3. Len(up) \in Nat /\ DOMAIN up = 1..Len(up) /\ Len(up') \in Nat /\ DOMAIN up' = 1..Len(up')
  BY <1>1, <1>2, SeqFacts
<1>4. ASSUME NEW i \in DOMAIN up', up'[i].id = r, up'[i].kind = "result", up'[i].data = "succeeded"
      PROVE  Success(r)
  <2>1. CASE i \in (Len(up) + 1)..Len(up')
    <3>1. i - Len(up) \in 1..Len(ms) /\ x = r
      BY <1>2, <1>4, <2>1
    <3>2. up'[i] = [id |-> x, kind |-> ms[i - Len(up)].kind, data |-> ms[i - Len(up)].data]
      BY <1>2, <2>1
    <3>3. up'[i].data = ms[i - Len(up)].data
      BY <3>2
    <3> QED BY <1>4, <3>1, <3>3
  <2>2. CASE ~(i \in (Len(up) + 1)..Len(up'))
    <3>1. i \in 1..Len(up)
      BY <1>3, <1>4, <2>2
    <3> QED BY <1>2, <1>3, <1>4, <3>1 DEF Success
  <2> QED BY <2>1, <2>2
<1> QED BY <1>4 DEF Success

\* Nothing but the end of a change makes a success.
LEMMA SuccessFrom ==
  ASSUME ReqTypes, PlaceInv, AskInv, [Next]_vars, Calm', NEW r \in Requests, Success(r)'
  PROVE  /\ Success(r) \/ NetDone(r)
         /\ req'[r].cmd = req[r].cmd
         /\ \A s \in Requests : req[s].cmd.op = "wired" => req'[s].cmd.op = "wired"
<1>0. /\ req \in [Requests -> Handlers] /\ job \in [Requests -> Jobs] /\ box \in [Requests -> Mailboxes]
      /\ \A s \in Requests : Placed(s)
      /\ family' = "net" /\ Calm
  BY CalmSteps DEF ReqTypes, PlaceInv, Calm
<1>1. ASSUME UNCHANGED <<req, box>>, UNCHANGED up
      PROVE  Success(r)
  BY <1>1 DEF Success
<1>2. ASSUME NEW x \in Requests, UNCHANGED <<req, box>>, SendDirect(x, Result("failed"))
      PROVE  Success(r)
  <2>1. Result("failed") \in Seq(Events) /\ Len(Result("failed")) = 1 /\ Result("failed")[1].data = "failed"
    BY Contented DEF Statuses
  <2>2. \A i \in 1..Len(Result("failed")) : Result("failed")[i].data # "succeeded"
    BY <2>1
  <2> QED BY <1>2, <2>1, <2>2, SuccessSends
<1>3. CASE Receive
  <2>1. /\ Len(up) \in Nat /\ DOMAIN up = 1..Len(up) /\ Len(up) > 0 /\ up # << >>
        /\ Head(up) = up[1] /\ Head(up) \in Messages /\ Tail(up) \in Seq(Messages) /\ Len(Tail(up)) = Len(up) - 1
        /\ \A i \in 1..(Len(up) - 1) : Tail(up)[i] = up[i + 1]
    BY <1>3, SeqFacts DEF ReqTypes, Receive
  <2>2. DOMAIN Tail(up) = 1..(Len(up) - 1) /\ up' = Tail(up) /\ req' = req
    BY <1>3, <2>1, SeqFacts DEF Receive
  <2>3. ASSUME NEW i \in DOMAIN up', up'[i].id = r, up'[i].kind = "result", up'[i].data = "succeeded"
        PROVE  Success(r)
    <3>1. i + 1 \in DOMAIN up /\ up'[i] = up[i + 1]
      BY <2>1, <2>2, <2>3
    <3> QED BY <2>3, <3>1 DEF Success
  <2>4. ASSUME box'[r].res = "succeeded"
        PROVE  Success(r)
    <3> DEFINE m == Head(up)
               e == [kind |-> m.kind, data |-> m.data]
    <3>1. m.id \in Requests
      BY <2>1 DEF Messages
    <3>2. CASE m.kind = "result"
      <4>1. Resolve(m.id, m.data)
        BY <1>3, <3>2 DEF Receive
      <4>2. box'[r].res = box[r].res \/ (m.id = r /\ box'[r].res = m.data)
        BY <1>0, <3>1, <4>1 DEF Resolve, Mailboxes
      <4>3. 1 \in DOMAIN up
        BY <2>1
      <4> QED BY <2>1, <2>4, <3>2, <4>2, <4>3 DEF Success
    <3>3. CASE m.kind # "result"
      <4>1. PushEvent(m.id, e)
        BY <1>3, <3>3 DEF Receive
      <4>2. box' = box \/ \E l : box' = [box EXCEPT ![m.id].logs = l]
        BY <4>1 DEF PushEvent
      <4>3. box'[r].res = box[r].res
        <5>1. box \in [Requests -> Mailboxes]
          BY <1>0
        <5>2. CASE box' = box
          BY <5>2
        <5>3. ASSUME NEW i \in Requests, NEW l, box' = [box EXCEPT ![i].logs = l]
              PROVE  box'[r].res = box[r].res
          BY <5>1, <5>3 DEF Mailboxes
        <5> HIDE DEF m
        <5> QED BY <3>1, <4>2, <5>2, <5>3
      <4> QED BY <2>4, <4>3 DEF Success
    <3> QED BY <3>2, <3>3
  <2> QED BY <2>2, <2>3, <2>4 DEF Success
<1>4. CASE Connect \/ UNCHANGED vars
  BY <1>1, <1>4 DEF Connect, vars, link, history
<1>5. ASSUME NEW x \in Requests, Begins(x)
      PROVE  /\ Success(r) /\ req'[r].cmd = req[r].cmd
             /\ \A s \in Requests : req[s].cmd.op = "wired" => req'[s].cmd.op = "wired"
  <2>1. PICK cmd \in Asks : Begin(x, cmd)
    BY <1>5 DEF Begins
  <2>2. /\ req[x].at = "idle"
        /\ req' = [req EXCEPT ![x] = [at |-> IF conn THEN "wait" ELSE "done", cmd |-> cmd,
                                      end |-> IF conn THEN None ELSE "offline"]]
        /\ box' = [box EXCEPT ![x].open = conn] /\ up' = up
    BY <2>1 DEF Begin
  <2>3. /\ \A s \in Requests : s # x => req'[s] = req[s]
        /\ req'[x].end = (IF conn THEN None ELSE "offline")
        /\ \A s \in Requests : box'[s].res = box[s].res
    BY <1>0, <2>2 DEF Mailboxes
  <2>4. r # x
    <3> SUFFICES ASSUME r = x
                 PROVE  FALSE
      OBVIOUS
    <3>1. box[x].res = None /\ Quiet(x)
      BY <1>0, <2>2, ClosedParts DEF Placed
    <3>2. req'[x].end # "succeeded" /\ box'[x].res # "succeeded"
      BY <2>3, <3>1, NoneIsNoStatus DEF Statuses
    <3> QED BY <2>2, <3>1, <3>2 DEF Success, Quiet
  <2>5. Success(r)
    BY <2>2, <2>3, <2>4 DEF Success
  <2>6. req[x].cmd.op # "wired"
    BY <1>0, <2>2 DEF Placed, NoCmd
  <2> QED BY <2>3, <2>4, <2>5, <2>6
<1>6. ASSUME NEW x \in Requests, UnaryDone(x) \/ Timeout(x)
      PROVE  Success(r) /\ \A s \in Requests : req'[s].cmd = req[s].cmd
  <2>1. PICK how \in {box[x].res, "timeout"} : Ends(x, how)
    BY <1>6 DEF UnaryDone, Timeout
  <2>2. box' = [box EXCEPT ![x] = Closed] /\ up' = up
    BY <1>6 DEF UnaryDone, Timeout, link
  <2>3. \A s \in Requests : req'[s].cmd = req[s].cmd /\ (s # x => req'[s] = req[s] /\ box'[s] = box[s])
    BY <1>0, <2>1, <2>2 DEF Ends, Handlers
  <2>4. req'[x].end = how /\ box'[x].res = None
    BY <1>0, <2>1, <2>2, ClosedParts DEF Ends, Handlers
  <2>5. CASE r # x
    BY <2>2, <2>3, <2>5 DEF Success
  <2>6. CASE r = x
    <3>1. how = "succeeded" => box[x].res = "succeeded"
      BY <2>1
    <3>2. box'[x].res # "succeeded"
      BY <2>4, NoneIsNoStatus DEF Statuses
    <3>3. req'[r].end = how /\ box'[r].res # "succeeded" /\ up' = up
      BY <2>2, <2>4, <2>6, <3>2
    <3>4. CASE how = "succeeded"
      BY <2>3, <2>6, <3>1, <3>4 DEF Success
    <3>5. CASE how # "succeeded"
      BY <2>3, <3>3, <3>5 DEF Success
    <3> QED BY <3>4, <3>5
  <2> QED BY <2>3, <2>5, <2>6
<1>7. ASSUME NEW x \in Requests, WriteEvent(x)
      PROVE  Success(r) /\ req' = req
  <2>1. box' = [box EXCEPT ![x].logs = Tail(@)] /\ UNCHANGED <<up, req>>
    BY <1>7 DEF WriteEvent, link
  <2>2. \A s \in Requests : box'[s].res = box[s].res
    BY <1>0, <2>1 DEF Mailboxes
  <2> QED BY <2>1, <2>2 DEF Success
<1>8. ASSUME NEW x \in Requests, Arrive(x)
      PROVE  Success(r) /\ req' = req
  <2>1. UNCHANGED <<req, box, family>>
    BY <1>8 DEF Arrive
  <2>2. req[x].cmd.op # "pin"
    BY <1>0, <2>1 DEF Placed
  <2>3. UNCHANGED up \/ SendDirect(x, Result("failed"))
    BY <1>8, <2>2 DEF Arrive
  <2> QED BY <1>1, <1>2, <2>1, <2>3
<1>9. ASSUME NEW x \in Requests, NetStep(x)
      PROVE  Success(r) /\ req' = req
  <2>1. UNCHANGED <<req, box>> /\ (UNCHANGED up \/ SendDirect(x, Result("failed")))
    BY <1>9 DEF NetStep
  <2> QED BY <1>1, <1>2, <2>1
<1>10. ASSUME NEW x \in Requests, NetDone(x)
       PROVE  (Success(r) \/ NetDone(r)) /\ req' = req
  <2>1. UNCHANGED <<req, box>> /\ SendDirect(x, Result("succeeded"))
    BY <1>10 DEF NetDone
  <2>2. Result("succeeded") \in Seq(Events)
    BY Contented DEF Statuses
  <2>3. r # x => Success(r)
    BY <2>1, <2>2, SuccessSends
  <2> QED BY <1>10, <2>1, <2>3
<1>11. Receive \/ Connect \/ UNCHANGED vars => req' = req
  BY DEF Receive, Connect, vars
<1> QED
  BY <1>0, <1>3, <1>4, <1>5, <1>6, <1>7, <1>8, <1>9, <1>10, <1>11, CalmSteps

LEMMA ForceStep ==
  ASSUME ReqTypes, PlaceInv, AskInv, NetShape, SerialInv, WorkInv, ForceInv, [Next]_vars
  PROVE  ForceInv'
<1> SUFFICES ASSUME Calm', NEW r \in Requests, req'[r].cmd.op = "wired", Success(r)',
                    \A s \in Requests : s > r => req'[s].cmd.op # "wired"
             PROVE  InForce(r)'
  BY DEF ForceInv
<1>0. /\ req \in [Requests -> Handlers] /\ job \in [Requests -> Jobs] /\ \A s \in Requests : Placed(s) /\ s \in Nat
      /\ Calm /\ \A s \in Requests : Out(s) => AtRest(s)
      /\ \A q, s \in Requests : q < s /\ req[s].at # "idle" => req[q].at = "done"
  BY CalmSteps, Numbers DEF ReqTypes, PlaceInv, SerialInv
<1>1. /\ Success(r) \/ NetDone(r)
      /\ req'[r].cmd = req[r].cmd
      /\ \A s \in Requests : s > r => req[s].cmd.op # "wired"
  BY SuccessFrom
<1>2. CASE Success(r)
  <2>1. InForce(r)
    BY <1>0, <1>1, <1>2 DEF ForceInv
  <2>2. Out(r) /\ req[r].at # "idle" /\ AtRest(r)
    BY <1>0, <1>2, SuccessOut
  <2>3. CASE net' = net
    BY <1>1, <2>1, <2>3 DEF InForce
  <2>4. ASSUME NEW x \in Requests, NetStep(x)
        PROVE  net'.dev = net.dev
    <3> DEFINE todo == job[x].todo
    <3>1. /\ todo \in Seq(Cmds) /\ todo # << >> /\ job[x].at = "net" /\ Head(todo) \in Cmds
          /\ net' = net \/ net' \in After(net, Head(todo))
      BY <2>4, NetCommand
    <3>2. ~AtRest(x)
      BY <3>1 DEF AtRest
    <3>3. x > r
      <4>1. x # r
        BY <2>2, <3>2
      <4>2. ~(x < r)
        <5>1. x < r => req[x].at = "done"
          BY <1>0, <2>2
        <5> QED BY <1>0, <3>2, <5>1 DEF Out
      <4> QED BY <1>0, <4>1, <4>2
    <3>4. \A i \in DOMAIN todo : todo[i].k \notin WireKinds
      BY <1>0, <1>1, <3>1, <3>3 DEF WorkInv
    <3>5. Head(todo).k \notin WireKinds
      <4>1. Head(todo) = todo[1] /\ 1 \in DOMAIN todo
        BY <3>1, SeqFacts
      <4> QED BY <3>4, <4>1
    <3>6. CASE net' \in After(net, Head(todo))
      <4>1. PICK c \in Cmds, m \in After(net, Head(todo)) : c = Head(todo) /\ m = net'
        BY <3>1, <3>6
      <4>2. c.k \notin WireKinds /\ m \in After(net, c)
        BY <3>5, <4>1
      <4>3. m.dev = net.dev
        BY <4>2, WireKept
      <4> QED BY <4>1, <4>3
    <3> QED BY <3>1, <3>6
  <2>5. CASE net'.dev = net.dev
    BY <1>1, <2>1, <2>5 DEF InForce
  <2> QED BY <2>3, <2>4, <2>5, NetUntouched
<1>3. CASE NetDone(r)
  <2>1. job[r].at = "net" /\ job[r].todo = << >> /\ net' = net
    BY <1>3 DEF NetDone
  <2>2. WireTodo(req[r].cmd, job[r].todo, net.profile, net.dev)
    BY <1>0, <1>1, <2>1 DEF WorkInv
  <2>3. InForce(r)
    BY <2>1, <2>2 DEF WireTodo, InForce
  <2> QED BY <1>1, <2>1, <2>3 DEF InForce
<1> QED BY <1>1, <1>2, <1>3

-----------------------------------------------------------------------------
(***************************************************************************)
(* The theorems.                                                           *)
(***************************************************************************)
LEMMA RequestsInit == Init => RequestsInv
<1> SUFFICES ASSUME Init
             PROVE  RequestsInv
  OBVIOUS
<1>1. /\ family \in Families /\ backend \in {"nm", "netplan"} /\ conn = TRUE /\ down = {} /\ up = << >>
      /\ req = [r \in Requests |-> [at |-> "idle", cmd |-> NoCmd, end |-> None]]
      /\ box = [r \in Requests |-> Closed] /\ job = [r \in Requests |-> NoJob]
      /\ pins = [r \in Requests |-> None] /\ faults = 0
      /\ client = [r \in Requests |-> << >>] /\ pushed = [r \in Requests |-> << >>]
      /\ missed = [r \in Requests |-> FALSE] /\ typed = {}
  BY RequestsAssumption DEF Init
<1>2. << >> \in Seq(Messages) /\ << >> \in Seq(Events) /\ Len(<< >>) = 0 /\ DOMAIN << >> = {}
  BY EmptySeq
<1>3. ReqTypes
  <2>1. Len(up) <= DirectCap /\ ResultsTell(up) /\ up \in Seq(Messages)
    BY <1>1, <1>2, RequestsAssumption DEF ResultsTell
  <2>2. NoCmd \in Asks /\ None \in Outcomes
    BY DEF Asks, Outcomes
  <2>3. [at |-> "idle", cmd |-> NoCmd, end |-> None] \in Handlers
    BY <2>2 DEF Handlers
  <2>4. Closed \in Mailboxes
    BY <1>2 DEF Closed, Mailboxes
  <2> QED BY <1>1, <1>2, <2>1, <2>3, <2>4, NoJobType DEF ReqTypes
<1>4. ASSUME NEW r \in Requests
      PROVE  /\ req[r].at = "idle" /\ req[r].cmd = NoCmd /\ req[r].end = None /\ box[r] = Closed /\ job[r] = NoJob
             /\ client[r] = << >> /\ pushed[r] = << >> /\ req[r].cmd.op = "none" /\ Quiet(r)
             /\ pins[r] = None /\ r \notin down
  BY <1>1, <1>2 DEF NoCmd, Quiet
<1>5. PlaceInv
  BY <1>4, NoJobParts, ClosedParts DEF PlaceInv, Placed, OfScript, NetOps, RadioOps
<1>6. ToldInv
  BY <1>4 DEF ToldInv, Told, Installs
<1>7. AskInv
  BY <1>4, NoJobParts DEF AskInv, Asking
<1>8. PinInv
  BY <1>1, <1>3, <1>4, Numbers DEF PinInv
<1>9. NetShape
  <2>1. net = [profile |-> [dhcp |-> TRUE, addr |-> None, gw |-> None],
               dev     |-> [dhcp |-> TRUE, addr |-> None, gw |-> None],
               saved   |-> [n \in {<< "home" >>} |-> [psk |-> "right", on |-> "any"]],
               wifi    |-> << "home" >>, virt |-> None, second |-> None,
               cell    |-> None, pan |-> None, device |-> {"paired"}]
    BY DEF Init
  <2>2. /\ DOMAIN net = NetParts
        /\ net.profile = [dhcp |-> TRUE, addr |-> None, gw |-> None]
        /\ net.saved = [n \in {<< "home" >>} |-> [psk |-> "right", on |-> "any"]]
    BY <2>1 DEF NetParts
  <2>3. DOMAIN net.profile = {"dhcp", "addr", "gw"}
    BY <2>2
  <2>4. << "home" >> \notin Seconds
    BY RequestsAssumption DEF Seconds
  <2>5. ASSUME NEW x \in DOMAIN net.saved
        PROVE  /\ DOMAIN net.saved[x] = {"psk", "on"} /\ net.saved[x].on = "any" /\ x \notin Seconds
    BY <2>2, <2>4, <2>5
  <2> QED BY <2>2, <2>3, <2>5 DEF NetShape, ShapeOf
<1>10. AlongsideInv
  BY <1>4, NoJobParts DEF AlongsideInv
<1>11. SerialInv
  <2>1. \A r \in Requests : ~Out(r)
    BY <1>1, <1>2, <1>4, ClosedParts DEF Out
  <2> QED BY <1>4, <2>1 DEF SerialInv
<1>12. WorkInv
  BY <1>4, NoJobParts DEF WorkInv
<1>13. ForceInv
  BY <1>4 DEF ForceInv
<1> QED BY <1>3, <1>5, <1>6, <1>7, <1>8, <1>9, <1>10, <1>11, <1>12, <1>13 DEF RequestsInv

LEMMA RequestsStep == RequestsInv /\ [Next]_vars => RequestsInv'
BY TypeStep, PlaceStep, ToldStep, AskStep, PinStep, ShapeStep, AlongsideStep, SerialStep, WorkStep, ForceStep
   DEF RequestsInv

LEMMA RequestsGood == RequestsInv => RequestsRight
<1> SUFFICES ASSUME RequestsInv
             PROVE  RequestsRight
  OBVIOUS
<1>0. /\ ReqTypes /\ PinInv /\ ForceInv /\ \A r \in Requests : Placed(r) /\ Told(r) /\ Asking(r)
      /\ req \in [Requests -> Handlers] /\ client \in [Requests -> Seq(Events)] /\ pushed \in [Requests -> Seq(Events)]
      /\ box \in [Requests -> Mailboxes] /\ Cap \in Nat
  BY RequestsAssumption DEF RequestsInv, PlaceInv, ToldInv, AskInv, ReqTypes
<1>1. LogTail
  <2> SUFFICES ASSUME NEW r \in Requests, req[r].end \in {"succeeded", "failed"},
                      req[r].cmd.op \in {"install", "uninstall"}
               PROVE  LET n == IF Len(pushed[r]) < Cap THEN Len(pushed[r]) ELSE Cap
                      IN  Len(client[r]) >= n /\ LastOf(client[r], n) = LastOf(pushed[r], n)
    BY DEF LogTail
  <2>1. Covers(client[r], pushed[r])
    BY <1>0 DEF Told, Installs, Statuses
  <2> DEFINE c == client[r]
             p == pushed[r]
  <2>2. c \in Seq(Events) /\ p \in Seq(Events) /\ Covers(c, p)
    BY <1>0, <2>1
  <2> HIDE DEF c, p
  <2>3. LET n == IF Len(p) < Cap THEN Len(p) ELSE Cap
        IN  Len(c) >= n /\ LastOf(c, n) = LastOf(p, n)
    BY <1>0, <2>2, CoversLast
  <2> QED BY <2>3 DEF c, p
<1>2. ChallengeStands
  <2> SUFFICES ASSUME NEW r \in Requests,
                      job[r].scan = "waits", job[r].bt = "asks", req[r].at = "wait", ~missed[r]
               PROVE  \/ \E i \in DOMAIN up : up[i] = [id |-> r, kind |-> "pin_required", data |-> job[r].lines]
                      \/ Asked(r) \in ToSet(box[r].logs) \cup ToSet(client[r])
    BY DEF ChallengeStands
  <2>1. Pending(r)
    BY <1>0 DEF Asking
  <2> QED BY <2>1 DEF Pending, Question, ToSet
<1>3. PinGoesHome
  <2>1. ASSUME NEW t \in typed
        PROVE  t \in Requests \X Requests /\ req[t[2]].cmd.for = t[1]
    BY <1>0 DEF ReqTypes, PinInv, Spent
  <2>2. ASSUME NEW t \in typed, NEW u \in typed, t[2] = u[2]
        PROVE  t = u
    <3>1. t[1] = u[1]
      BY <2>1, <2>2
    <3> QED BY <2>1, <2>2, <3>1
  <2> QED BY <2>1, <2>2 DEF PinGoesHome
<1>4. WiredInForce
  <2> SUFFICES ASSUME faults = 0, NEW r \in Requests, req[r].cmd.op = "wired", req[r].end = "succeeded",
                      \A s \in (r + 1)..MaxRequests : req[s].cmd.op # "wired"
               PROVE  net.dev.dhcp = req[r].cmd.dhcp /\ (~net.dev.dhcp => net.dev.addr = req[r].cmd.addr)
    BY DEF WiredInForce
  <2>1. Calm
    BY <1>0 DEF Calm, Placed, NetOps
  <2>2. \A s \in Requests : s > r => s \in (r + 1)..MaxRequests
    BY <1>0, Numbers
  <2>3. Success(r)
    BY DEF Success
  <2>4. InForce(r)
    BY <1>0, <2>1, <2>2, <2>3 DEF ForceInv
  <2> QED BY <2>4 DEF InForce
<1> QED BY <1>1, <1>2, <1>3, <1>4 DEF RequestsRight, RequestsTold

\* While nothing is known to be lost, whoever waits for an install is left with
\* the newest chunks of its log when it is told the result, a pairing that waits
\* for its PIN has asked for it, a PIN is typed into the pairing it was given for
\* and once, and a wired change that succeeded is in force: for any requests,
\* buffers and faults, and any network changes.
THEOREM RequestsAreRight == MCSpec => []RequestsRight
<1>1. MCInit => RequestsInv
  BY RequestsInit DEF MCInit
<1>2. RequestsInv /\ [MCNext]_allVars => RequestsInv'
  BY RequestsStep DEF MCNext, allVars
<1> QED BY <1>1, <1>2, RequestsGood, PTL DEF MCSpec

LEMMA PrimaryGood == RequestsInv /\ [Next]_vars =>
  [\A r \in Requests :
     req[r].cmd.op = "alongside" /\ job[r].at = "net" /\ job'[r] # job[r] => net'.wifi = net.wifi]_vars
BY PrimaryStep DEF RequestsInv

\* Whatever profiles and interfaces there are, no command of a request to join
\* a network beside the first touches the first association ("without taking
\* down the primary association", dualwifi.go).
THEOREM PrimaryIsKept == MCSpec => PrimaryKept
<1>1. MCInit => RequestsInv
  BY RequestsInit DEF MCInit
<1>2. RequestsInv /\ [MCNext]_allVars => RequestsInv'
  BY RequestsStep DEF MCNext, allVars
<1>3. RequestsInv /\ [MCNext]_allVars =>
        [\A r \in Requests :
           req[r].cmd.op = "alongside" /\ job[r].at = "net" /\ job'[r] # job[r] => net'.wifi = net.wifi]_vars
  BY PrimaryGood DEF MCNext, allVars
<1> QED BY <1>1, <1>2, <1>3, PTL DEF MCSpec, PrimaryKept
=============================================================================
