---------------------------- MODULE GatewayProofs ----------------------------
(***************************************************************************)
(* Proofs about the gateway: the reports of runs (RunReports), for any     *)
(* number of runs, connections and crashes of the agent and everything     *)
(* that env lets go wrong; the status of a server (Presence), for any      *)
(* number of streams and restarts; and the output of a run that a browser  *)
(* watches (LiveLogs), for any caps and buffers and any number of faults.  *)
(***************************************************************************)
EXTENDS MCGateway, SequenceTheorems, FiniteSetTheorems, TLAPS

Bounds == MaxConns \in Nat /\ MaxCrashes \in Nat

-----------------------------------------------------------------------------
(***************************************************************************)
(* What the operations on the outbox and on a stream do to their entries.  *)
(***************************************************************************)
\* A message is in flight when it has a place in some stream, now and after a step.
LEMMA Places ==
  ASSUME NEW streams \in [Conns -> Seq(Messages)]
  PROVE  \A m : m \in UNION { MessagesIn(streams[c]) : c \in Conns }
                  <=> \E c \in Conns : \E i \in 1..Len(streams[c]) : streams[c][i] = m
<1>1. \A c \in Conns : streams[c] \in Seq(Messages) /\ DOMAIN streams[c] = 1..Len(streams[c])
  <2> HIDE DEF Messages, Conns
  <2> QED BY LenProperties
<1> QED BY <1>1 DEF MessagesIn

LEMMA Flying ==
  /\ chan \in [Conns -> Seq(Messages)] =>
       \A m : m \in InFlight <=> \E c \in Conns : \E i \in 1..Len(chan[c]) : chan[c][i] = m
  /\ chan' \in [Conns -> Seq(Messages)] =>
       \A m : m \in InFlight' <=> \E c \in Conns : \E i \in 1..Len(chan'[c]) : chan'[c][i] = m
BY Places DEF InFlight, MessagesIn

\* The same for the disk.
LEMMA Entered ==
  ASSUME NEW disk \in Seq(Entries)
  PROVE  /\ DOMAIN disk = 1..Len(disk) /\ Len(disk) \in Nat
         /\ \A i \in 1..Len(disk) : disk[i] \in Entries
         /\ \A m : m \in { disk[i].msg : i \in DOMAIN disk }
                      <=> \E i \in 1..Len(disk) : disk[i].msg = m
<1>1. DOMAIN disk = 1..Len(disk) /\ Len(disk) \in Nat
  <2> HIDE DEF Entries
  <2> QED BY LenProperties
<1>2. \A i \in 1..Len(disk) : disk[i] \in Entries
  BY ElementOfSeq
<1> QED BY <1>1, <1>2

LEMMA Stored ==
  /\ outbox \in Seq(Entries) =>
       /\ DOMAIN outbox = 1..Len(outbox) /\ Len(outbox) \in Nat
       /\ \A i \in 1..Len(outbox) : outbox[i] \in Entries
       /\ \A m : m \in OnDisk <=> \E i \in 1..Len(outbox) : outbox[i].msg = m
  /\ outbox' \in Seq(Entries) =>
       /\ DOMAIN outbox' = 1..Len(outbox') /\ Len(outbox') \in Nat
       /\ \A i \in 1..Len(outbox') : outbox'[i] \in Entries
       /\ \A m : m \in OnDisk' <=> \E i \in 1..Len(outbox') : outbox'[i].msg = m
<1> HIDE DEF Entries
<1> QED BY Entered DEF OnDisk

\* A sequence without its p-th element.
LEMMA Without ==
  ASSUME NEW S, NEW s \in Seq(S), NEW p \in 1..Len(s)
  PROVE  \A t : t = SubSeq(s, 1, p - 1) \o SubSeq(s, p + 1, Len(s)) =>
           /\ t \in Seq(S) /\ Len(t) = Len(s) - 1
           /\ \A i \in 1..Len(t) : t[i] = IF i < p THEN s[i] ELSE s[i + 1]
<1> DEFINE a == SubSeq(s, 1, p - 1)
           b == SubSeq(s, p + 1, Len(s))
           n == Len(s)
<1>1. n \in Nat /\ p \in Nat /\ 1 <= p /\ p <= n
  BY LenProperties
<1>2. /\ a \in Seq(S) /\ Len(a) = p - 1
      /\ \A i \in 1..p - 1 : a[i] = s[i]
  BY <1>1
<1>3. /\ b \in Seq(S) /\ Len(b) = n - p
      /\ \A i \in 1..n - p : b[i] = s[i + p]
  BY <1>1
<1> SUFFICES ASSUME NEW t, t = a \o b
             PROVE  /\ t \in Seq(S) /\ Len(t) = n - 1
                    /\ \A i \in 1..Len(t) : t[i] = IF i < p THEN s[i] ELSE s[i + 1]
  OBVIOUS
<1> HIDE DEF a, b, n
<1>4. /\ a \o b \in Seq(S) /\ Len(a \o b) = Len(a) + Len(b)
      /\ \A i \in 1..Len(a) + Len(b) : (a \o b)[i] = IF i <= Len(a) THEN a[i] ELSE b[i - Len(a)]
  BY <1>2, <1>3, ConcatProperties
<1>5. Len(a) + Len(b) = n - 1
  BY <1>1, <1>2, <1>3
<1>6. ASSUME NEW i \in 1..n - 1 PROVE (a \o b)[i] = IF i < p THEN s[i] ELSE s[i + 1]
  <2>1. i \in Nat /\ 1 <= i /\ i <= n - 1
    BY <1>1
  <2>2. CASE i < p
    BY <1>1, <1>2, <1>4, <1>5, <2>1, <2>2
  <2>3. CASE ~(i < p)
    <3>1. i - (p - 1) \in 1..n - p /\ i - (p - 1) + p = i + 1
      BY <1>1, <2>1, <2>3
    <3>2. (a \o b)[i] = b[i - (p - 1)]
      BY <1>1, <1>2, <1>4, <1>5, <2>1, <2>3
    <3> QED BY <1>3, <2>3, <3>1, <3>2
  <2> QED BY <2>2, <2>3
<1> QED BY <1>4, <1>5, <1>6

\* DeleteKey removes one entry, or there was none with that key.
LEMMA Deleted ==
  ASSUME outbox \in Seq(Entries), NEW k, outbox' = DeleteKey(k)
  PROVE  /\ outbox' \in Seq(Entries)
         /\ \/ outbox' = outbox /\ \A i \in 1..Len(outbox) : outbox[i].key # k
            \/ \E p \in 1..Len(outbox) :
                 /\ outbox[p].key = k
                 /\ Len(outbox') = Len(outbox) - 1
                 /\ \A i \in 1..Len(outbox') :
                      outbox'[i] = IF i < p THEN outbox[i] ELSE outbox[i + 1]
<1>1. DOMAIN outbox = 1..Len(outbox)
  BY Stored
<1>2. CASE \A i \in 1..Len(outbox) : outbox[i].key # k
  BY <1>1, <1>2 DEF DeleteKey
<1>3. CASE \E i \in 1..Len(outbox) : outbox[i].key = k
  <2>1. PICK p \in 1..Len(outbox) :
          /\ outbox[p].key = k
          /\ outbox' = SubSeq(outbox, 1, p - 1) \o SubSeq(outbox, p + 1, Len(outbox))
    BY <1>1, <1>3 DEF DeleteKey
  <2>2. /\ outbox' \in Seq(Entries) /\ Len(outbox') = Len(outbox) - 1
        /\ \A i \in 1..Len(outbox') : outbox'[i] = IF i < p THEN outbox[i] ELSE outbox[i + 1]
    <3>1. \A t : t = SubSeq(outbox, 1, p - 1) \o SubSeq(outbox, p + 1, Len(outbox)) =>
            /\ t \in Seq(Entries) /\ Len(t) = Len(outbox) - 1
            /\ \A i \in 1..Len(t) : t[i] = IF i < p THEN outbox[i] ELSE outbox[i + 1]
      BY Without
    <3> QED BY <2>1, <3>1, Zenon
  <2> QED BY <2>1, <2>2, Zenon
<1> QED BY <1>2, <1>3

-----------------------------------------------------------------------------
\* The types are kept.
LEMMA TypeStep == ASSUME Bounds, TypeOK, [Next]_vars PROVE TypeOK'
<1> USE DEF TypeOK, agentVars, serverVars
<1>1. ASSUME NEW r \in Runs, Enqueue(r) PROVE TypeOK'
  <2>1. [key |-> next, msg |-> [run |-> r, kind |-> KindOf(made[r] + 1)]] \in Entries
    BY DEF Entries, Messages, Kinds, KindOf
  <2>2. made' \in [Runs -> 0..4]
    <3>1. made[r] \in 0..4 /\ made[r] < 3
      BY <1>1 DEF Enqueue
    <3> QED BY <1>1, <3>1 DEF Enqueue, Put
  <2>3. outbox' \in Seq(Entries)
    <3> HIDE DEF Entries
    <3> QED BY <1>1, <2>1 DEF Enqueue, Put
  <2> QED BY <1>1, <2>2, <2>3 DEF Enqueue, Put
<1>2. CASE Connect
  BY <1>2 DEF Connect, Conns, Bounds
<1>3. CASE Send
  <2>1. outbox # << >> /\ Head(outbox) \in Entries /\ link \in Conns
    <3>1. outbox # << >> /\ link \in Conns
      BY <1>3 DEF Send, SendEntry, Conns
    <3> HIDE DEF Entries
    <3> QED BY <3>1, HeadTailProperties
  <2>2. Head(outbox).msg \in Messages /\ Head(outbox).key \in Nat
    BY <2>1 DEF Entries
  <2>3. chan' \in [Conns -> Seq(Messages)] /\ drain' \in [Conns -> Nat \cup {NoKey}]
    <3> HIDE DEF Messages, Conns
    <3> QED BY <1>3, <2>1, <2>2 DEF Send, SendEntry
  <2> QED BY <1>3, <2>3 DEF Send, SendEntry
<1>4. ASSUME link # 0, Cut PROVE chan' \in [Conns -> Seq(Messages)] /\ gone' \in SUBSET Messages
  <2>1. PICK n \in 0..Len(chan[link]) :
          /\ chan' = [chan EXCEPT ![link] = SubSeq(@, 1, n)]
          /\ gone' = gone \cup MessagesIn(SubSeq(chan[link], n + 1, Len(chan[link])))
    BY <1>4 DEF Cut
  <2>2. link \in Conns /\ chan[link] \in Seq(Messages)
    BY <1>4, SMTT(30) DEF Conns
  <2> HIDE DEF Messages, Conns
  <2>3. SubSeq(chan[link], 1, n) \in Seq(Messages)
        /\ SubSeq(chan[link], n + 1, Len(chan[link])) \in Seq(Messages)
    BY <2>2
  <2>4. MessagesIn(SubSeq(chan[link], n + 1, Len(chan[link]))) \subseteq Messages
    BY <2>3, LenProperties, ElementOfSeq DEF MessagesIn
  <2> QED BY <2>1, <2>2, <2>3, <2>4
<1>5. CASE Drop
  BY <1>4, <1>5 DEF Drop, Bounds
<1>6. CASE Crash
  <2>1. next' \in Nat
    <3>1. CASE outbox = << >>
      BY <1>6, <3>1 DEF Crash, SeedNext
    <3>2. CASE outbox # << >>
      <4>1. outbox[Len(outbox)] \in Entries
        <5> HIDE DEF Entries
        <5> QED BY <3>2, EmptySeq, LenProperties, ElementOfSeq
      <4> QED BY <1>6, <3>2, <4>1 DEF Crash, SeedNext, Entries
    <3> QED BY <3>1, <3>2
  <2>2. chan' \in [Conns -> Seq(Messages)] /\ gone' \in SUBSET Messages
    BY <1>4, <1>6 DEF Crash
  <2>3. made' \in [Runs -> 0..4]
    BY <1>6 DEF Crash
  <2> QED BY <1>6, <2>1, <2>2, <2>3 DEF Crash, Bounds
<1>7. CASE GatewayRestart
  <2>1. InFlight \subseteq Messages
    <3>1. \A c \in Conns : \A i \in 1..Len(chan[c]) : chan[c][i] \in Messages
      <4> HIDE DEF Messages, Conns
      <4> QED BY ElementOfSeq
    <3> SUFFICES ASSUME NEW m, m \in InFlight PROVE m \in Messages
      OBVIOUS
    <3>2. \E c \in Conns : \E i \in 1..Len(chan[c]) : chan[c][i] = m
      BY Flying
    <3> QED BY <3>1, <3>2
  <2>2. gone' \subseteq Messages
    BY <1>7, <2>1 DEF GatewayRestart, InFlight
  <2>3. chan' \in [Conns -> Seq(Messages)]
    <3> HIDE DEF Messages, Conns
    <3> QED BY <1>7 DEF GatewayRestart
  <2> QED BY <1>7, <2>2, <2>3 DEF GatewayRestart, Bounds
<1>8. ASSUME NEW c \in Conns, Delete(c) PROVE TypeOK'
  BY <1>8, Deleted DEF Delete
<1>9. ASSUME NEW c \in Conns, chan[c] # << >>
      PROVE  Head(chan[c]) \in Messages /\ Tail(chan[c]) \in Seq(Messages)
  <2> HIDE DEF Messages, Conns
  <2> QED BY <1>9, HeadTailProperties
<1>10. ASSUME NEW c \in Conns, Handle(c) PROVE TypeOK'
  <2>1. chan[c] # << >> /\ Head(chan[c]) \in Messages /\ Tail(chan[c]) \in Seq(Messages)
    BY <1>9, <1>10 DEF Handle
  <2> DEFINE m == Head(chan[c])
  <2>2. m.run \in Runs
    BY <2>1 DEF Messages
  <2>3. chan' \in [Conns -> Seq(Messages)] /\ handled' \in SUBSET Messages
    <3> HIDE DEF Messages, Conns
    <3> QED BY <1>10, <2>1 DEF Handle
  <2>4. /\ runs' \in [Runs -> {"absent", "running", "finished"}]
        /\ logs' \in SUBSET Runs /\ alerts' \in [Runs -> Nat]
    <3>1. OnRunStarted(m.run) \/ OnLogChunk(m.run) \/ OnRunFinished(m.run)
      BY <1>10 DEF Handle
    <3>2. CASE OnRunStarted(m.run)
      BY <2>2, <3>2 DEF OnRunStarted
    <3>3. CASE OnLogChunk(m.run)
      BY <2>2, <3>3 DEF OnLogChunk
    <3>4. CASE OnRunFinished(m.run)
      <4> HIDE DEF m
      <4> QED BY <2>2, <3>4 DEF OnRunFinished
    <3> QED BY <3>1, <3>2, <3>3, <3>4
  <2> QED BY <1>10, <2>3, <2>4 DEF Handle
<1>11. ASSUME NEW c \in Conns, HandleFails(c) PROVE TypeOK'
  <2>1. chan' \in [Conns -> Seq(Messages)] /\ gone' \in SUBSET Messages
    <3>1. Head(chan[c]) \in Messages /\ Tail(chan[c]) \in Seq(Messages)
      BY <1>9, <1>11 DEF HandleFails
    <3> HIDE DEF Messages, Conns
    <3> QED BY <1>11, <3>1 DEF HandleFails
  <2> QED BY <1>11, <2>1 DEF HandleFails
<1>12. ASSUME NEW c \in Conns, CloseHandler(c) PROVE TypeOK'
  BY <1>12 DEF CloseHandler
<1>13. CASE UNCHANGED vars
  BY <1>13 DEF vars
<1> QED
  BY <1>1, <1>2, <1>3, <1>5, <1>6, <1>7, <1>8, <1>10, <1>11, <1>12, <1>13 DEF Next

LEMMA InitTyped == ASSUME Bounds, Init PROVE TypeOK
<1>1. drain \in [Conns -> Nat \cup {NoKey}] /\ runs \in [Runs -> {"absent", "running", "finished"}]
  BY DEF Init
<1>0. conns \in 0..MaxConns /\ link \in 0..MaxConns /\ crashes \in 0..MaxCrashes
  BY DEF Init, Bounds
<1>2. outbox \in Seq(Entries) /\ chan \in [Conns -> Seq(Messages)]
  <2> HIDE DEF Entries, Messages, Conns
  <2> QED BY DEF Init
<1>3. /\ made \in [Runs -> 0..4] /\ alerts \in [Runs -> Nat] /\ next \in Nat
  BY DEF Init
<1> QED BY <1>0, <1>1, <1>2, <1>3 DEF Init, TypeOK

-----------------------------------------------------------------------------
(***************************************************************************)
(* Every step but Send only takes messages out of the streams, and what it *)
(* takes out was handled or is recorded as gone.                           *)
(***************************************************************************)
Carried == InFlight \cup handled \cup gone

Shrunk ==
  \A c \in Conns : \E o \in Nat : \A i \in 1..Len(chan'[c]) :
    i + o \in 1..Len(chan[c]) /\ chan'[c][i] = chan[c][i + o]

\* Nothing happens to the streams.
LEMMA SameStreams ==
  ASSUME TypeOK, chan' = chan, handled \subseteq handled', gone \subseteq gone'
  PROVE  Shrunk /\ Carried \subseteq Carried'
<1>1. \A c \in Conns : Len(chan[c]) \in Nat
  <2> HIDE DEF Messages, Conns
  <2> QED BY LenProperties DEF TypeOK
<1>2. InFlight' = InFlight
  BY DEF InFlight
<1>3. Shrunk
  <2> SUFFICES ASSUME NEW c \in Conns
               PROVE  \A i \in 1..Len(chan'[c]) :
                        i + 0 \in 1..Len(chan[c]) /\ chan'[c][i] = chan[c][i + 0]
    BY DEF Shrunk
  <2> QED BY <1>1
<1> QED BY <1>2, <1>3 DEF Carried

\* The first message of a stream leaves it.
LEMMA FirstLeaves ==
  ASSUME TypeOK, NEW c \in Conns, chan[c] # << >>,
         chan' = [chan EXCEPT ![c] = Tail(@)],
         handled \subseteq handled', gone \subseteq gone',
         Head(chan[c]) \in handled' \cup gone'
  PROVE  /\ Shrunk /\ Carried \subseteq Carried'
         /\ Head(chan[c]) \in InFlight
         /\ \A i \in 1..Len(chan[c]) : i = 1 \/ chan[c][i] \in InFlight'
<1>1. /\ chan[c] \in Seq(Messages) /\ Len(chan[c]) \in Nat /\ 1 <= Len(chan[c])
      /\ Head(chan[c]) = chan[c][1]
      /\ Len(Tail(chan[c])) = Len(chan[c]) - 1
      /\ \A i \in 1..Len(Tail(chan[c])) : Tail(chan[c])[i] = chan[c][i + 1]
  <2> HIDE DEF Messages, Conns
  <2>1. chan[c] \in Seq(Messages)
    BY DEF TypeOK
  <2> QED BY <2>1, HeadTailProperties, EmptySeq, LenProperties
<1>2. chan'[c] = Tail(chan[c]) /\ \A d \in Conns \ {c} : chan'[d] = chan[d]
  BY DEF TypeOK
<1>9. /\ Len(chan[c]) \in Nat /\ Len(chan'[c]) = Len(chan[c]) - 1
      /\ \A i \in 1..Len(chan'[c]) : chan'[c][i] = chan[c][i + 1]
  BY <1>1, <1>2
<1>3. chan \in [Conns -> Seq(Messages)] /\ chan' \in [Conns -> Seq(Messages)]
  <2> HIDE DEF Messages, Conns
  <2> QED BY <1>1, HeadTailProperties DEF TypeOK
<1>4. \A d \in Conns : Len(chan[d]) \in Nat
  <2> HIDE DEF Messages, Conns
  <2> QED BY <1>3, LenProperties
<1>5. Shrunk
  <2> SUFFICES ASSUME NEW d \in Conns
               PROVE  \E o \in Nat : \A i \in 1..Len(chan'[d]) :
                        i + o \in 1..Len(chan[d]) /\ chan'[d][i] = chan[d][i + o]
    BY DEF Shrunk
  <2>1. CASE d = c
    <3>1. \A i \in 1..Len(chan'[d]) :
            i + 1 \in 1..Len(chan[d]) /\ chan'[d][i] = chan[d][i + 1]
      BY <1>9, <2>1
    <3> QED BY <3>1
  <2>2. CASE d # c
    <3>1. \A i \in 1..Len(chan'[d]) :
            i + 0 \in 1..Len(chan[d]) /\ chan'[d][i] = chan[d][i + 0]
      BY <1>2, <1>4, <2>2
    <3> QED BY <3>1
  <2> QED BY <2>1, <2>2
<1>6. \A i \in 1..Len(chan[c]) : i = 1 \/ chan[c][i] \in InFlight'
  <2> SUFFICES ASSUME NEW i \in 1..Len(chan[c]), i # 1 PROVE chan[c][i] \in InFlight'
    OBVIOUS
  <2>1. i - 1 \in 1..Len(chan'[c]) /\ chan'[c][i - 1] = chan[c][i]
    BY <1>9
  <2> QED BY <1>3, <2>1, Flying
<1>7. InFlight \subseteq InFlight' \cup {Head(chan[c])}
  <2> SUFFICES ASSUME NEW m \in InFlight PROVE m \in InFlight' \/ m = Head(chan[c])
    OBVIOUS
  <2>1. PICK d \in Conns : \E i \in 1..Len(chan[d]) : chan[d][i] = m
    BY <1>3, Flying
  <2>2. CASE d = c
    BY <1>1, <1>6, <2>1, <2>2
  <2>3. CASE d # c
    BY <1>2, <1>3, <2>1, <2>3, Flying
  <2> QED BY <2>2, <2>3
<1>8. Head(chan[c]) \in InFlight
  BY <1>1, <1>3, Flying
<1> QED BY <1>5, <1>6, <1>7, <1>8 DEF Carried

\* A stream breaks: its tail is gone.
LEMMA TailCut ==
  ASSUME TypeOK, link # 0, Cut, handled' = handled
  PROVE  Shrunk /\ Carried \subseteq Carried' /\ gone \subseteq gone'
<1>1. link \in Conns
  BY DEF TypeOK, Conns
<1>2. PICK n \in 0..Len(chan[link]) :
        /\ chan' = [chan EXCEPT ![link] = SubSeq(@, 1, n)]
        /\ gone' = gone \cup MessagesIn(SubSeq(chan[link], n + 1, Len(chan[link])))
  BY DEF Cut
<1> DEFINE rest == SubSeq(chan[link], n + 1, Len(chan[link]))
<1>3. /\ chan[link] \in Seq(Messages) /\ Len(chan[link]) \in Nat /\ n \in Nat /\ n <= Len(chan[link])
      /\ Len(SubSeq(chan[link], 1, n)) = n
      /\ \A i \in 1..n : SubSeq(chan[link], 1, n)[i] = chan[link][i]
      /\ SubSeq(chan[link], 1, n) \in Seq(Messages)
  <2> HIDE DEF Messages, Conns
  <2>1. chan[link] \in Seq(Messages)
    BY <1>1 DEF TypeOK
  <2> QED BY <2>1, LenProperties
<1>4. /\ DOMAIN rest = 1..Len(chan[link]) - n
      /\ \A i \in 1..Len(chan[link]) - n : rest[i] = chan[link][i + n]
  <2> HIDE DEF Messages, Conns
  <2> QED BY <1>3
<1> HIDE DEF rest
<1>5. /\ Len(chan'[link]) = n
      /\ \A i \in 1..n : chan'[link][i] = chan[link][i]
      /\ \A d \in Conns \ {link} : chan'[d] = chan[d]
  BY <1>1, <1>2, <1>3 DEF TypeOK
<1>6. chan \in [Conns -> Seq(Messages)] /\ chan' \in [Conns -> Seq(Messages)]
  <2> HIDE DEF Messages, Conns
  <2> QED BY <1>2, <1>3 DEF TypeOK
<1>7. \A d \in Conns : Len(chan[d]) \in Nat
  <2> HIDE DEF Messages, Conns
  <2> QED BY <1>6, LenProperties
<1>8. Shrunk
  <2> SUFFICES ASSUME NEW d \in Conns
               PROVE  \A i \in 1..Len(chan'[d]) :
                        i + 0 \in 1..Len(chan[d]) /\ chan'[d][i] = chan[d][i + 0]
    BY DEF Shrunk
  <2>1. CASE d = link
    BY <1>3, <1>5, <2>1
  <2>2. CASE d # link
    BY <1>5, <1>7, <2>2
  <2> QED BY <2>1, <2>2
<1>9. InFlight \subseteq InFlight' \cup gone'
  <2> SUFFICES ASSUME NEW m \in InFlight PROVE m \in InFlight' \/ m \in gone'
    OBVIOUS
  <2>1. PICK d \in Conns : \E i \in 1..Len(chan[d]) : chan[d][i] = m
    BY <1>6, Flying
  <2>2. PICK i \in 1..Len(chan[d]) : chan[d][i] = m
    BY <2>1
  <2>3. CASE d # link
    BY <1>5, <1>6, <2>1, <2>3, Flying
  <2>4. CASE d = link /\ i <= n
    <3>1. i \in 1..Len(chan'[d]) /\ chan'[d][i] = m
      BY <1>3, <1>5, <2>2, <2>4
    <3> QED BY <1>6, <3>1, Flying
  <2>5. CASE d = link /\ ~(i <= n)
    <3>1. i - n \in 1..Len(chan[link]) - n /\ i - n + n = i
      BY <1>3, <2>2, <2>5
    <3>2. rest[i - n] = m /\ i - n \in DOMAIN rest
      BY <1>4, <2>2, <2>5, <3>1
    <3>3. m \in MessagesIn(rest)
      BY <3>2 DEF MessagesIn
    <3> QED BY <1>2, <3>3 DEF rest
  <2> QED BY <2>3, <2>4, <2>5
<1> QED BY <1>2, <1>8, <1>9 DEF Carried

\* Which of the two every step is.
LEMMA StreamStep ==
  ASSUME TypeOK, [Next]_vars, ~Send
  PROVE  Shrunk /\ Carried \subseteq Carried' /\ gone \subseteq gone' /\ handled \subseteq handled'
<1> USE DEF agentVars, serverVars
<1>1. ASSUME chan' = chan, handled' = handled, gone' = gone
      PROVE  Shrunk /\ Carried \subseteq Carried' /\ gone \subseteq gone' /\ handled \subseteq handled'
  BY <1>1, SameStreams
<1>2. ASSUME NEW r \in Runs, Enqueue(r) PROVE UNCHANGED <<chan, handled, gone>>
  BY <1>2 DEF Enqueue, Put
<1>3. ASSUME Connect PROVE UNCHANGED <<chan, handled, gone>>
  BY <1>3 DEF Connect
<1>4. ASSUME NEW c \in Conns, Delete(c) \/ CloseHandler(c) PROVE UNCHANGED <<chan, handled, gone>>
  BY <1>4 DEF Delete, CloseHandler
<1>5. CASE Drop
  BY <1>5, TailCut DEF Drop
<1>6. CASE Crash
  <2>1. CASE link = 0
    BY <1>1, <1>6, <2>1 DEF Crash
  <2>2. CASE link # 0
    BY <1>6, <2>2, TailCut DEF Crash
  <2> QED BY <2>1, <2>2
<1>7. CASE GatewayRestart
  <2>1. \A c \in Conns : chan'[c] = << >> /\ Len(chan'[c]) = 0
    <3> HIDE DEF Messages, Conns
    <3> QED BY <1>7 DEF GatewayRestart
  <2>2. Shrunk
    <3> SUFFICES ASSUME NEW c \in Conns
                 PROVE  \A i \in 1..Len(chan'[c]) :
                          i + 0 \in 1..Len(chan[c]) /\ chan'[c][i] = chan[c][i + 0]
      BY DEF Shrunk
    <3> QED BY <2>1
  <2> QED BY <1>7, <2>2 DEF GatewayRestart, Carried, InFlight
<1>8. ASSUME NEW c \in Conns, Handle(c) \/ HandleFails(c)
      PROVE  Shrunk /\ Carried \subseteq Carried' /\ gone \subseteq gone' /\ handled \subseteq handled'
  BY <1>8, FirstLeaves DEF Handle, HandleFails
<1>9. ASSUME UNCHANGED vars PROVE UNCHANGED <<chan, handled, gone>>
  BY <1>9 DEF vars
<1> QED BY <1>1, <1>2, <1>3, <1>4, <1>5, <1>6, <1>7, <1>8, <1>9 DEF Next

\* Send adds the oldest message of the disk to the agent's stream.
LEMMA SendStep ==
  ASSUME TypeOK, Send
  PROVE  /\ link \in Conns /\ 1 \in 1..Len(outbox) /\ outbox[1].msg \in OnDisk
         /\ InFlight' = InFlight \cup {outbox[1].msg}
         /\ Len(chan'[link]) = Len(chan[link]) + 1 /\ Len(chan[link]) \in Nat
         /\ \A i \in 1..Len(chan[link]) : chan'[link][i] = chan[link][i]
         /\ chan'[link][Len(chan[link]) + 1] = outbox[1].msg
         /\ \A d \in Conns \ {link} : chan'[d] = chan[d]
         /\ drain' = [drain EXCEPT ![link] = outbox[1].key]
         /\ UNCHANGED <<env, made, next, outbox, crashes, conns, link, open, runs, logs, alerts,
                        handled, gone>>
<1>1. link \in Conns /\ outbox # << >> /\ drain[link] = NoKey
      /\ chan' = [chan EXCEPT ![link] = Append(@, Head(outbox).msg)]
      /\ drain' = [drain EXCEPT ![link] = Head(outbox).key]
      /\ UNCHANGED <<env, made, next, outbox, crashes, conns, link, open, runs, logs, alerts,
                     handled, gone>>
  BY DEF Send, SendEntry, TypeOK, Conns, agentVars, serverVars
<1>2. Head(outbox) = outbox[1] /\ 1 \in 1..Len(outbox) /\ outbox[1] \in Entries
  <2> HIDE DEF Entries
  <2>1. outbox \in Seq(Entries)
    BY DEF TypeOK
  <2>2. Head(outbox) = outbox[1] /\ 1 \in 1..Len(outbox)
    BY <1>1, <2>1, EmptySeq, LenProperties
  <2> QED BY <2>1, <2>2, ElementOfSeq
<1> DEFINE m == outbox[1].msg
<1>3. m \in Messages
  BY <1>2 DEF Entries
<1>4. m \in OnDisk
  BY <1>2, Stored DEF TypeOK
<1>5. /\ Len(chan'[link]) = Len(chan[link]) + 1 /\ Len(chan[link]) \in Nat
      /\ \A i \in 1..Len(chan[link]) : chan'[link][i] = chan[link][i]
      /\ chan'[link][Len(chan[link]) + 1] = m
      /\ \A d \in Conns \ {link} : chan'[d] = chan[d]
      /\ chan' \in [Conns -> Seq(Messages)]
  <2> HIDE DEF Messages, Conns, m
  <2>1. chan[link] \in Seq(Messages) /\ chan'[link] = Append(chan[link], m)
        /\ \A d \in Conns \ {link} : chan'[d] = chan[d]
    BY <1>1, <1>2 DEF TypeOK, m
  <2>2. chan' \in [Conns -> Seq(Messages)]
    BY <1>1, <1>2, <1>3, <2>1, AppendProperties DEF TypeOK, m
  <2> QED BY <1>3, <2>1, <2>2, AppendProperties, LenProperties
<1>6. InFlight' = InFlight \cup {m}
  <2> HIDE DEF m
  <2>0. chan \in [Conns -> Seq(Messages)] /\ chan' \in [Conns -> Seq(Messages)]
    BY <1>5 DEF TypeOK
  <2>1. ASSUME NEW x \in InFlight PROVE x \in InFlight'
    <3>1. PICK d \in Conns : \E i \in 1..Len(chan[d]) : chan[d][i] = x
      BY <2>0, <2>1, Flying
    <3>2. PICK i \in 1..Len(chan[d]) : chan[d][i] = x
      BY <3>1
    <3>3. i \in 1..Len(chan'[d]) /\ chan'[d][i] = x
      BY <1>5, <3>2
    <3> QED BY <2>0, <3>3, Flying
  <2>2. m \in InFlight'
    <3>1. Len(chan[link]) + 1 \in 1..Len(chan'[link])
      BY <1>5
    <3> QED BY <1>1, <1>5, <2>0, <3>1, Flying
  <2>3. ASSUME NEW x \in InFlight' PROVE x \in InFlight \/ x = m
    <3>1. PICK d \in Conns : \E i \in 1..Len(chan'[d]) : chan'[d][i] = x
      BY <2>0, <2>3, Flying
    <3>2. PICK i \in 1..Len(chan'[d]) : chan'[d][i] = x
      BY <3>1
    <3>3. x = m \/ (i \in 1..Len(chan[d]) /\ chan[d][i] = x)
      BY <1>5, <3>2
    <3> QED BY <2>0, <3>3, Flying
  <2> QED BY <2>1, <2>2, <2>3
<1> QED BY <1>1, <1>2, <1>4, <1>5, <1>6

\* Enqueue adds the next message of a run at the end of the disk.
LEMMA EnqueueStep ==
  ASSUME TypeOK, TypeOK', NEW r \in Runs, Enqueue(r)
  PROVE  /\ Len(outbox') = Len(outbox) + 1 /\ Len(outbox) \in Nat
         /\ \A i \in 1..Len(outbox) : outbox'[i] = outbox[i]
         /\ outbox'[Len(outbox) + 1].key = next
         /\ outbox'[Len(outbox) + 1].msg = [run |-> r, kind |-> KindOf(made[r] + 1)]
         /\ made[r] \in 0..2 /\ made'[r] = made[r] + 1 /\ \A q \in Runs \ {r} : made'[q] = made[q]
         /\ next' = next + 1
         /\ UNCHANGED <<env, conns, link, drain, chan, open, runs, logs, alerts, handled, crashes, gone>>
         /\ OnDisk' = OnDisk \cup {[run |-> r, kind |-> KindOf(made[r] + 1)]}
<1> DEFINE e == [key |-> next, msg |-> [run |-> r, kind |-> KindOf(made[r] + 1)]]
<1>1. e \in Entries /\ e.key = next /\ e.msg = [run |-> r, kind |-> KindOf(made[r] + 1)]
  BY DEF TypeOK, Entries, Messages, Kinds, KindOf
<1>2. outbox' = Append(outbox, e) /\ outbox \in Seq(Entries)
  BY DEF Enqueue, Put, TypeOK
<1>3. /\ Len(outbox') = Len(outbox) + 1 /\ Len(outbox) \in Nat
      /\ \A i \in 1..Len(outbox) : outbox'[i] = outbox[i]
      /\ outbox'[Len(outbox) + 1] = e
  <2> HIDE DEF e, Entries
  <2> QED BY <1>1, <1>2, AppendProperties, LenProperties
<1>4. made[r] \in 0..2 /\ made'[r] = made[r] + 1 /\ \A q \in Runs \ {r} : made'[q] = made[q]
  <2>1. made[r] \in 0..4 /\ made[r] < 3
    BY DEF TypeOK, Enqueue
  <2> QED BY <2>1 DEF Enqueue, Put, TypeOK
<1>5. OnDisk' = OnDisk \cup {e.msg}
  <2> HIDE DEF e
  <2>1. outbox \in Seq(Entries) /\ outbox' \in Seq(Entries)
    BY DEF TypeOK
  <2>2. ASSUME NEW m \in OnDisk PROVE m \in OnDisk'
    <3>1. PICK i \in 1..Len(outbox) : outbox[i].msg = m
      BY <2>1, Stored
    <3>2. i \in 1..Len(outbox') /\ outbox'[i].msg = m
      BY <1>3, <3>1
    <3> QED BY <2>1, <3>2, Stored
  <2>3. e.msg \in OnDisk'
    <3>1. Len(outbox) + 1 \in 1..Len(outbox')
      BY <1>3
    <3> QED BY <1>3, <2>1, <3>1, Stored
  <2>4. ASSUME NEW m \in OnDisk' PROVE m \in OnDisk \/ m = e.msg
    <3>1. PICK i \in 1..Len(outbox') : outbox'[i].msg = m
      BY <2>1, Stored
    <3>2. m = e.msg \/ (i \in 1..Len(outbox) /\ outbox[i].msg = m)
      BY <1>3, <3>1
    <3> QED BY <2>1, <3>2, Stored
  <2> QED BY <2>2, <2>3, <2>4
<1> QED BY <1>1, <1>3, <1>4, <1>5 DEF Enqueue, Put, serverVars

\* Only Enqueue and Delete write the disk.
LEMMA DiskStep ==
  ASSUME TypeOK, [Next]_vars
  PROVE  \/ UNCHANGED outbox
         \/ \E r \in Runs : Enqueue(r)
         \/ \E c \in Conns : Delete(c)
BY DEF Next, Connect, Send, SendEntry, Drop, Crash, GatewayRestart, Handle, HandleFails,
   CloseHandler, agentVars, vars

\* Keys keep ascending: a new entry takes the counter's key, which a restart
\* seeds from the last one.
LEMMA KeysStep ==
  ASSUME TypeOK, TypeOK', KeysAscend, [Next]_vars
  PROVE  KeysAscend'
<1>1. /\ DOMAIN outbox = 1..Len(outbox) /\ Len(outbox) \in Nat
      /\ DOMAIN outbox' = 1..Len(outbox') /\ Len(outbox') \in Nat
      /\ \A i \in 1..Len(outbox) : outbox[i].key \in Nat
      /\ next \in Nat
  BY Stored DEF TypeOK, Entries
<1>2. /\ \A i, j \in 1..Len(outbox) : i < j => outbox[i].key < outbox[j].key
      /\ \A i \in 1..Len(outbox) : outbox[i].key < next
  BY <1>1 DEF KeysAscend
<1>3. SUFFICES /\ \A i, j \in 1..Len(outbox') : i < j => outbox'[i].key < outbox'[j].key
               /\ \A i \in 1..Len(outbox') : outbox'[i].key < next'
  BY <1>1 DEF KeysAscend
<1>4. ASSUME NEW r \in Runs, Enqueue(r)
      PROVE  /\ \A i, j \in 1..Len(outbox') : i < j => outbox'[i].key < outbox'[j].key
             /\ \A i \in 1..Len(outbox') : outbox'[i].key < next'
  <2>1. /\ Len(outbox') = Len(outbox) + 1 /\ next' = next + 1
        /\ \A i \in 1..Len(outbox) : outbox'[i] = outbox[i]
        /\ outbox'[Len(outbox) + 1].key = next
    BY <1>4, EnqueueStep
  <2>2. \A i \in 1..Len(outbox') : i \in 1..Len(outbox) \/ i = Len(outbox) + 1
    BY <1>1, <2>1
  <2> QED BY <1>1, <1>2, <2>1, <2>2
<1>5. ASSUME NEW c \in Conns, Delete(c)
      PROVE  /\ \A i, j \in 1..Len(outbox') : i < j => outbox'[i].key < outbox'[j].key
             /\ \A i \in 1..Len(outbox') : outbox'[i].key < next'
  <2>1. outbox' = DeleteKey(drain[c]) /\ next' = next
    BY <1>5 DEF Delete
  <2>2. CASE outbox' = outbox
    BY <1>2, <2>1, <2>2
  <2>3. ASSUME NEW q \in 1..Len(outbox), Len(outbox') = Len(outbox) - 1,
               \A i \in 1..Len(outbox') :
                 outbox'[i] = IF i < q THEN outbox[i] ELSE outbox[i + 1]
        PROVE  /\ \A i, j \in 1..Len(outbox') : i < j => outbox'[i].key < outbox'[j].key
               /\ \A i \in 1..Len(outbox') : outbox'[i].key < next'
    <3>1. \A i \in 1..Len(outbox') : i \in 1..Len(outbox) /\ i + 1 \in 1..Len(outbox)
      BY <1>1, <2>3
    <3>2. ASSUME NEW i \in 1..Len(outbox'), NEW j \in 1..Len(outbox'), i < j
          PROVE  outbox'[i].key < outbox'[j].key
      <4>0. /\ i \in Int /\ j \in Int /\ q \in Int
            /\ outbox'[i] = IF i < q THEN outbox[i] ELSE outbox[i + 1]
            /\ outbox'[j] = IF j < q THEN outbox[j] ELSE outbox[j + 1]
        BY <1>1, <2>3
      <4>1. CASE j < q
        <5>1. outbox'[i] = outbox[i] /\ outbox'[j] = outbox[j]
          BY <3>2, <4>0, <4>1
        <5> QED BY <1>2, <3>1, <3>2, <5>1
      <4>2. CASE i < q /\ ~(j < q)
        <5>1. outbox'[i] = outbox[i] /\ outbox'[j] = outbox[j + 1] /\ i < j + 1
          BY <3>2, <4>0, <4>2
        <5>2. outbox[i].key < outbox[j + 1].key
          BY <1>2, <3>1, <5>1
        <5> QED BY <5>1, <5>2
      <4>3. CASE ~(i < q)
        <5>1. outbox'[i] = outbox[i + 1] /\ outbox'[j] = outbox[j + 1] /\ i + 1 < j + 1
          BY <3>2, <4>0, <4>3
        <5>2. outbox[i + 1].key < outbox[j + 1].key
          BY <1>2, <3>1, <5>1
        <5> QED BY <5>1, <5>2
      <4> QED BY <4>1, <4>2, <4>3
    <3>3. ASSUME NEW i \in 1..Len(outbox') PROVE outbox'[i].key < next'
      BY <1>2, <2>1, <2>3, <3>1
    <3> QED BY <3>2, <3>3
  <2> QED BY <2>1, <2>2, <2>3, Deleted DEF TypeOK
<1>6. CASE Crash
  <2>1. outbox' = outbox /\ next' = SeedNext
    BY <1>6 DEF Crash
  <2>2. \A i \in 1..Len(outbox) : outbox[i].key < next'
    <3>1. CASE Len(outbox) = 0
      BY <3>1
    <3>2. CASE Len(outbox) # 0
      <4>1. Len(outbox) \in 1..Len(outbox) /\ outbox # << >>
        BY <1>1, <3>2
      <4>2. next' = outbox[Len(outbox)].key + 1
        BY <2>1, <4>1 DEF SeedNext
      <4> QED BY <1>1, <1>2, <4>1, <4>2
    <3> QED BY <3>1, <3>2
  <2> QED BY <1>2, <2>1, <2>2
<1>7. CASE UNCHANGED outbox /\ ~Crash /\ \A r \in Runs : ~Enqueue(r)
  <2>1. next' = next
    BY <1>7 DEF Next, Connect, Send, SendEntry, Drop, GatewayRestart, Delete, Handle, HandleFails,
       CloseHandler, agentVars, vars
  <2> QED BY <1>2, <1>7, <2>1
<1> QED BY <1>4, <1>5, <1>6, <1>7, DiskStep

\* What a drain loop has sent and is about to delete was handed to a stream.
DrainInv ==
  \A c \in Conns : drain[c] # NoKey =>
    /\ drain[c] < next
    /\ \A i \in 1..Len(outbox) : outbox[i].key = drain[c] => outbox[i].msg \in Carried

\* Everything handed to a stream stays accounted for.
LEMMA CarriedStep == ASSUME TypeOK, [Next]_vars PROVE Carried \subseteq Carried'
<1>1. CASE Send
  BY <1>1, SendStep DEF Carried
<1>2. CASE ~Send
  BY <1>2, StreamStep
<1> QED BY <1>1, <1>2

LEMMA DrainStep ==
  ASSUME TypeOK, TypeOK', KeysAscend, DrainInv, [Next]_vars
  PROVE  DrainInv'
<1>1. /\ DOMAIN outbox = 1..Len(outbox) /\ Len(outbox) \in Nat
      /\ DOMAIN outbox' = 1..Len(outbox') /\ Len(outbox') \in Nat
      /\ \A i \in 1..Len(outbox) : outbox[i].key \in Nat
      /\ next \in Nat /\ NoKey = -1
      /\ \A c \in Conns : drain[c] \in Nat \cup {NoKey}
  BY Stored DEF TypeOK, Entries, NoKey
<1>2. Carried \subseteq Carried'
  BY CarriedStep
<1>3. /\ \A i, j \in 1..Len(outbox) : i < j => outbox[i].key < outbox[j].key
      /\ \A i \in 1..Len(outbox) : outbox[i].key < next
  BY <1>1 DEF KeysAscend
<1> SUFFICES ASSUME NEW c \in Conns, drain'[c] # NoKey
             PROVE  /\ drain'[c] < next'
                    /\ \A i \in 1..Len(outbox') :
                         outbox'[i].key = drain'[c] => outbox'[i].msg \in Carried'
  BY DEF DrainInv
<1>4. CASE \E r \in Runs : Enqueue(r)
  <2>1. PICK r \in Runs : Enqueue(r)
    BY <1>4
  <2>2. /\ Len(outbox') = Len(outbox) + 1 /\ next' = next + 1 /\ drain' = drain
        /\ \A i \in 1..Len(outbox) : outbox'[i] = outbox[i]
        /\ outbox'[Len(outbox) + 1].key = next
    BY <2>1, EnqueueStep
  <2>3. \A i \in 1..Len(outbox') : i \in 1..Len(outbox) \/ i = Len(outbox) + 1
    BY <1>1, <2>2
  <2>4. drain[c] < next /\ drain[c] \in Nat
    BY <1>1, <2>2 DEF DrainInv
  <2> QED BY <1>1, <1>2, <2>2, <2>3, <2>4 DEF DrainInv
<1>5. CASE \E d \in Conns : Delete(d)
  <2>1. PICK d \in Conns : Delete(d)
    BY <1>5
  <2>2. drain'[c] = drain[c] /\ next' = next /\ outbox' = DeleteKey(drain[d])
    BY <2>1 DEF Delete, TypeOK
  <2>3. \A i \in 1..Len(outbox') : \E j \in 1..Len(outbox) : outbox'[i] = outbox[j]
    <3>1. CASE outbox' = outbox
      BY <3>1
    <3>2. ASSUME NEW q \in 1..Len(outbox), Len(outbox') = Len(outbox) - 1,
                 \A i \in 1..Len(outbox') :
                   outbox'[i] = IF i < q THEN outbox[i] ELSE outbox[i + 1]
          PROVE  \A i \in 1..Len(outbox') : \E j \in 1..Len(outbox) : outbox'[i] = outbox[j]
      <4>1. \A i \in 1..Len(outbox') : i \in 1..Len(outbox) /\ i + 1 \in 1..Len(outbox)
        BY <1>1, <3>2
      <4> QED BY <3>2, <4>1
    <3> QED BY <2>2, <3>1, <3>2, Deleted DEF TypeOK
  <2> QED BY <1>2, <2>2, <2>3 DEF DrainInv
<1>6. CASE Crash
  BY <1>6 DEF Crash
<1>7. CASE Send
  <2>1. /\ link \in Conns /\ 1 \in 1..Len(outbox) /\ outbox' = outbox /\ next' = next
        /\ drain' = [drain EXCEPT ![link] = outbox[1].key] /\ outbox[1].msg \in InFlight'
    BY <1>7, SendStep
  <2>2. CASE c = link
    <3>1. drain'[c] = outbox[1].key
      BY <2>1, <2>2 DEF TypeOK
    <3>2. \A i \in 1..Len(outbox) : outbox[i].key = outbox[1].key => i = 1
      BY <1>1, <1>3, <2>1
    <3> QED BY <1>3, <2>1, <3>1, <3>2 DEF Carried
  <2>3. CASE c # link
    <3>1. drain'[c] = drain[c]
      BY <2>1, <2>3 DEF TypeOK
    <3> QED BY <1>2, <2>1, <3>1 DEF DrainInv
  <2> QED BY <2>2, <2>3
<1>8. CASE /\ ~Send /\ ~Crash /\ ~(\E r \in Runs : Enqueue(r)) /\ ~(\E d \in Conns : Delete(d))
  <2>1. outbox' = outbox /\ next' = next /\ drain' = drain
    BY <1>8 DEF Next, Connect, Drop, GatewayRestart, Handle, HandleFails, CloseHandler, agentVars, vars
  <2> QED BY <1>2, <2>1 DEF DrainInv
<1> QED BY <1>4, <1>5, <1>6, <1>7, <1>8

\* What Delete takes from the disk was handed to a stream; the rest keeps its order.
LEMMA DeleteStep ==
  ASSUME TypeOK, TypeOK', DrainInv, NEW c \in Conns, Delete(c)
  PROVE  /\ OnDisk' \subseteq OnDisk /\ OnDisk \subseteq OnDisk' \cup Carried
         /\ \A i, j \in 1..Len(outbox') : i < j =>
              \E k, l \in 1..Len(outbox) : k < l /\ outbox'[i] = outbox[k] /\ outbox'[j] = outbox[l]
<1>1. outbox \in Seq(Entries) /\ outbox' \in Seq(Entries)
  BY DEF TypeOK
<1>2. Len(outbox) \in Nat /\ Len(outbox') \in Nat
  BY <1>1, Stored
<1>3. outbox' = DeleteKey(drain[c]) /\ drain[c] # NoKey
  BY DEF Delete
<1>4. CASE outbox' = outbox
  <2>1. OnDisk' = OnDisk
    BY <1>4 DEF OnDisk
  <2> QED BY <1>4, <2>1
<1>5. ASSUME NEW q \in 1..Len(outbox), outbox[q].key = drain[c],
             Len(outbox') = Len(outbox) - 1,
             \A i \in 1..Len(outbox') :
               outbox'[i] = IF i < q THEN outbox[i] ELSE outbox[i + 1]
      PROVE  /\ OnDisk' \subseteq OnDisk /\ OnDisk \subseteq OnDisk' \cup Carried
             /\ \A i, j \in 1..Len(outbox') : i < j =>
                  \E k, l \in 1..Len(outbox) :
                    k < l /\ outbox'[i] = outbox[k] /\ outbox'[j] = outbox[l]
  <2>1. \A i \in 1..Len(outbox') : i \in 1..Len(outbox) /\ i + 1 \in 1..Len(outbox)
    BY <1>2, <1>5
  <2>2. ASSUME NEW m \in OnDisk' PROVE m \in OnDisk
    <3>1. PICK i \in 1..Len(outbox') : outbox'[i].msg = m
      BY <1>1, <2>2, Stored
    <3>2. \E k \in 1..Len(outbox) : outbox[k].msg = m
      BY <1>5, <2>1, <3>1
    <3> QED BY <1>1, <3>2, Stored
  <2>3. ASSUME NEW m \in OnDisk PROVE m \in OnDisk' \cup Carried
    <3>1. PICK i \in 1..Len(outbox) : outbox[i].msg = m
      BY <1>1, <2>3, Stored
    <3>2. CASE i = q
      BY <1>3, <1>5, <3>1, <3>2 DEF DrainInv
    <3>3. CASE i < q
      <4>1. i \in 1..Len(outbox') /\ outbox'[i].msg = m
        BY <1>2, <1>5, <3>1, <3>3
      <4> QED BY <1>1, <4>1, Stored
    <3>4. CASE i > q
      <4>1. i - 1 \in 1..Len(outbox') /\ ~(i - 1 < q) /\ (i - 1) + 1 = i
        BY <1>2, <1>5, <3>1, <3>4
      <4>2. outbox'[i - 1].msg = m
        BY <1>5, <3>1, <4>1
      <4> QED BY <1>1, <4>1, <4>2, Stored
    <3> QED BY <1>2, <3>2, <3>3, <3>4
  <2>4. ASSUME NEW i \in 1..Len(outbox'), NEW j \in 1..Len(outbox'), i < j
        PROVE  \E k, l \in 1..Len(outbox) :
                 k < l /\ outbox'[i] = outbox[k] /\ outbox'[j] = outbox[l]
    <3>1. CASE j < q
      <4>1. outbox'[i] = outbox[i] /\ outbox'[j] = outbox[j] /\ i < q
        BY <1>2, <1>5, <2>4, <3>1
      <4> QED BY <2>1, <2>4, <4>1
    <3>2. CASE i < q /\ ~(j < q)
      <4>1. outbox'[i] = outbox[i] /\ outbox'[j] = outbox[j + 1] /\ i < j + 1
        BY <1>5, <2>4, <3>2
      <4> QED BY <2>1, <4>1
    <3>3. CASE ~(i < q)
      <4>1. outbox'[i] = outbox[i + 1] /\ outbox'[j] = outbox[j + 1] /\ i + 1 < j + 1
        BY <1>5, <2>4, <3>3
      <4> QED BY <2>1, <4>1
    <3> QED BY <3>1, <3>2, <3>3
  <2> QED BY <2>2, <2>3, <2>4
<1>6. \/ outbox' = outbox
      \/ \E q \in 1..Len(outbox) :
           /\ outbox[q].key = drain[c]
           /\ Len(outbox') = Len(outbox) - 1
           /\ \A i \in 1..Len(outbox') :
                outbox'[i] = IF i < q THEN outbox[i] ELSE outbox[i + 1]
  BY <1>1, <1>3, Deleted
<1> QED BY <1>4, <1>5, <1>6

\* Accounted, run by run.
LEMMA AccountedMeans ==
  ASSUME TypeOK
  PROVE  Accounted <=> \A r \in Runs : \A n \in 1..3 :
           (made[r] < 4 /\ n <= made[r]) => Queued(r, n) \in OnDisk \cup Carried
<1>1. \A r \in Runs : made[r] \in 0..4
  BY DEF TypeOK
<1>2. \A r \in Runs : \A n \in 1..3 :
        (made[r] < 4 /\ n <= made[r]) => Queued(r, n) \in AllQueued
  BY <1>1 DEF AllQueued, Queued, KindOf, Messages, Kinds
<1>3. \A m \in AllQueued : \E r \in Runs : \E n \in 1..3 :
        made[r] < 4 /\ n <= made[r] /\ m = Queued(r, n)
  BY <1>1 DEF AllQueued, Queued, KindOf
<1> QED BY <1>2, <1>3 DEF Accounted, Carried

\* No message is lost: Delete takes only what was sent, a crash only what nobody
\* will ask for.
LEMMA AccountedStep ==
  ASSUME TypeOK, TypeOK', DrainInv, Accounted, [Next]_vars
  PROVE  Accounted'
<1>0. \A r \in Runs : \A n \in 1..3 :
        (made[r] < 4 /\ n <= made[r]) => Queued(r, n) \in OnDisk \cup Carried
  BY AccountedMeans
<1>1. SUFFICES ASSUME NEW r \in Runs, NEW n \in 1..3, made'[r] < 4, n <= made'[r]
               PROVE  Queued(r, n) \in OnDisk' \cup Carried'
  <2>1. \A q \in Runs : made'[q] \in 0..4
    BY DEF TypeOK
  <2>2. \A m \in AllQueued' : \E q \in Runs : \E k \in 1..3 :
          made'[q] < 4 /\ k <= made'[q] /\ m = Queued(q, k)
    BY <2>1 DEF AllQueued, Queued, KindOf
  <2>3. Carried' = InFlight' \cup handled' \cup gone'
    BY DEF Carried
  <2> QED BY <1>1, <2>2, <2>3 DEF Accounted
<1>2. Carried \subseteq Carried'
  BY CarriedStep
<1>3. CASE \E q \in Runs : Enqueue(q)
  <2>1. PICK q \in Runs : Enqueue(q)
    BY <1>3
  <2>2. /\ made[q] \in 0..2 /\ made'[q] = made[q] + 1 /\ \A p \in Runs \ {q} : made'[p] = made[p]
        /\ OnDisk' = OnDisk \cup {Queued(q, made[q] + 1)}
    BY <2>1, EnqueueStep DEF Queued
  <2>3. CASE r = q /\ n = made[q] + 1
    BY <2>2, <2>3
  <2>4. CASE r # q \/ n # made[q] + 1
    <3>1. made[r] < 4 /\ n <= made[r]
      BY <1>1, <2>2, <2>4
    <3> QED BY <1>0, <1>2, <2>2, <3>1
  <2> QED BY <2>3, <2>4
<1>4. CASE \E c \in Conns : Delete(c)
  <2>1. OnDisk \subseteq OnDisk' \cup Carried /\ made' = made
    BY <1>4, DeleteStep DEF Delete
  <2> QED BY <1>0, <1>1, <1>2, <2>1
<1>5. CASE UNCHANGED outbox /\ ~\E q \in Runs : Enqueue(q)
  <2>1. OnDisk' = OnDisk
    BY <1>5 DEF OnDisk
  <2>2. made'[r] = made[r]
    <3>1. CASE Crash
      BY <1>1, <3>1 DEF Crash, TypeOK
    <3>2. CASE ~Crash
      BY <1>5, <3>2 DEF Next, Connect, Send, SendEntry, Drop, GatewayRestart, Delete, Handle,
         HandleFails, CloseHandler, agentVars, vars
    <3> QED BY <3>1, <3>2
  <2> QED BY <1>0, <1>1, <1>2, <2>1, <2>2
<1> QED BY <1>3, <1>4, <1>5, DiskStep

-----------------------------------------------------------------------------
(***************************************************************************)
(* Order.  Only the oldest message is ever sent, so what was handled, what *)
(* is in flight and what is on disk follow one another, except that a      *)
(* message may be there twice.  Handlers that overlap would break this.    *)
(***************************************************************************)
Rank(m) == IF m.kind = "started" THEN 1 ELSE IF m.kind = "log" THEN 2 ELSE 3

Below(m, n) == m.run = n.run => Rank(m) <= Rank(n)

\* A run has queued nothing beyond what it made, unless it died.
MadeInv ==
  \A m \in OnDisk \cup InFlight \cup handled : made[m.run] # 4 => Rank(m) <= made[m.run]

\* Messages travel only on streams with a handler; there is one, unless they overlap.
OneHandler ==
  /\ link # 0 => link \in open
  /\ \A c \in Conns : \A i \in 1..Len(chan[c]) : c \in open
  /\ ~Overlap => \A c, d \in open : c = d

DiskOrder == \A i, j \in 1..Len(outbox) : i < j => Below(outbox[i].msg, outbox[j].msg)

FlowOrder ==
  /\ \A c \in Conns : \A i, j \in 1..Len(chan[c]) : i < j => Below(chan[c][i], chan[c][j])
  /\ \A m \in InFlight : \A e \in OnDisk : Below(m, e)
  /\ \A h \in handled : \A m \in InFlight \cup OnDisk : Below(h, m)

InOrder == DiskOrder /\ (~Overlap => FlowOrder)

\* The messages the proofs speak of are messages.
LEMMA MessagesEverywhere ==
  ASSUME TypeOK
  PROVE  \A m \in OnDisk \cup InFlight \cup handled :
           m \in Messages /\ m.run \in Runs /\ m.kind \in Kinds /\ Rank(m) \in 1..3
<1>1. ASSUME NEW m \in OnDisk PROVE m \in Messages
  BY <1>1, Stored DEF TypeOK, Entries
<1>2. ASSUME NEW m \in InFlight PROVE m \in Messages
  <2>1. PICK c \in Conns : \E i \in 1..Len(chan[c]) : chan[c][i] = m
    BY <1>2, Flying DEF TypeOK
  <2>2. chan[c] \in Seq(Messages)
    BY DEF TypeOK
  <2> HIDE DEF Messages
  <2> QED BY <2>1, <2>2, ElementOfSeq
<1>3. \A m \in Messages : m.run \in Runs /\ m.kind \in Kinds /\ Rank(m) \in 1..3
  BY DEF Messages, Rank
<1> QED BY <1>1, <1>2, <1>3 DEF TypeOK

\* What a step may add where.
LEMMA Gains ==
  ASSUME TypeOK, TypeOK', [Next]_vars
  PROVE  /\ env' = env
         /\ handled' \subseteq handled \cup InFlight
         /\ ~Send => InFlight' \subseteq InFlight
         /\ \A r \in Runs : made'[r] # 4 => made[r] # 4 /\ made[r] <= made'[r]
<1>1. env' = env
  BY DEF Next, Enqueue, Put, Connect, Send, SendEntry, Delete, Drop, Crash, GatewayRestart, Handle,
     HandleFails, CloseHandler, agentVars, vars
<1>2. handled' \subseteq handled \cup InFlight
  <2>1. CASE \E c \in Conns : Handle(c)
    <3>1. PICK c \in Conns : Handle(c)
      BY <2>1
    <3>2. handled' = handled \cup {Head(chan[c])} /\ chan[c] # << >>
          /\ chan' = [chan EXCEPT ![c] = Tail(@)] /\ gone' = gone
      BY <3>1 DEF Handle
    <3> QED BY <3>2, FirstLeaves
  <2>2. CASE ~\E c \in Conns : Handle(c)
    <3>1. handled' = handled
      BY <2>2 DEF Next, Enqueue, Put, Connect, Send, SendEntry, Delete, Drop, Crash, GatewayRestart,
         HandleFails, CloseHandler, serverVars, vars
    <3> QED BY <3>1
  <2> QED BY <2>1, <2>2
<1>3. ASSUME ~Send PROVE InFlight' \subseteq InFlight
  <2> SUFFICES ASSUME NEW m \in InFlight' PROVE m \in InFlight
    OBVIOUS
  <2>1. PICK c \in Conns : \E i \in 1..Len(chan'[c]) : chan'[c][i] = m
    BY Flying DEF TypeOK
  <2>2. \E i \in 1..Len(chan[c]) : chan[c][i] = m
    BY <1>3, <2>1, StreamStep DEF Shrunk
  <2> QED BY <2>2, Flying DEF TypeOK
<1>4. \A r \in Runs : made'[r] # 4 => made[r] # 4 /\ made[r] <= made'[r]
  <2>0. \A r \in Runs : made[r] \in 0..4
    BY DEF TypeOK
  <2>1. CASE \E r \in Runs : Enqueue(r)
    <3>1. PICK r \in Runs : Enqueue(r)
      BY <2>1
    <3>2. made[r] \in 0..2 /\ made'[r] = made[r] + 1 /\ \A q \in Runs \ {r} : made'[q] = made[q]
      BY <3>1, EnqueueStep
    <3> QED BY <2>0, <3>2
  <2>2. CASE Crash
    <3>1. \A r \in Runs : made'[r] = IF made[r] \in {1, 2} THEN 4 ELSE made[r]
      BY <2>2 DEF Crash
    <3> QED BY <2>0, <3>1
  <2>3. CASE ~Crash /\ ~\E r \in Runs : Enqueue(r)
    <3>1. made' = made
      BY <2>3 DEF Next, Connect, Send, SendEntry, Delete, Drop, GatewayRestart, Handle, HandleFails,
         CloseHandler, agentVars, vars
    <3> QED BY <2>0, <3>1
  <2> QED BY <2>1, <2>2, <2>3
<1> QED BY <1>1, <1>2, <1>3, <1>4

LEMMA MadeStep ==
  ASSUME TypeOK, TypeOK', DrainInv, MadeInv, [Next]_vars
  PROVE  MadeInv'
<1>0. /\ \A m \in OnDisk \cup InFlight \cup handled : m.run \in Runs /\ Rank(m) \in 1..3
      /\ \A r \in Runs : made[r] \in 0..4 /\ made'[r] \in 0..4
  BY MessagesEverywhere DEF TypeOK
<1>1. ASSUME NEW m \in OnDisk \cup InFlight \cup handled, made'[m.run] # 4
      PROVE  Rank(m) <= made'[m.run]
  <2>1. made[m.run] # 4 /\ made[m.run] <= made'[m.run]
    BY <1>0, <1>1, Gains
  <2>2. Rank(m) <= made[m.run]
    BY <1>1, <2>1 DEF MadeInv
  <2> QED BY <1>0, <1>1, <2>1, <2>2
<1>2. CASE \E r \in Runs : Enqueue(r)
  <2>1. PICK r \in Runs : Enqueue(r)
    BY <1>2
  <2> DEFINE new == [run |-> r, kind |-> KindOf(made[r] + 1)]
  <2>2. /\ made[r] \in 0..2 /\ made'[r] = made[r] + 1
        /\ OnDisk' = OnDisk \cup {new} /\ handled' = handled /\ chan' = chan
    BY <2>1, EnqueueStep
  <2>3. InFlight' = InFlight
    BY <2>2 DEF InFlight
  <2>4. Rank(new) = made'[r] /\ new.run = r
    BY <2>2 DEF Rank, KindOf
  <2> HIDE DEF new
  <2> QED BY <1>0, <1>1, <2>2, <2>3, <2>4 DEF MadeInv
<1>3. CASE ~\E r \in Runs : Enqueue(r)
  <2>1. OnDisk' \subseteq OnDisk
    <3>1. CASE \E c \in Conns : Delete(c)
      BY <3>1, DeleteStep
    <3>2. CASE outbox' = outbox
      BY <3>2 DEF OnDisk
    <3> QED BY <1>3, <3>1, <3>2, DiskStep
  <2>2. InFlight' \subseteq InFlight \cup OnDisk
    <3>1. CASE Send
      BY <3>1, SendStep
    <3>2. CASE ~Send
      BY <3>2, Gains
    <3> QED BY <3>1, <3>2
  <2>3. handled' \subseteq handled \cup InFlight
    BY Gains
  <2> QED BY <1>1, <2>1, <2>2, <2>3 DEF MadeInv
<1> QED BY <1>2, <1>3

LEMMA HandlerStep ==
  ASSUME TypeOK, TypeOK', OneHandler, [Next]_vars
  PROVE  OneHandler'
<1>1. (Overlap)' = Overlap
  BY Gains DEF Overlap
<1>2. ASSUME NEW c \in Conns PROVE \A i \in 1..Len(chan'[c]) : c \in open'
  <2>1. CASE Send
    BY <1>2, <2>1, SendStep, SendStep DEF OneHandler, Send, SendEntry
  <2>2. CASE GatewayRestart
    <3>1. chan'[c] = << >>
      BY <2>2 DEF GatewayRestart
    <3> QED BY <3>1
  <2>3. CASE ~Send /\ ~GatewayRestart
    <3>1. ASSUME NEW i \in 1..Len(chan'[c]) PROVE c \in open
      BY <2>3, <3>1, StreamStep DEF OneHandler, Shrunk
    <3>2. CASE CloseHandler(c)
      <4>1. chan'[c] = << >>
        BY <3>2 DEF CloseHandler
      <4> QED BY <4>1
    <3>3. CASE ~CloseHandler(c)
      <4>1. c \in open => c \in open'
        BY <2>3, <3>3 DEF Next, Enqueue, Put, Connect, Delete, Drop, Crash, Handle, HandleFails,
           CloseHandler, vars
      <4> QED BY <3>1, <4>1
    <3> QED BY <3>2, <3>3
  <2> QED BY <2>1, <2>2, <2>3
<1>3. link' # 0 => link' \in open'
  <2>1. CASE Connect
    BY <2>1 DEF Connect
  <2>2. CASE Drop \/ Crash \/ GatewayRestart
    BY <2>2 DEF Drop, Crash, GatewayRestart
  <2>3. CASE \E c \in Conns : CloseHandler(c)
    BY <2>3 DEF CloseHandler, OneHandler
  <2>4. CASE ~Connect /\ ~Drop /\ ~Crash /\ ~GatewayRestart /\ ~\E c \in Conns : CloseHandler(c)
    <3>1. link' = link /\ open' = open
      BY <2>4 DEF Next, Enqueue, Put, Send, SendEntry, Delete, Handle, HandleFails, vars
    <3> QED BY <3>1 DEF OneHandler
  <2> QED BY <2>1, <2>2, <2>3, <2>4
<1>4. ASSUME ~Overlap, NEW c \in open', NEW d \in open' PROVE c = d
  <2>1. CASE Connect
    BY <1>4, <2>1 DEF Connect
  <2>2. CASE ~Connect
    <3>1. open' \subseteq open
      BY <2>2 DEF Next, Enqueue, Put, Send, SendEntry, Delete, Drop, Crash, GatewayRestart, Handle,
         HandleFails, CloseHandler, vars
    <3> QED BY <1>4, <3>1 DEF OneHandler
  <2> QED BY <2>1, <2>2
<1> QED BY <1>1, <1>2, <1>3, <1>4 DEF OneHandler

\* Steps that leave the disk and the handled messages as they are, and only take
\* messages out of streams, keep their order.
LEMMA FlowFrame ==
  ASSUME TypeOK, TypeOK', FlowOrder, Shrunk, InFlight' \subseteq InFlight, OnDisk' \subseteq OnDisk,
         handled' = handled
  PROVE  FlowOrder'
<1>1. ASSUME NEW c \in Conns, NEW i \in 1..Len(chan'[c]), NEW j \in 1..Len(chan'[c]), i < j
      PROVE  Below(chan'[c][i], chan'[c][j])
  <2>1. PICK o \in Nat : \A k \in 1..Len(chan'[c]) :
          k + o \in 1..Len(chan[c]) /\ chan'[c][k] = chan[c][k + o]
    BY DEF Shrunk
  <2>2. i + o < j + o /\ i + o \in 1..Len(chan[c]) /\ j + o \in 1..Len(chan[c])
    BY <1>1, <2>1
  <2> QED BY <2>1, <2>2 DEF FlowOrder
<1> QED BY <1>1 DEF FlowOrder

\* Order is kept.
LEMMA OrderStep ==
  ASSUME TypeOK, TypeOK', DrainInv, MadeInv, OneHandler, InOrder, [Next]_vars
  PROVE  InOrder'
<1>0. /\ (Overlap)' = Overlap
      /\ Len(outbox) \in Nat /\ Len(outbox') \in Nat
      /\ \A m \in OnDisk \cup InFlight \cup handled : m.run \in Runs /\ Rank(m) \in 1..3
      /\ \A i \in 1..Len(outbox) : outbox[i].msg \in OnDisk
  BY Gains, MessagesEverywhere, Stored DEF TypeOK, Overlap
<1>1. ASSUME NEW r \in Runs, Enqueue(r) PROVE InOrder'
  <2> DEFINE new == [run |-> r, kind |-> KindOf(made[r] + 1)]
             n == Len(outbox)
  <2>1. /\ Len(outbox') = n + 1 /\ n \in Nat
        /\ \A i \in 1..n : outbox'[i] = outbox[i]
        /\ outbox'[n + 1].msg = new
        /\ made[r] \in 0..2
        /\ OnDisk' = OnDisk \cup {new} /\ handled' = handled /\ chan' = chan
    BY <1>1, EnqueueStep
  <2>2. InFlight' = InFlight
    BY <2>1 DEF InFlight
  <2>3. Rank(new) = made[r] + 1 /\ new.run = r
    BY <2>1 DEF Rank, KindOf
  <2> HIDE DEF new
  <2>4. \A m \in OnDisk \cup InFlight \cup handled : Below(m, new)
    BY <1>0, <2>1, <2>3 DEF Below, MadeInv
  <2>5. DiskOrder'
    <3>1. \A i \in 1..Len(outbox') : i \in 1..n \/ i = n + 1
      BY <2>1
    <3>2. ASSUME NEW i \in 1..Len(outbox'), NEW j \in 1..Len(outbox'), i < j
          PROVE  Below(outbox'[i].msg, outbox'[j].msg)
      <4>1. i \in 1..n
        BY <2>1, <3>2
      <4>2. CASE j \in 1..n
        BY <2>1, <3>2, <4>1, <4>2 DEF InOrder, DiskOrder
      <4>3. CASE j = n + 1
        BY <1>0, <2>1, <2>4, <4>1, <4>3
      <4> QED BY <3>1, <4>2, <4>3
    <3> QED BY <3>2 DEF DiskOrder
  <2>6. FlowOrder => FlowOrder'
    BY <2>1, <2>2, <2>4 DEF FlowOrder
  <2> QED BY <1>0, <2>5, <2>6 DEF InOrder
<1>2. ASSUME NEW c \in Conns, Delete(c) PROVE InOrder'
  <2>1. /\ OnDisk' \subseteq OnDisk
        /\ \A i, j \in 1..Len(outbox') : i < j =>
             \E k, l \in 1..Len(outbox) : k < l /\ outbox'[i] = outbox[k] /\ outbox'[j] = outbox[l]
    BY <1>2, DeleteStep
  <2>2. chan' = chan /\ handled' = handled
    BY <1>2 DEF Delete, serverVars
  <2>3. InFlight' = InFlight
    BY <2>2 DEF InFlight
  <2>4. DiskOrder'
    BY <2>1 DEF InOrder, DiskOrder
  <2>5. FlowOrder => FlowOrder'
    BY <2>1, <2>2, <2>3 DEF FlowOrder
  <2> QED BY <1>0, <2>4, <2>5 DEF InOrder
<1>3. ASSUME UNCHANGED outbox PROVE (DiskOrder)' /\ OnDisk' = OnDisk
  BY <1>3 DEF InOrder, DiskOrder, OnDisk
<1>4. CASE Send
  <2> DEFINE m == outbox[1].msg
             n == Len(chan[link])
  <2>1. /\ link \in Conns /\ 1 \in 1..Len(outbox) /\ m \in OnDisk
        /\ InFlight' = InFlight \cup {m}
        /\ Len(chan'[link]) = n + 1 /\ n \in Nat
        /\ \A i \in 1..n : chan'[link][i] = chan[link][i]
        /\ chan'[link][n + 1] = m
        /\ \A d \in Conns \ {link} : chan'[d] = chan[d]
        /\ outbox' = outbox /\ handled' = handled
    BY <1>4, SendStep
  <2>2. \A e \in OnDisk : Below(m, e)
    <3> SUFFICES ASSUME NEW e \in OnDisk PROVE Below(m, e)
      OBVIOUS
    <3>1. PICK i \in 1..Len(outbox) : outbox[i].msg = e
      BY Stored DEF TypeOK
    <3>2. CASE i = 1
      BY <1>0, <2>1, <3>1, <3>2 DEF Below
    <3>3. CASE i # 1
      BY <1>0, <2>1, <3>1, <3>3 DEF InOrder, DiskOrder
    <3> QED BY <3>2, <3>3
  <2>3. \A i \in 1..n : chan[link][i] \in InFlight
    BY <2>1, Flying DEF TypeOK
  <2>4. ASSUME FlowOrder PROVE FlowOrder'
    <3>1. ASSUME NEW d \in Conns, NEW i \in 1..Len(chan'[d]), NEW j \in 1..Len(chan'[d]), i < j
          PROVE  Below(chan'[d][i], chan'[d][j])
      <4>1. CASE d # link
        BY <2>1, <2>4, <3>1, <4>1 DEF FlowOrder
      <4>2. CASE d = link /\ j \in 1..n
        <5>1. i \in 1..n
          BY <2>1, <3>1, <4>2
        <5> QED BY <2>1, <2>4, <3>1, <4>2, <5>1 DEF FlowOrder
      <4>3. CASE d = link /\ j = n + 1
        <5>1. i \in 1..n
          BY <2>1, <3>1, <4>3
        <5> QED BY <2>1, <2>3, <2>4, <4>3, <5>1 DEF FlowOrder
      <4>4. d = link => j \in 1..n \/ j = n + 1
        BY <2>1, <3>1
      <4> QED BY <4>1, <4>2, <4>3, <4>4
    <3> HIDE DEF m
    <3> QED BY <1>3, <2>1, <2>2, <2>4, <3>1 DEF FlowOrder
  <2> QED BY <1>0, <1>3, <2>1, <2>4 DEF InOrder
<1>5. ASSUME NEW c \in Conns, Handle(c) PROVE InOrder'
  <2> DEFINE h == Head(chan[c])
  <2>1. /\ c \in open /\ chan[c] # << >> /\ handled' = handled \cup {h} /\ gone' = gone
        /\ chan' = [chan EXCEPT ![c] = Tail(@)] /\ outbox' = outbox
    BY <1>5 DEF Handle, agentVars
  <2>2. /\ h \in InFlight /\ InFlight' \subseteq InFlight /\ Shrunk /\ OnDisk' = OnDisk
    <3>1. ~Send
      BY <2>1, SendStep
    <3> QED BY <1>3, <2>1, <3>1, FirstLeaves, Gains
  <2>3. ASSUME ~Overlap, FlowOrder, NEW x \in InFlight' PROVE Below(h, x)
    <3>1. PICK d \in Conns : \E i \in 1..Len(chan'[d]) : chan'[d][i] = x
      BY <2>3, Flying DEF TypeOK
    <3>2. PICK i \in 1..Len(chan'[d]) : chan'[d][i] = x
      BY <3>1
    <3>3. PICK o \in Nat : i + o \in 1..Len(chan[d]) /\ chan'[d][i] = chan[d][i + o]
      BY <2>2, <3>2 DEF Shrunk
    <3>4. d = c
      BY <2>1, <2>3, <3>3 DEF OneHandler
    <3>5. /\ h = chan[c][1] /\ 1 \in 1..Len(chan[c]) /\ Len(chan[c]) \in Nat
          /\ Len(chan'[c]) = Len(chan[c]) - 1
          /\ \A k \in 1..Len(chan'[c]) : chan'[c][k] = chan[c][k + 1]
      <4>1. chan[c] \in Seq(Messages) /\ chan'[c] = Tail(chan[c])
        BY <2>1 DEF TypeOK
      <4> HIDE DEF Messages, Conns
      <4>2. /\ Len(chan[c]) \in Nat /\ 1 <= Len(chan[c])
            /\ Head(chan[c]) = chan[c][1]
            /\ Len(Tail(chan[c])) = Len(chan[c]) - 1
            /\ \A k \in 1..Len(Tail(chan[c])) : Tail(chan[c])[k] = chan[c][k + 1]
        BY <2>1, <4>1, HeadTailProperties, EmptySeq, LenProperties
      <4> QED BY <4>1, <4>2
    <3>6. i + 1 \in 1..Len(chan[c]) /\ 1 < i + 1 /\ chan[c][i + 1] = x
      BY <3>2, <3>4, <3>5
    <3> QED BY <2>3, <3>5, <3>6 DEF FlowOrder
  <2>4. ASSUME ~Overlap, FlowOrder PROVE FlowOrder'
    <3>1. ASSUME NEW d \in Conns, NEW i \in 1..Len(chan'[d]), NEW j \in 1..Len(chan'[d]), i < j
          PROVE  Below(chan'[d][i], chan'[d][j])
      <4>1. PICK o \in Nat : \A k \in 1..Len(chan'[d]) :
              k + o \in 1..Len(chan[d]) /\ chan'[d][k] = chan[d][k + o]
        BY <2>2 DEF Shrunk
      <4>2. i + o < j + o /\ i + o \in 1..Len(chan[d]) /\ j + o \in 1..Len(chan[d])
        BY <3>1, <4>1
      <4> QED BY <2>4, <4>1, <4>2 DEF FlowOrder
    <3> HIDE DEF h
    <3> QED BY <2>1, <2>2, <2>3, <2>4, <3>1 DEF FlowOrder
  <2> QED BY <1>0, <1>3, <2>1, <2>4 DEF InOrder
<1>6. CASE /\ ~Send /\ ~(\E r \in Runs : Enqueue(r))
           /\ ~(\E c \in Conns : Delete(c)) /\ ~(\E c \in Conns : Handle(c))
  <2>1. outbox' = outbox /\ handled' = handled
    BY <1>6 DEF Next, Connect, Drop, Crash, GatewayRestart, HandleFails, CloseHandler, agentVars,
       serverVars, vars
  <2>2. Shrunk /\ InFlight' \subseteq InFlight
    BY <1>6, StreamStep, Gains
  <2>3. FlowOrder => FlowOrder'
    BY <1>3, <2>1, <2>2, FlowFrame
  <2> QED BY <1>0, <1>3, <2>1, <2>3 DEF InOrder
<1> QED BY <1>1, <1>2, <1>4, <1>5, <1>6

-----------------------------------------------------------------------------
(***************************************************************************)
(* The tables.  What a handled message wrote is still there: while nothing *)
(* was lost, a line or an end never comes before the start it refers to,   *)
(* and a start never comes after the end.                                  *)
(***************************************************************************)
TableInv ==
  /\ \A r \in Runs : runs[r] = "finished" => Queued(r, 3) \in handled
  /\ (~Overlap /\ gone = {}) =>
       \A m \in handled : made[m.run] < 4 =>
         /\ runs[m.run] # "absent"
         /\ m.kind = "log" => m.run \in logs
         /\ m.kind = "finished" => runs[m.run] = "finished"

\* When a message of a living run arrives and nothing was lost, the start of the run
\* has been handled, unless the message is the start.
LEMMA StartHandled ==
  ASSUME TypeOK, Accounted, MadeInv, OneHandler, InOrder, ~Overlap, gone = {},
         NEW c \in Conns, c \in open, chan[c] # << >>,
         made[Head(chan[c]).run] < 4, Head(chan[c]).kind # "started"
  PROVE  Queued(Head(chan[c]).run, 1) \in handled
<1>1. /\ Len(chan[c]) \in Nat /\ 1 \in 1..Len(chan[c]) /\ Head(chan[c]) = chan[c][1]
  <2>1. chan[c] \in Seq(Messages)
    BY DEF TypeOK
  <2> HIDE DEF Messages, Conns
  <2> QED BY <2>1, EmptySeq, LenProperties
<1> DEFINE m == chan[c][1]
           s == Queued(m.run, 1)
<1>2. m \in InFlight
  BY <1>1, Flying DEF TypeOK
<1>3. m.run \in Runs /\ m.kind \in {"log", "finished"} /\ Rank(m) \in 2..3
  BY <1>1, <1>2, MessagesEverywhere DEF Kinds, Rank
<1>4. made[m.run] \in 0..4 /\ made[m.run] >= 1
  <2>1. made[m.run] \in 0..4 /\ made[m.run] < 4
    BY <1>1, <1>3 DEF TypeOK
  <2>2. Rank(m) <= made[m.run]
    BY <1>2, <2>1 DEF MadeInv
  <2> HIDE DEF m
  <2> QED BY <1>3, <2>1, <2>2
<1>5. s \in OnDisk \cup InFlight \cup handled
  BY <1>1, <1>3, <1>4, AccountedMeans DEF Carried
<1>6. s.run = m.run /\ Rank(s) = 1 /\ s # m
  BY <1>3 DEF Queued, KindOf, Rank
<1>7. ~Below(m, s)
  BY <1>3, <1>6 DEF Below
<1> HIDE DEF m, s
<1>8. s \notin OnDisk
  BY <1>2, <1>7 DEF InOrder, FlowOrder
<1>9. s \notin InFlight
  <2> SUFFICES ASSUME s \in InFlight PROVE FALSE
    OBVIOUS
  <2>1. PICK d \in Conns : \E i \in 1..Len(chan[d]) : chan[d][i] = s
    BY Flying DEF TypeOK
  <2>2. PICK i \in 1..Len(chan[d]) : chan[d][i] = s
    BY <2>1
  <2>3. d = c
    BY <2>2 DEF OneHandler
  <2>4. 1 < i /\ m = chan[c][1]
    BY <1>1, <1>6, <2>2, <2>3 DEF m
  <2> QED BY <1>1, <1>7, <2>2, <2>3, <2>4 DEF InOrder, FlowOrder
<1> QED BY <1>1, <1>5, <1>8, <1>9 DEF m, s

\* After the end of a run was handled only its end is handled again.
LEMMA EndIsLast ==
  ASSUME TypeOK, OneHandler, InOrder, ~Overlap,
         NEW c \in Conns, c \in open, chan[c] # << >>,
         Queued(Head(chan[c]).run, 3) \in handled
  PROVE  Head(chan[c]).kind = "finished"
<1>1. 1 \in 1..Len(chan[c]) /\ Head(chan[c]) = chan[c][1]
  <2>1. chan[c] \in Seq(Messages)
    BY DEF TypeOK
  <2> HIDE DEF Messages, Conns
  <2> QED BY <2>1, EmptySeq, LenProperties
<1> DEFINE m == chan[c][1]
<1>2. m \in InFlight
  BY <1>1, Flying DEF TypeOK
<1>3. m.kind \in Kinds
  BY <1>2, MessagesEverywhere
<1>4. Below(Queued(m.run, 3), m)
  BY <1>1, <1>2 DEF InOrder, FlowOrder
<1>5. Rank(m) >= 3
  BY <1>4 DEF Below, Queued, KindOf, Rank
<1> QED BY <1>1, <1>3, <1>5 DEF Rank, Kinds

\* The tables are kept in step with the handled messages.
LEMMA TableStep ==
  ASSUME TypeOK, TypeOK', Accounted, MadeInv, OneHandler, InOrder, TableInv, [Next]_vars
  PROVE  TableInv'
<1>0. /\ (Overlap)' = Overlap /\ gone \subseteq gone'
      /\ \A m \in handled : m.run \in Runs /\ m.kind \in Kinds
      /\ \A r \in Runs : made[r] \in 0..4 /\ made'[r] \in 0..4
      /\ \A r \in Runs : made'[r] # 4 => made[r] # 4 /\ made[r] <= made'[r]
  <2>1. gone \subseteq gone'
    <3>1. CASE Send
      BY <3>1, SendStep
    <3> QED BY <3>1, StreamStep
  <2> QED BY <2>1, Gains, MessagesEverywhere DEF TypeOK, Overlap
<1>1. ASSUME NEW c \in Conns, Handle(c) PROVE TableInv'
  <2> DEFINE h == Head(chan[c])
             r == h.run
  <2>1. /\ c \in open /\ chan[c] # << >> /\ handled' = handled \cup {h} /\ gone' = gone
        /\ made' = made
        /\ \/ h.kind = "started" /\ OnRunStarted(r)
           \/ h.kind = "log" /\ OnLogChunk(r)
           \/ h.kind = "finished" /\ OnRunFinished(r)
    BY <1>1 DEF Handle, agentVars
  <2>2. r \in Runs /\ h \in Messages
    <3>1. chan[c] \in Seq(Messages)
      BY DEF TypeOK
    <3>2. h \in Messages
      <4> HIDE DEF Messages, Conns
      <4> QED BY <2>1, <3>1, HeadTailProperties
    <3> QED BY <3>2 DEF Messages
  <2>3. \A q \in Runs \ {r} : runs'[q] = runs[q] /\ (q \in logs => q \in logs')
    BY <2>1 DEF OnRunStarted, OnLogChunk, OnRunFinished, TypeOK
  <2>4. h.kind = "finished" => h = Queued(r, 3)
    BY <2>2 DEF Messages, Queued, KindOf
  <2>5. ASSUME NEW q \in Runs, runs'[q] = "finished" PROVE Queued(q, 3) \in handled'
    <3>1. CASE runs[q] = "finished"
      BY <2>1, <3>1 DEF TableInv
    <3>2. CASE runs[q] # "finished"
      <4>1. q = r /\ h.kind = "finished"
        BY <2>1, <2>2, <2>3, <2>5, <3>2 DEF OnRunStarted, OnLogChunk, TypeOK
      <4> QED BY <2>1, <2>4, <4>1
    <3> QED BY <3>1, <3>2
  <2>6. ASSUME ~Overlap, gone' = {}, NEW m \in handled', made'[m.run] < 4
        PROVE  /\ runs'[m.run] # "absent"
               /\ m.kind = "log" => m.run \in logs'
               /\ m.kind = "finished" => runs'[m.run] = "finished"
    <3>1. CASE m.run # r
      BY <1>0, <2>1, <2>3, <2>6, <3>1 DEF TableInv
    <3>2. CASE m.run = r
      <4>1. h.kind # "started" => runs[r] # "absent"
        <5> SUFFICES ASSUME h.kind # "started" PROVE runs[r] # "absent"
          OBVIOUS
        <5>1. Queued(r, 1) \in handled
          BY <2>1, <2>6, <3>2, StartHandled
        <5> QED BY <2>1, <2>6, <3>2, <5>1 DEF TableInv, Queued
      <4>2. CASE h.kind = "started"
        <5>1. runs'[r] = "running" /\ logs' = logs
          BY <2>1, <2>2, <4>2 DEF OnRunStarted, TypeOK
        <5>2. Queued(r, 3) \notin handled
          BY <2>1, <2>6, <4>2, EndIsLast
        <5>3. m.kind # "finished"
          <6>1. CASE m = h
            BY <4>2, <6>1
          <6>2. CASE m \in handled
            <7>1. m \in Messages
              BY <6>2 DEF TypeOK
            <7>2. m.kind = "finished" => m = Queued(r, 3)
              BY <3>2, <7>1 DEF Messages, Queued, KindOf
            <7> QED BY <5>2, <6>2, <7>2
          <6> QED BY <2>1, <6>1, <6>2
        <5> QED BY <2>1, <2>6, <3>2, <4>2, <5>1, <5>3 DEF TableInv
      <4>3. CASE h.kind = "log"
        <5>1. runs' = runs /\ logs' = logs \cup {r}
          BY <2>1, <4>1, <4>3 DEF OnLogChunk
        <5> HIDE DEF h
        <5> QED BY <2>1, <2>6, <3>2, <4>1, <4>3, <5>1 DEF TableInv
      <4>4. CASE h.kind = "finished"
        <5>1. runs'[r] = "finished" /\ logs' = logs
          BY <2>1, <2>2, <4>1, <4>4 DEF OnRunFinished, TypeOK
        <5> HIDE DEF h
        <5> QED BY <2>1, <2>6, <3>2, <4>4, <5>1 DEF TableInv
      <4> QED BY <2>1, <4>2, <4>3, <4>4
    <3> QED BY <3>1, <3>2
  <2> QED BY <1>0, <2>5, <2>6 DEF TableInv
<1>2. CASE ~\E c \in Conns : Handle(c)
  <2>1. UNCHANGED <<runs, logs, handled>>
    BY <1>2 DEF Next, Enqueue, Put, Connect, Send, SendEntry, Delete, Drop, Crash, GatewayRestart,
       HandleFails, CloseHandler, serverVars, vars
  <2> QED BY <1>0, <2>1 DEF TableInv
<1> QED BY <1>1, <1>2

\* When everything has arrived, everything was handled.
LEMMA ConvergedThen ==
  ASSUME TypeOK, Accounted, TableInv PROVE Converged
<1> SUFFICES ASSUME ~Overlap, gone = {}, outbox = << >>, InFlight = {},
                    NEW r \in Runs, made[r] = 3
             PROVE  runs[r] = "finished" /\ r \in logs
  BY DEF Converged
<1>1. OnDisk = {}
  BY Stored DEF TypeOK
<1>2. Queued(r, 2) \in handled /\ Queued(r, 3) \in handled
  BY <1>1, AccountedMeans DEF Carried
<1>3. /\ Queued(r, 2).run = r /\ Queued(r, 2).kind = "log"
      /\ Queued(r, 3).run = r /\ Queued(r, 3).kind = "finished"
  BY DEF Queued, KindOf
<1> QED BY <1>2, <1>3 DEF TableInv

-----------------------------------------------------------------------------
\* The inductive invariant.
ReportsInv ==
  /\ TypeOK /\ KeysAscend /\ DrainInv /\ Accounted
  /\ MadeInv /\ OneHandler /\ InOrder /\ TableInv

LEMMA InitReports == ASSUME Bounds, Init PROVE ReportsInv
<1>1. TypeOK
  BY InitTyped
<1>2. outbox = << >> /\ handled = {} /\ \A c \in Conns : chan[c] = << >> /\ drain[c] = NoKey
  BY DEF Init
<1>3. OnDisk = {} /\ InFlight = {} /\ \A c \in Conns : Len(chan[c]) = 0
  BY <1>1, <1>2, Stored, Flying DEF TypeOK
<1>4. KeysAscend /\ DrainInv /\ MadeInv /\ InOrder
  BY <1>2, <1>3 DEF KeysAscend, DrainInv, MadeInv, InOrder, DiskOrder, FlowOrder
<1>5. Accounted
  BY <1>1, AccountedMeans DEF Init
<1>6. OneHandler
  BY <1>3 DEF Init, OneHandler
<1>7. TableInv
  BY DEF Init, TableInv
<1> QED BY <1>1, <1>4, <1>5, <1>6, <1>7 DEF ReportsInv

LEMMA ReportsStep == ASSUME Bounds, ReportsInv, [Next]_vars PROVE ReportsInv'
<1>1. TypeOK'
  BY TypeStep DEF ReportsInv
<1> QED
  BY <1>1, KeysStep, DrainStep, AccountedStep, MadeStep, HandlerStep, OrderStep, TableStep
  DEF ReportsInv

-----------------------------------------------------------------------------
(***************************************************************************)
(* The status of a server: what holds of its streams and timers.           *)
(***************************************************************************)
Live == {"added", "serving", "beat"}

\* The agent's stream has a handler that serves it; only streams that were
\* opened have one, and before enrollment there is no stream.
LinkServed ==
  /\ \A c \in Streams!Conns : c > sconns => handler[c] = "none"
  /\ slink # 0 => handler[slink] \in Live
  /\ status = "pending" => sconns = 0

\* The inductive invariant.
PresenceInv == Streams!TypeOK /\ LinkServed /\ Streams!RegisteredIsNewest /\ Streams!OnlineIsBacked

\* The types are kept; what the agent sends has a handler because its stream
\* has one.
LEMMA PresenceTypes == Streams!TypeOK /\ LinkServed /\ [Streams!Next]_presenceVars => Streams!TypeOK'
<1> SUFFICES ASSUME Streams!TypeOK, LinkServed, [Streams!Next]_presenceVars PROVE Streams!TypeOK'
  OBVIOUS
<1> USE GatewayAssumption DEF Streams!TypeOK, Streams!streamVars, Streams!timerVars, Streams!Conns, Streams!Places, Streams!Steps
<1>1. CASE Streams!Enroll
  BY <1>1 DEF Streams!Enroll
<1>2. CASE Streams!Connect
  <2>1. sconns' \in 0..MaxStreams /\ slink' \in 0..sconns' /\ reg' \in 0..sconns'
    BY <1>2 DEF Streams!Connect, Streams!ConnectAs
  <2>2. handler' \in [Streams!Conns -> Streams!Places]
    BY <1>2 DEF Streams!Connect, Streams!ConnectAs
  <2>3. pending' \in SUBSET { c \in 1..sconns' : handler'[c] \in {"added", "serving", "beat"} }
    BY <1>2 DEF Streams!Connect, Streams!ConnectAs
  <2>4. slot' \in 0..sconns' /\ armed' \in SUBSET (1..sconns')
    BY <1>2 DEF Streams!Connect, Streams!ConnectAs
  <2> QED BY <1>2, <2>1, <2>2, <2>3, <2>4 DEF Streams!Connect, Streams!ConnectAs
<1>3. CASE Streams!Beat
  BY <1>3 DEF Streams!Beat, LinkServed, Live
<1>4. CASE Streams!Drop
  BY <1>4 DEF Streams!Drop
<1>5. CASE Streams!Restart
  BY <1>5 DEF Streams!Restart, Streams!RestartWith
<1>6. ASSUME NEW c \in Streams!Conns, Streams!Register(c) PROVE Streams!TypeOK'
  BY <1>6 DEF Streams!Register, Streams!At, Streams!CancelPendingOffline
<1>7. ASSUME NEW c \in Streams!Conns, Streams!Receive(c) PROVE Streams!TypeOK'
  BY <1>7 DEF Streams!Receive, Streams!At, Streams!CancelPendingOffline
<1>8. ASSUME NEW c \in Streams!Conns, Streams!MarkOnline(c) PROVE Streams!TypeOK'
  BY <1>8 DEF Streams!MarkOnline, Streams!At
<1>9. ASSUME NEW c \in Streams!Conns, Streams!Leave(c) PROVE Streams!TypeOK'
  BY <1>9 DEF Streams!Leave, Streams!Left, Streams!At
<1>10. ASSUME NEW c \in Streams!Conns, Streams!ScheduleOffline(c) PROVE Streams!TypeOK'
  <2>1. c \in 1..sconns
    BY <1>10 DEF Streams!ScheduleOffline, Streams!At, LinkServed
  <2> QED BY <1>10, <2>1 DEF Streams!ScheduleOffline, Streams!At
<1>11. ASSUME NEW c \in Streams!Conns, Streams!Fire(c) PROVE Streams!TypeOK'
  BY <1>11 DEF Streams!Fire
<1>12. ASSUME NEW c \in Streams!Conns, Streams!Forget(c) PROVE Streams!TypeOK'
  BY <1>12 DEF Streams!Forget
<1>13. ASSUME NEW c \in Streams!Conns, Streams!Check(c) PROVE Streams!TypeOK'
  BY <1>13 DEF Streams!Check
<1>14. ASSUME NEW c \in Streams!Conns, Streams!MarkOffline(c) PROVE Streams!TypeOK'
  BY <1>14 DEF Streams!MarkOffline
<1>15. CASE UNCHANGED presenceVars
  BY <1>15 DEF presenceVars
<1> QED
  BY <1>1, <1>2, <1>3, <1>4, <1>5, <1>6, <1>7, <1>8, <1>9, <1>10, <1>11, <1>12, <1>13, <1>14,
     <1>15 DEF Streams!Next

\* Only the handler of a stream changes its place, so the link stays served
\* and the registered stream stays the newest one.
LEMMA RegistryStep ==
  Streams!TypeOK /\ LinkServed /\ Streams!RegisteredIsNewest /\ [Streams!Next]_presenceVars
    => LinkServed' /\ Streams!RegisteredIsNewest'
<1> SUFFICES ASSUME Streams!TypeOK, LinkServed, Streams!RegisteredIsNewest, [Streams!Next]_presenceVars
             PROVE  LinkServed' /\ Streams!RegisteredIsNewest'
  OBVIOUS
<1> USE GatewayAssumption
    DEF Streams!TypeOK, LinkServed, Streams!RegisteredIsNewest, Live, Streams!streamVars, Streams!timerVars, Streams!Conns
<1>1. CASE Streams!Enroll \/ Streams!Beat \/ Streams!Drop
  BY <1>1 DEF Streams!Enroll, Streams!Beat, Streams!Drop
<1>2. CASE Streams!Connect
  BY <1>2 DEF Streams!Connect, Streams!ConnectAs
<1>3. CASE Streams!Restart
  BY <1>3 DEF Streams!Restart, Streams!RestartWith
<1>4. ASSUME NEW c \in Streams!Conns, Streams!Register(c) \/ Streams!Receive(c) \/ Streams!MarkOnline(c)
      PROVE  LinkServed' /\ Streams!RegisteredIsNewest'
  BY <1>4 DEF Streams!Register, Streams!Receive, Streams!MarkOnline, Streams!At, Streams!CancelPendingOffline
<1>5. ASSUME NEW c \in Streams!Conns, Streams!Leave(c) PROVE LinkServed' /\ Streams!RegisteredIsNewest'
  BY <1>5 DEF Streams!Leave, Streams!Left, Streams!At
<1>6. ASSUME NEW c \in Streams!Conns, Streams!ScheduleOffline(c) PROVE LinkServed' /\ Streams!RegisteredIsNewest'
  BY <1>6 DEF Streams!ScheduleOffline, Streams!At
<1>7. ASSUME NEW c \in Streams!Conns, Streams!Fire(c) \/ Streams!Forget(c) \/ Streams!Check(c) \/ Streams!MarkOffline(c)
      PROVE  LinkServed' /\ Streams!RegisteredIsNewest'
  BY <1>7 DEF Streams!Fire, Streams!Forget, Streams!Check, Streams!MarkOffline
<1>8. CASE UNCHANGED presenceVars
  BY <1>8 DEF presenceVars
<1> QED BY <1>1, <1>2, <1>3, <1>4, <1>5, <1>6, <1>7, <1>8 DEF Streams!Next

\* Whatever takes one backing of "online" away leaves another, marks the
\* server offline or is recorded in late.
LEMMA BackedStep ==
  Streams!TypeOK /\ LinkServed /\ Streams!RegisteredIsNewest /\ Streams!OnlineIsBacked /\ [Streams!Next]_presenceVars
    => Streams!OnlineIsBacked'
<1> SUFFICES ASSUME Streams!TypeOK, LinkServed, Streams!RegisteredIsNewest, Streams!OnlineIsBacked, [Streams!Next]_presenceVars
             PROVE  Streams!OnlineIsBacked'
  OBVIOUS
<1> USE GatewayAssumption DEF Streams!TypeOK, Streams!OnlineIsBacked, Streams!streamVars, Streams!timerVars, Streams!Conns
<1>1. CASE Streams!Enroll
  BY <1>1 DEF Streams!Enroll, LinkServed
<1>2. CASE Streams!Connect
  BY <1>2 DEF Streams!Connect, Streams!ConnectAs
<1>3. CASE Streams!Beat \/ Streams!Drop
  BY <1>3 DEF Streams!Beat, Streams!Drop
<1>4. CASE Streams!Restart
  BY <1>4 DEF Streams!Restart, Streams!RestartWith
<1>5. ASSUME NEW c \in Streams!Conns, Streams!Register(c) \/ Streams!Receive(c) PROVE Streams!OnlineIsBacked'
  <2>1. /\ status' = status /\ sconns' = sconns /\ reg' = reg /\ callback' = callback
        /\ armed' = armed \ {slot}
        /\ handler[c] # "removed"
        /\ \A d \in Streams!Conns : d # c => handler'[d] = handler[d]
    BY <1>5 DEF Streams!Register, Streams!Receive, Streams!At, Streams!CancelPendingOffline
  <2>2. ~late' => ~late /\ (slot \notin armed \/ reg = c)
    BY <1>5, Zenon DEF Streams!Register, Streams!Receive, Streams!CancelPendingOffline
  <2>3. CASE reg = c
    BY <2>1, <2>3
  <2>4. CASE slot \notin armed
    <3>1. armed' = armed
      BY <2>1, <2>4
    <3>2. \A d \in Streams!Conns : handler[d] = "removed" => handler'[d] = "removed"
      BY <2>1
    <3>3. CASE late'
      BY <3>3
    <3>4. CASE ~late'
      BY <2>1, <2>2, <3>1, <3>2, <3>4
    <3> QED BY <3>3, <3>4
  <2>5. CASE late'
    BY <2>5
  <2> QED BY <2>2, <2>3, <2>4, <2>5
<1>6. ASSUME NEW c \in Streams!Conns, Streams!MarkOnline(c) PROVE Streams!OnlineIsBacked'
  BY <1>6 DEF Streams!MarkOnline, Streams!At
<1>7. ASSUME NEW c \in Streams!Conns, Streams!Leave(c) PROVE Streams!OnlineIsBacked'
  BY <1>7 DEF Streams!Leave, Streams!Left, Streams!At, Streams!Places
<1>8. ASSUME NEW c \in Streams!Conns, Streams!ScheduleOffline(c) PROVE Streams!OnlineIsBacked'
  <2>1. c \in armed'
    BY <1>8 DEF Streams!ScheduleOffline
  <2>2. armed' # {}
    BY <2>1
  <2> QED BY <2>2, Zenon
<1>9. ASSUME NEW c \in Streams!Conns, Streams!Fire(c) PROVE Streams!OnlineIsBacked'
  BY <1>9 DEF Streams!Fire
<1>10. ASSUME NEW c \in Streams!Conns, Streams!Forget(c) PROVE Streams!OnlineIsBacked'
  BY <1>10 DEF Streams!Forget
<1>11. ASSUME NEW c \in Streams!Conns, Streams!Check(c) PROVE Streams!OnlineIsBacked'
  BY <1>11 DEF Streams!Check
<1>12. ASSUME NEW c \in Streams!Conns, Streams!MarkOffline(c) PROVE Streams!OnlineIsBacked'
  BY <1>12 DEF Streams!MarkOffline
<1>13. CASE UNCHANGED presenceVars
  BY <1>13 DEF presenceVars
<1> QED
  BY <1>1, <1>2, <1>3, <1>4, <1>5, <1>6, <1>7, <1>8, <1>9, <1>10, <1>11, <1>12, <1>13 DEF Streams!Next

LEMMA PresenceStarts == Streams!Init => PresenceInv
<1> SUFFICES ASSUME Streams!Init PROVE PresenceInv
  OBVIOUS
<1>1. /\ handler \in [Streams!Conns -> Streams!Places] /\ callback \in [Streams!Conns -> Streams!Steps]
      /\ pending \in SUBSET { c \in 1..sconns : handler[c] \in {"added", "serving", "beat"} }
      /\ armed \in SUBSET (1..sconns)
  BY DEF Streams!Init, Streams!Places, Streams!Steps
<1>2. sconns \in 0..MaxStreams /\ slink \in 0..sconns /\ reg \in 0..sconns
      /\ slot \in 0..sconns /\ restarts \in 0..MaxRestarts
  BY GatewayAssumption DEF Streams!Init
<1>3. status \in {"pending", "online", "offline"} /\ late \in BOOLEAN
  BY DEF Streams!Init
<1>4. Streams!TypeOK
  BY <1>1, <1>2, <1>3 DEF Streams!TypeOK
<1>5. LinkServed /\ Streams!RegisteredIsNewest /\ Streams!OnlineIsBacked
  BY DEF Streams!Init, LinkServed, Streams!RegisteredIsNewest, Streams!OnlineIsBacked
<1> QED BY <1>4, <1>5 DEF PresenceInv

-----------------------------------------------------------------------------
(***************************************************************************)
(* Both.                                                                   *)
(***************************************************************************)
GatewayInv == ReportsInv /\ PresenceInv

\* The inductive invariants hold at the start and are kept by the steps of either part.
LEMMA GatewayStart == MCInit => GatewayInv
<1>1. Bounds
  BY GatewayAssumption DEF Bounds
<1> QED BY <1>1, InitReports, PresenceStarts DEF MCInit, GatewayInv

LEMMA GatewayStep == GatewayInv /\ [MCNext]_allVars => GatewayInv'
<1>1. Bounds
  BY GatewayAssumption DEF Bounds
<1>2. GatewayInv /\ [MCNext]_allVars => [Next]_vars /\ [Streams!Next]_presenceVars
  BY DEF MCNext, allVars
<1>3. ReportsInv /\ [Next]_vars => ReportsInv'
  BY <1>1, ReportsStep
<1>4. PresenceInv /\ [Streams!Next]_presenceVars => PresenceInv'
  BY PresenceTypes, RegistryStep, BackedStep DEF PresenceInv
<1> QED BY <1>2, <1>3, <1>4 DEF GatewayInv

LEMMA GatewayInvariant == MCSafe => []GatewayInv
BY GatewayStart, GatewayStep, PTL DEF MCSafe

\* Keys on disk ascend, every queued message is on disk, in flight, handled or
\* recorded as lost, and when everything arrived the tables say what the agent
\* said (KeysAscend, Accounted, Converged), for any number of connections that
\* overlap, break and are cut off, and any number of crashes.
THEOREM ReportsAreKept == MCSafe => []ReportsKept
<1>1. GatewayInv => ReportsKept
  BY ConvergedThen DEF GatewayInv, ReportsInv, ReportsKept
<1> QED BY <1>1, GatewayInvariant, PTL

\* A server shown online is backed by a stream, a timer or a callback, unless
\* a superseded stream's handler interfered.
THEOREM OnlineBacked == MCSafe => []OnlineIsBacked
<1>1. GatewayInv => OnlineIsBacked
  BY DEF GatewayInv, PresenceInv, OnlineIsBacked
<1> QED BY <1>1, GatewayInvariant, PTL

\* While handlers do not overlap a finished run stays finished, though a crash makes
\* the agent send what was handled again.
LEMMA FinishedStays ==
  ASSUME ReportsInv, [Next]_vars, ~Overlap, NEW r \in Runs, runs[r] = "finished"
  PROVE  runs'[r] = "finished"
<1>1. ASSUME NEW c \in Conns, Handle(c) PROVE runs'[r] = "finished"
  <2> DEFINE h == Head(chan[c])
  <2>1. Queued(r, 3) \in handled
    BY DEF ReportsInv, TableInv
  <2>2. h.run = r => h.kind = "finished"
    BY <1>1, <2>1, EndIsLast DEF ReportsInv, Handle
  <2>3. \/ h.kind = "started" /\ OnRunStarted(h.run)
        \/ h.kind = "log" /\ OnLogChunk(h.run)
        \/ h.kind = "finished" /\ OnRunFinished(h.run)
    BY <1>1 DEF Handle
  <2> HIDE DEF h
  <2> QED BY <2>2, <2>3 DEF ReportsInv, TypeOK, OnRunStarted, OnLogChunk, OnRunFinished
<1>2. CASE ~\E c \in Conns : Handle(c)
  <2>1. runs' = runs
    BY <1>2 DEF Next, Enqueue, Put, Connect, Send, SendEntry, Delete, Drop, Crash, GatewayRestart,
       HandleFails, CloseHandler, serverVars, vars
  <2> QED BY <2>1
<1> QED BY <1>1, <1>2

\* An older stream undoes nothing: the registry holds the newest stream, whose handler
\* still serves it, for a superseded handler's Remove does not unregister its successor;
\* and unless handlers overlap, no message sets back a run that has finished.
THEOREM NewestStreamCounts == MCSafe => NewestCounts
<1>1. GatewayInv /\ GatewayInv' /\ [MCNext]_allVars =>
        [/\ Streams!RegisteredIsNewest'
         /\ ~Overlap => \A r \in Runs : runs[r] = "finished" => runs'[r] = "finished"]_allVars
  <2> SUFFICES ASSUME GatewayInv, GatewayInv', [MCNext]_allVars
               PROVE  /\ Streams!RegisteredIsNewest'
                      /\ ~Overlap => \A r \in Runs : runs[r] = "finished" => runs'[r] = "finished"
    OBVIOUS
  <2>1. Streams!RegisteredIsNewest'
    BY DEF GatewayInv, PresenceInv
  <2>2. [Next]_vars
    BY DEF MCNext, allVars
  <2> QED BY <2>1, <2>2, FinishedStays DEF GatewayInv
<1> QED BY <1>1, GatewayInvariant, PTL DEF MCSafe, NewestCounts

-----------------------------------------------------------------------------
(***************************************************************************)
(* Live logs.  A message of the run is one of a few; once its end has been *)
(* received only some of them are left, and none of those is output that   *)
(* counts.  What a browser has, what is behind it and what its channel     *)
(* holds make up what is stored.                                           *)
(***************************************************************************)
\* The number of a notice, and of the last chunk that is not one.
NoteAt == IF kind = "job" THEN Log!NoticeSeq ELSE 0
Top    == IF kind = "job" THEN MaxChunks ELSE LogCap

After == {Log!Finished, Log!Data(0), Log!Notice(NoteAt)}
Sent  == After \cup {Log!Started} \cup {Log!Data(n) : n \in 0..Top}

\* Output that a browser is to see.
Real(m) == m.what = "data" /\ m.seq # 0

Holds(c, S) == c = << >> \/ \E m \in S : c = <<m>>

MsgInv ==
  /\ kind \in {"job", "deploy"} /\ out \in 0..MaxChunks
  /\ Holds(lchan, Sent) /\ Holds(last, Sent) /\ cur \in Sent
  /\ pc \in {"recv", "row", "publish", "admit", "insert", "finish"}
  /\ pc \in {"publish", "admit", "insert"} => cur # Log!Finished
  /\ pc = "finish" => cur = Log!Finished
  /\ pc = "admit" => kind = "job"

\* The end of the run has been received.
Ended == over /\ cur \in After /\ Holds(lchan, After) /\ Holds(last, After)

EndInv ==
  /\ lchan = <<Log!Finished>> \/ last = <<Log!Finished>> => over
  /\ cur = Log!Finished \/ row = "finished" \/ view.terminal \/ view.done => Ended
  /\ (\E i \in DOMAIN buf : buf[i] = Log!Finished) => Ended

Lines == {l \in [seq : Int, what : {"data", "notice", "starting"}] :
            /\ l.what = "data" => l.seq \in 0..Top
            /\ l.what = "notice" => l.seq = NoteAt
            /\ l.what = "starting" => l.seq = -1}
OutputLines == {l \in lines : l.what = "data" /\ l.seq # 0}
NoteLine == [seq |-> Log!NoticeSeq, what |-> "notice"]

\* Nothing went wrong: what was admitted and is stored stays within the cap, and
\* what is cut off has its notice, or is about to.
CapInv ==
  /\ row # "gone"
  /\ told \/ cut # {} => NoteLine \in lines \/ (pc = "insert" /\ cur = Log!Notice(Log!NoticeSeq))
  /\ kind = "job" =>
       /\ used <= LogCap /\ Cardinality(OutputLines) <= LogCap
       /\ \/ Ended
          \/ Cardinality(OutputLines) + (IF pc = "insert" /\ Real(cur) THEN 1 ELSE 0) <= used

StoreInv ==
  /\ lines \subseteq Lines /\ IsFiniteSet(lines) /\ used \in Nat /\ told \in BOOLEAN
  /\ shown \subseteq Log!Seqs(lines) \cap 1..Top
  /\ kind = "deploy" => ~told /\ cut = {}
  /\ amiss = {} => CapInv

ViewFields == {"pc", "terminal", "got", "dropped", "gap", "late", "done"}
BufSeqs == {buf[i].seq : i \in DOMAIN buf}
Pending == IF pc \in {"admit", "insert"} /\ Real(cur) THEN {cur.seq} ELSE {}
Behind  == Log!Seqs(view.got) \cup view.gap

ViewInv ==
  /\ DOMAIN view = ViewFields /\ buf \in Seq(Sent)
  /\ view.pc \in {"snapshot", "live"} => sub
  /\ view.pc \in {"none", "subscribe", "snapshot"} => ~view.done
  /\ \A i, j \in DOMAIN buf : i < j /\ buf[i] = Log!Finished => buf[j] \in After
  /\ ~view.dropped =>
       /\ view.pc = "snapshot" => Pending \subseteq view.gap \cup BufSeqs
       /\ view.pc = "live" => shown \cup Pending \subseteq Behind \cup BufSeqs
       /\ view.done => shown \subseteq Behind

LogInv == MsgInv /\ EndInv /\ StoreInv /\ ViewInv

LEMMA LogMessages ==
  ASSUME kind \in {"job", "deploy"}
  PROVE  /\ Top \in Nat /\ NoteAt \in Nat /\ NoteAt \notin 1..Top
         /\ After \subseteq Sent /\ Log!Finished # Log!Started
         /\ \A m \in Sent : /\ m.kind \in {"chunk", "finished", "started"} /\ m.seq \in Int
                            /\ m.kind = "finished" <=> m = Log!Finished
                            /\ m.kind = "started" <=> m = Log!Started
                            /\ Real(m) => m.seq \in 1..Top /\ m.kind = "chunk"
                            /\ [seq |-> m.seq, what |-> m.what] \in Lines
         /\ \A m \in After : ~Real(m) /\ m.seq \in {0, NoteAt} /\ m.kind # "started"
BY LogsAssumption
DEF Top, NoteAt, After, Sent, Real, Lines, Log!Finished, Log!Started, Log!Data, Log!Notice, Log!NoticeSeq

\* What a message is does not change.
LEMMA KindStays == ASSUME kind' = kind PROVE NoteAt' = NoteAt /\ Top' = Top /\ After' = After /\ Sent' = Sent /\ Lines' = Lines
BY DEF NoteAt, Top, After, Sent, Lines

LEMMA KindIsKept == ASSUME Log!Next PROVE kind' = kind
BY DEF Log!Next, Log!System, Log!Emit, Log!End, Log!Redeliver, Log!Recv, Log!MarkRunning, Log!Publish,
   Log!Admit, Log!Insert, Log!Finish, Log!FinishDeploy, Log!Restart, Log!Prune, Log!Open,
   Log!Subscribe, Log!Snapshot, Log!Deliver, Log!Unsubscribe, Log!Leave

\* The actions of the agent, of the gateway and of the browser leave the rest alone.
AgentActs == Log!Emit \/ Log!End \/ Log!Redeliver
GateActs  == \/ Log!Recv \/ Log!MarkRunning \/ Log!Publish \/ Log!Admit \/ Log!Insert
             \/ Log!Finish \/ Log!FinishDeploy \/ Log!Restart \/ Log!Prune
ViewActs  == \/ Log!Open \/ Log!Subscribe \/ Log!Snapshot \/ Log!Deliver
             \/ Log!Unsubscribe \/ Log!Leave

LEMMA LogActs == Log!Next => AgentActs \/ GateActs \/ ViewActs
BY DEF Log!Next, Log!System, AgentActs, GateActs, ViewActs

LEMMA AgentLeaves ==
  AgentActs => UNCHANGED <<last, pc, cur, row, lines, used, told, shown, cut, view, sub, buf, amiss>>
BY DEF AgentActs, Log!Emit, Log!End, Log!Redeliver, Log!gateVars, Log!viewVars

LEMMA ViewLeaves ==
  ViewActs => UNCHANGED <<kind, out, over, lchan, last, pc, cur, row, lines, used, told, shown, cut, amiss>>
BY DEF ViewActs, Log!Open, Log!Subscribe, Log!Snapshot, Log!Deliver, Log!Unsubscribe, Log!Leave,
       Log!gateVars

\* What a published message does: it is in the channel, nobody listens, or it is lost.
LEMMA Fans ==
  ASSUME NEW m, Log!Fanout(m)
  PROVE  \/ sub /\ buf' = Append(buf, m) /\ view' = view
         \/ ~sub /\ buf' = buf /\ view' = view
         \/ sub /\ buf' = buf /\ view' = [view EXCEPT !.dropped = TRUE]
BY DEF Log!Fanout

-----------------------------------------------------------------------------
\* The messages.
LEMMA MsgStep == ASSUME LogInv, Log!Next PROVE MsgInv'
<1>1. MsgInv /\ kind' = kind /\ Sent' = Sent /\ kind \in {"job", "deploy"}
  BY KindIsKept, KindStays DEF LogInv, MsgInv
<1>2. After \subseteq Sent /\ Log!Finished \in After /\ MaxChunks \in Nat
  BY <1>1, LogMessages, LogsAssumption DEF After
<1>3. CASE Log!Emit
  <2>1. UNCHANGED <<last, pc, cur>> /\ out' = out + 1 /\ out < MaxChunks
    BY <1>3, AgentLeaves DEF AgentActs, Log!Emit
  <2>2. out' \in 0..MaxChunks
    BY <1>1, <1>2, <2>1 DEF MsgInv
  <2>3. Holds(lchan', Sent)
    <3>1. CASE kind = "job"
      <4>1. lchan' = <<Log!Data(out + 1)>>
        BY <1>3, <3>1 DEF Log!Emit
      <4>2. out + 1 \in 0..Top
        BY <1>1, <2>1, <2>2, <3>1 DEF Top
      <4> QED BY <4>1, <4>2 DEF Holds, Sent
    <3>2. CASE kind = "deploy"
      <4>1. lchan' = Log!EmitDeploy
        BY <1>3, <3>2 DEF Log!Emit
      <4>2. out < LogCap => out + 1 \in 0..Top
        BY <1>1, <3>2, LogsAssumption DEF Top, MsgInv
      <4>3. Log!Data(0) \in Sent /\ Log!Notice(0) \in Sent
        BY <1>2, <3>2 DEF After, NoteAt
      <4> QED BY <4>1, <4>2, <4>3 DEF Holds, Sent, Log!EmitDeploy
    <3> QED BY <1>1, <3>1, <3>2
  <2> QED BY <1>1, <2>1, <2>2, <2>3 DEF MsgInv
<1>4. CASE Log!End
  BY <1>1, <1>2, <1>4 DEF Log!End, MsgInv, Holds, Log!gateVars
<1>5. CASE Log!Redeliver
  BY <1>1, <1>5 DEF Log!Redeliver, MsgInv, Log!gateVars
<1>6. CASE Log!Recv
  <2>1. PICK m \in Sent : lchan = <<m>>
    BY <1>1, <1>6 DEF Log!Recv, MsgInv, Holds
  <2>2. Head(lchan) = m /\ cur' = m /\ lchan' = << >> /\ last' = lchan /\ out' = out
    BY <1>6, <2>1 DEF Log!Recv
  <2>3. pc' = IF m.kind = "finished" THEN "finish"
              ELSE IF m.kind = "started" /\ kind = "job" THEN "row" ELSE "publish"
    BY <1>6, <2>2 DEF Log!Recv
  <2>4. m.kind = "finished" <=> m = Log!Finished
    BY <1>1, LogMessages
  <2> QED BY <1>1, <2>1, <2>2, <2>3, <2>4 DEF MsgInv, Holds
<1>7. CASE Log!Admit
  <2>1. UNCHANGED <<out, lchan, last>> /\ pc = "admit" /\ pc' \in {"recv", "insert"}
        /\ (cur' = cur \/ cur' = Log!Notice(Log!NoticeSeq))
    BY <1>7 DEF Log!Admit
  <2>2. Log!Notice(Log!NoticeSeq) \in After /\ Log!Notice(Log!NoticeSeq) # Log!Finished
    BY <1>1, <2>1 DEF MsgInv, After, NoteAt, Log!Notice, Log!Finished
  <2> QED BY <1>1, <1>2, <2>1, <2>2 DEF MsgInv
<1>8. CASE Log!MarkRunning \/ Log!Publish \/ Log!Insert \/ Log!Finish \/ Log!FinishDeploy \/ Log!Restart
  <2>1. UNCHANGED <<out, lchan, last, cur>>
    BY <1>8 DEF Log!MarkRunning, Log!Publish, Log!Insert, Log!Finish, Log!FinishDeploy, Log!Restart
  <2>2. \/ pc' \in {"recv", "row"}
        \/ pc = "publish" /\ pc' = IF kind = "job" THEN "admit" ELSE "insert"
    BY <1>8 DEF Log!MarkRunning, Log!Publish, Log!Insert, Log!Finish, Log!FinishDeploy, Log!Restart
  <2> QED BY <1>1, <2>1, <2>2 DEF MsgInv
<1>9. CASE Log!Prune \/ ViewActs
  <2>1. UNCHANGED <<out, lchan, last, cur, pc>>
    BY <1>9, ViewLeaves DEF Log!Prune
  <2> QED BY <1>1, <2>1 DEF MsgInv
<1> QED BY <1>3, <1>4, <1>5, <1>6, <1>7, <1>8, <1>9, LogActs DEF AgentActs, GateActs

\* A run that has ended stays so.
LEMMA EndedStays == ASSUME LogInv, Log!Next, Ended PROVE Ended'
<1>1. MsgInv /\ kind' = kind /\ After' = After /\ kind \in {"job", "deploy"}
  BY KindIsKept, KindStays DEF LogInv, MsgInv
<1>2. over /\ cur \in After /\ Holds(lchan, After) /\ Holds(last, After) /\ Log!Data(0) \in After
  BY DEF Ended, After
<1>3. CASE Log!Emit
  <2>1. UNCHANGED <<over, last, cur>> /\ kind = "deploy" /\ lchan' = <<Log!Data(0)>>
    BY <1>2, <1>3, AgentLeaves DEF AgentActs, Log!Emit, Log!EmitDeploy
  <2> QED BY <1>1, <1>2, <2>1 DEF Ended, Holds
<1>4. CASE Log!End
  BY <1>2, <1>4 DEF Log!End
<1>5. CASE Log!Redeliver
  BY <1>1, <1>2, <1>5 DEF Log!Redeliver, Ended, Log!gateVars
<1>6. CASE Log!Recv
  <2>1. PICK m \in After : lchan = <<m>>
    BY <1>2, <1>6 DEF Log!Recv, Holds
  <2>2. cur' = m /\ lchan' = << >> /\ last' = lchan /\ over' = over
    BY <1>6, <2>1 DEF Log!Recv
  <2> QED BY <1>1, <1>2, <2>1, <2>2 DEF Ended, Holds
<1>7. CASE Log!Admit
  <2>1. UNCHANGED <<over, lchan, last>> /\ pc = "admit" /\ (cur' = cur \/ cur' = Log!Notice(Log!NoticeSeq))
    BY <1>7 DEF Log!Admit
  <2>2. Log!Notice(Log!NoticeSeq) \in After
    BY <1>1, <2>1 DEF MsgInv, After, NoteAt
  <2> QED BY <1>1, <1>2, <2>1, <2>2 DEF Ended
<1>8. CASE \/ Log!MarkRunning \/ Log!Publish \/ Log!Insert \/ Log!Finish \/ Log!FinishDeploy
           \/ Log!Restart \/ Log!Prune \/ ViewActs
  <2>1. UNCHANGED <<over, lchan, last, cur>>
    BY <1>8, ViewLeaves DEF Log!MarkRunning, Log!Publish, Log!Insert, Log!Finish, Log!FinishDeploy,
       Log!Restart, Log!Prune
  <2> QED BY <1>1, <1>2, <2>1 DEF Ended
<1> QED BY <1>3, <1>4, <1>5, <1>6, <1>7, <1>8, LogActs DEF AgentActs, GateActs

\* What is said of a run's end, is said once it has been received.
LEMMA EndStep == ASSUME LogInv, Log!Next PROVE EndInv'
<1>1. MsgInv /\ EndInv /\ ViewInv /\ (Ended => Ended') /\ MsgInv'
  BY EndedStays, MsgStep DEF LogInv
<1>2. lchan' = <<Log!Finished>> \/ last' = <<Log!Finished>> => over'
  <2>1. CASE Log!Emit
    <3>1. lchan' # <<Log!Finished>> /\ UNCHANGED <<over, last>>
      BY <2>1 DEF Log!Emit, Log!EmitDeploy, Log!Data, Log!Notice, Log!Finished
    <3> QED BY <1>1, <3>1 DEF EndInv
  <2>2. CASE Log!End
    BY <2>2 DEF Log!End
  <2>3. CASE Log!Redeliver \/ Log!Recv
    <3>1. over' = over /\ lchan' \in {last, << >>} /\ last' \in {last, lchan}
      BY <2>3 DEF Log!Redeliver, Log!Recv
    <3> QED BY <1>1, <3>1 DEF EndInv
  <2>4. CASE ~(Log!Emit \/ Log!End \/ Log!Redeliver \/ Log!Recv)
    <3>1. UNCHANGED <<over, lchan, last>>
      BY <2>4, LogActs, ViewLeaves DEF AgentActs, GateActs, Log!MarkRunning, Log!Publish, Log!Admit,
         Log!Insert, Log!Finish, Log!FinishDeploy, Log!Restart, Log!Prune
    <3> QED BY <1>1, <3>1 DEF EndInv
  <2> QED BY <2>1, <2>2, <2>3, <2>4
<1>3. cur' = Log!Finished => Ended'
  <2>1. CASE Log!Recv /\ cur' = Log!Finished
    <3>1. lchan = <<Head(lchan)>> /\ lchan' = << >> /\ last' = lchan /\ cur' = Head(lchan) /\ UNCHANGED <<kind, over>>
      BY <1>1, <2>1 DEF Log!Recv, MsgInv, Holds
    <3>2. over' /\ Log!Finished \in After'
      BY <1>1, <2>1, <3>1 DEF EndInv, After
    <3> QED BY <2>1, <3>1, <3>2 DEF Ended, Holds
  <2>2. CASE ~Log!Recv
    <3>1. cur' = cur \/ cur' = Log!Notice(Log!NoticeSeq)
      BY <2>2, LogActs, AgentLeaves, ViewLeaves DEF GateActs, Log!MarkRunning, Log!Publish, Log!Admit,
         Log!Insert, Log!Finish, Log!FinishDeploy, Log!Restart, Log!Prune
    <3> QED BY <1>1, <3>1 DEF EndInv, Log!Notice, Log!Finished
  <2> QED BY <2>1, <2>2
<1>4. row' = "finished" => Ended'
  <2>1. CASE Log!Finish \/ Log!FinishDeploy
    BY <1>1, <2>1 DEF Log!Finish, Log!FinishDeploy, MsgInv, EndInv
  <2>2. CASE ~(Log!Finish \/ Log!FinishDeploy)
    <3>1. row' \in {row, "running", "gone"}
      BY <2>2, LogActs, AgentLeaves, ViewLeaves DEF GateActs, Log!Recv, Log!MarkRunning, Log!Publish,
         Log!Admit, Log!Insert, Log!Restart, Log!Prune
    <3> QED BY <1>1, <3>1 DEF EndInv
  <2> QED BY <2>1, <2>2
<1>5. /\ view'.terminal \/ view'.done => Ended'
      /\ (\E i \in DOMAIN buf' : buf'[i] = Log!Finished) => Ended'
  <2>1. ASSUME NEW m, m \in Sent, Log!Fanout(m), m = Log!Finished => Ended
        PROVE  /\ view'.terminal \/ view'.done => Ended'
               /\ (\E i \in DOMAIN buf' : buf'[i] = Log!Finished) => Ended'
    <3>1. view'.terminal = view.terminal /\ view'.done = view.done
      BY <1>1, <2>1, Fans DEF ViewInv, ViewFields
    <3>2. ASSUME NEW i \in DOMAIN buf', buf'[i] = Log!Finished PROVE Ended
      <4>1. buf \in Seq(Sent)
        BY <1>1 DEF ViewInv
      <4>2. CASE buf' = buf
        BY <1>1, <3>2, <4>2 DEF EndInv
      <4>3. CASE buf' = Append(buf, m)
        <5>1. (i \in DOMAIN buf /\ buf'[i] = buf[i]) \/ buf'[i] = m
          BY <2>1, <4>1, <4>3
        <5> QED BY <1>1, <2>1, <3>2, <5>1 DEF EndInv
      <4> QED BY <2>1, <4>2, <4>3, Fans
    <3> QED BY <1>1, <3>1, <3>2 DEF EndInv
  <2>2. CASE Log!Publish
    BY <1>1, <2>1, <2>2 DEF Log!Publish, MsgInv
  <2>3. CASE Log!Finish \/ Log!FinishDeploy
    <3>1. Ended
      BY <1>1, <2>3 DEF Log!Finish, Log!FinishDeploy, MsgInv, EndInv
    <3> QED BY <1>1, <3>1
  <2>4. CASE Log!Restart \/ Log!Open \/ Log!Leave
    <3>1. buf' = << >> \/ buf' = buf
      BY <2>4 DEF Log!Restart, Log!Open, Log!Leave
    <3>2. ~view'.done /\ (view'.terminal => row = "finished")
      <4>1. CASE Log!Restart \/ Log!Leave
        BY <4>1 DEF Log!Restart, Log!Leave, Log!NoView
      <4>2. CASE Log!Open
        <5>1. PICK b \in BOOLEAN : b <=> row = "finished"
          OBVIOUS
        <5>2. view' = [Log!NoView EXCEPT !.pc = "subscribe", !.terminal = b]
          BY <4>2, <5>1 DEF Log!Open
        <5> QED BY <5>1, <5>2 DEF Log!NoView
      <4> QED BY <2>4, <4>1, <4>2
    <3> QED BY <1>1, <3>1, <3>2 DEF EndInv
  <2>5. CASE Log!Subscribe \/ Log!Snapshot \/ Log!Unsubscribe
    <3>1. buf' = << >> \/ buf' = buf
      BY <2>5 DEF Log!Subscribe, Log!Snapshot, Log!Unsubscribe
    <3>2. view'.terminal = view.terminal /\ view'.done \in {view.done, view.terminal}
      BY <1>1, <2>5 DEF Log!Subscribe, Log!Snapshot, Log!Unsubscribe, Log!ViewStep, ViewInv, ViewFields
    <3> QED BY <1>1, <3>1, <3>2 DEF EndInv
  <2>6. CASE Log!Deliver
    <3>1. PICK m : m = Head(buf) /\ buf # << >> /\ buf' = Tail(buf)
      BY <2>6 DEF Log!Deliver
    <3>2. /\ m = buf[1] /\ 1 \in DOMAIN buf /\ m \in Sent
          /\ \A i \in DOMAIN buf' : i + 1 \in DOMAIN buf /\ buf'[i] = buf[i + 1]
      BY <1>1, <3>1 DEF ViewInv
    <3>3. m.kind = "finished" <=> m = Log!Finished
      BY <1>1, <3>2, LogMessages DEF MsgInv
    <3>4. view'.terminal = view.terminal /\ (view'.done = view.done \/ m = Log!Finished)
      BY <1>1, <2>6, <3>1, <3>3 DEF Log!Deliver, Log!ViewStep, ViewInv, ViewFields
    <3> QED BY <1>1, <3>2, <3>4 DEF EndInv
  <2>7. CASE AgentActs \/ Log!Recv \/ Log!MarkRunning \/ Log!Admit \/ Log!Insert \/ Log!Prune
    <3>1. UNCHANGED <<view, buf>>
      BY <2>7, AgentLeaves DEF Log!Recv, Log!MarkRunning, Log!Admit, Log!Insert, Log!Prune, Log!viewVars
    <3> QED BY <1>1, <3>1 DEF EndInv
  <2> QED BY <2>2, <2>3, <2>4, <2>5, <2>6, <2>7, LogActs DEF GateActs, ViewActs
<1> QED BY <1>2, <1>3, <1>4, <1>5 DEF EndInv

-----------------------------------------------------------------------------
\* The table.
LEMMA StoreFrame ==
  ASSUME LogInv, Log!Next, UNCHANGED <<lines, used, told, shown, cut>>,
         amiss' = {} => amiss = {} /\ row' # "gone"
                        /\ (pc = "insert" => UNCHANGED <<pc, cur>>)
                        /\ (pc' = "insert" => pc = "insert" \/ ~Real(cur') \/ kind = "deploy")
  PROVE  StoreInv'
<1>1. MsgInv /\ StoreInv /\ (Ended => Ended') /\ kind' = kind /\ Lines' = Lines /\ Top' = Top
  BY EndedStays, KindIsKept, KindStays DEF LogInv
<1>2. OutputLines' = OutputLines /\ Log!Seqs(lines)' = Log!Seqs(lines)
  BY DEF OutputLines, Log!Seqs
<1>3. Real(cur)' = Real(cur')
  BY DEF Real
<1>4. ASSUME amiss' = {} PROVE CapInv'
  <2>1. CapInv
    BY <1>1, <1>4 DEF StoreInv
  <2>2. row' # "gone"
    BY <1>4
  <2>3. told' \/ cut' # {} => NoteLine \in lines' \/ (pc' = "insert" /\ cur' = Log!Notice(Log!NoticeSeq))
    BY <1>4, <2>1 DEF CapInv
  <2>4. kind' = "job" =>
          /\ used' <= LogCap /\ Cardinality(OutputLines)' <= LogCap
          /\ \/ Ended'
             \/ Cardinality(OutputLines)' + (IF pc' = "insert" /\ Real(cur') THEN 1 ELSE 0) <= used'
    <3>1. SUFFICES ASSUME kind = "job" PROVE
             /\ used' <= LogCap /\ Cardinality(OutputLines)' <= LogCap
             /\ \/ Ended'
                \/ Cardinality(OutputLines)' + (IF pc' = "insert" /\ Real(cur') THEN 1 ELSE 0) <= used'
      BY <1>1
    <3>2. pc' = "insert" /\ Real(cur') => pc = "insert" /\ Real(cur)
      BY <1>4, <3>1
    <3>3. Cardinality(OutputLines)' = Cardinality(OutputLines)
      BY <1>2
    <3>4. CASE Ended
      BY <1>1, <2>1, <3>1, <3>3, <3>4 DEF CapInv
    <3>5. CASE ~Ended
      <4>1. used <= LogCap /\ Cardinality(OutputLines) <= LogCap
            /\ Cardinality(OutputLines) + (IF pc = "insert" /\ Real(cur) THEN 1 ELSE 0) <= used
        BY <2>1, <3>1, <3>5 DEF CapInv
      <4>2. IsFiniteSet(OutputLines)
        BY <1>1, FS_Subset DEF StoreInv, OutputLines
      <4>3. Cardinality(OutputLines) \in Nat /\ used \in Nat
        BY <1>1, <4>2, FS_CardinalityType DEF StoreInv
      <4> QED BY <3>2, <3>3, <4>1, <4>3
    <3> QED BY <3>4, <3>5
  <2> QED BY <1>3, <2>2, <2>3, <2>4 DEF CapInv, NoteLine
<1> QED BY <1>1, <1>2, <1>4 DEF StoreInv

\* A chunk is admitted, or its place is taken by the notice.
LEMMA StoreAdmits == ASSUME LogInv, Log!Admit PROVE StoreInv'
<1>1. /\ MsgInv /\ StoreInv /\ kind = "job" /\ pc = "admit" /\ cur # Log!Finished
      /\ UNCHANGED <<kind, over, lchan, last, row, lines, shown, amiss>>
  BY DEF LogInv, MsgInv, Log!Admit
<1>2. /\ Lines' = Lines /\ Top' = Top /\ After' = After /\ OutputLines' = OutputLines
      /\ Log!Seqs(lines)' = Log!Seqs(lines)
  BY <1>1, KindStays DEF OutputLines, Log!Seqs
<1>3. Ended => Ended'
  BY EndedStays DEF Log!Next, Log!System
<1>4. IsFiniteSet(OutputLines) /\ Cardinality(OutputLines) \in Nat /\ used \in Nat /\ LogCap \in Nat
  BY <1>1, FS_Subset, FS_CardinalityType, LogsAssumption DEF StoreInv, OutputLines
<1>5. CASE used < LogCap
  <2>1. used' = used + 1 /\ pc' = "insert" /\ UNCHANGED <<told, cut, cur>>
    BY <1>5 DEF Log!Admit
  <2>2. ASSUME amiss = {} PROVE CapInv'
    <3>1. CapInv
      BY <1>1, <2>2 DEF StoreInv
    <3>2. told' \/ cut' # {} => NoteLine \in lines'
      BY <1>1, <2>1, <3>1 DEF CapInv
    <3>3. used' <= LogCap /\ Cardinality(OutputLines)' <= LogCap
      BY <1>1, <1>2, <1>4, <1>5, <2>1, <3>1 DEF CapInv
    <3>4. Ended' \/ Cardinality(OutputLines)' + (IF (pc = "insert" /\ Real(cur))' THEN 1 ELSE 0) <= used'
      BY <1>1, <1>2, <1>3, <1>4, <2>1, <3>1 DEF CapInv
    <3> QED BY <1>1, <3>1, <3>2, <3>3, <3>4 DEF CapInv, NoteLine
  <2> QED BY <1>1, <1>2, <1>4, <2>1, <2>2 DEF StoreInv
<1>6. CASE ~(used < LogCap)
  <2>1. /\ pc' = (IF told THEN "recv" ELSE "insert") /\ cur' = Log!Notice(Log!NoticeSeq)
        /\ told' = TRUE /\ used' = used
    BY <1>6 DEF Log!Admit
  <2>2. ~Real(cur)'
    BY <2>1 DEF Real, Log!Notice
  <2>3. ASSUME amiss = {} PROVE CapInv'
    <3>1. CapInv
      BY <1>1, <2>3 DEF StoreInv
    <3>2. NoteLine \in lines' \/ (pc' = "insert" /\ cur' = Log!Notice(Log!NoticeSeq))
      BY <1>1, <2>1, <3>1 DEF CapInv
    <3>3. used' <= LogCap /\ Cardinality(OutputLines)' <= LogCap
      BY <1>1, <1>2, <2>1, <3>1 DEF CapInv
    <3>4. Ended' \/ Cardinality(OutputLines)' + (IF (pc = "insert" /\ Real(cur))' THEN 1 ELSE 0) <= used'
      BY <1>1, <1>2, <1>3, <1>4, <2>1, <2>2, <3>1 DEF CapInv
    <3> QED BY <1>1, <3>1, <3>2, <3>3, <3>4 DEF CapInv, NoteLine
  <2> QED BY <1>1, <1>2, <1>4, <2>1, <2>3 DEF StoreInv
<1> QED BY <1>5, <1>6

\* A line is stored, unless its number is there; or the insert fails, or the run is gone.
LEMMA StoreInserts == ASSUME LogInv, Log!Insert PROVE StoreInv'
<1>1. /\ MsgInv /\ StoreInv /\ EndInv /\ pc = "insert" /\ cur \in Sent /\ cur # Log!Finished
      /\ pc' \in {"recv", "row"} /\ kind \in {"job", "deploy"}
      /\ UNCHANGED <<kind, over, lchan, last, row, used, told, cut, cur>>
  BY DEF LogInv, MsgInv, Log!Insert
<1>2. Lines' = Lines /\ Top' = Top /\ After' = After /\ (Ended => Ended')
  BY <1>1, KindStays, EndedStays DEF Log!Next, Log!System
<1>3. PICK x : x = [seq |-> cur.seq, what |-> cur.what]
  OBVIOUS
<1>4. /\ x \in Lines /\ x.seq = cur.seq /\ x.what = cur.what /\ Top \in Nat
      /\ Real(cur) => cur.seq \in 1..Top
      /\ Ended => ~Real(cur)
  BY <1>1, <1>3, LogMessages DEF Ended
<1>5. CASE UNCHANGED <<lines, shown>> /\ ((row = "gone" /\ amiss' = amiss) \/ amiss' # {})
  <2>1. amiss' # {}
    BY <1>1, <1>5 DEF StoreInv, CapInv
  <2> QED BY <1>1, <1>2, <1>5, <2>1 DEF StoreInv, Log!Seqs
<1>6. CASE /\ lines' = IF \E l \in lines : l.seq = cur.seq THEN lines ELSE lines \cup {x}
           /\ shown' = IF Real(cur) THEN shown \cup {cur.seq} ELSE shown
           /\ amiss' = amiss
  <2>1. lines' \subseteq Lines /\ IsFiniteSet(lines') /\ lines \subseteq lines'
    BY <1>1, <1>4, <1>6, FS_AddElement DEF StoreInv
  <2>2. cur.seq \in Log!Seqs(lines) \/ x \in lines'
    BY <1>6 DEF Log!Seqs
  <2>3. cur.seq \in Log!Seqs(lines') /\ Log!Seqs(lines) \subseteq Log!Seqs(lines')
    BY <1>4, <2>1, <2>2 DEF Log!Seqs
  <2>4. shown' \subseteq Log!Seqs(lines') \cap 1..Top
    BY <1>1, <1>4, <1>6, <2>3 DEF StoreInv
  <2>5. ASSUME amiss = {} PROVE CapInv'
    <3>1. CapInv
      BY <1>1, <2>5 DEF StoreInv
    <3>2. ASSUME told \/ cut # {} PROVE NoteLine \in lines'
      <4>1. kind = "job"
        BY <1>1, <3>2 DEF StoreInv
      <4>2. CASE NoteLine \in lines
        BY <2>1, <4>2
      <4>3. CASE cur = Log!Notice(Log!NoticeSeq)
        <5>1. x = NoteLine /\ cur.seq = 99
          BY <1>3, <4>3 DEF NoteLine, Log!Notice, Log!NoticeSeq
        <5>2. ASSUME NEW l \in lines, l.seq = 99 PROVE l = NoteLine
          <6>1. l \in Lines /\ Top < 99 /\ Top \in Nat
            BY <1>1, <4>1, <5>2, LogsAssumption DEF StoreInv, Top
          <6> QED BY <5>2, <6>1 DEF Lines, NoteLine, Log!NoticeSeq
        <5> QED BY <1>6, <5>1, <5>2
      <4> QED BY <3>1, <3>2, <4>2, <4>3 DEF CapInv
    <3>3. ASSUME kind = "job"
          PROVE  /\ used <= LogCap /\ Cardinality(OutputLines') <= LogCap
                 /\ Ended' \/ Cardinality(OutputLines') <= used
      <4>1. /\ IsFiniteSet(OutputLines) /\ Cardinality(OutputLines) \in Nat /\ used \in Nat /\ LogCap \in Nat
            /\ used <= LogCap /\ Cardinality(OutputLines) <= LogCap
        BY <1>1, <3>1, <3>3, FS_Subset, FS_CardinalityType, LogsAssumption DEF StoreInv, OutputLines, CapInv
      <4>2. CASE Real(cur)
        <5>1. Cardinality(OutputLines) + 1 <= used /\ ~Ended
          BY <1>1, <1>4, <3>1, <3>3, <4>2 DEF CapInv
        <5>2. OutputLines' = OutputLines \/ OutputLines' = OutputLines \cup {x}
          BY <1>4, <1>6, <4>2 DEF OutputLines, Real
        <5>3. Cardinality(OutputLines') \in Nat /\ Cardinality(OutputLines') <= Cardinality(OutputLines) + 1
          BY <4>1, <5>2, FS_AddElement
        <5> QED BY <4>1, <5>1, <5>3
      <4>3. CASE ~Real(cur)
        <5>1. OutputLines' = OutputLines
          BY <1>4, <1>6, <4>3 DEF OutputLines, Real
        <5> QED BY <1>2, <3>1, <3>3, <4>1, <4>3, <5>1 DEF CapInv
      <4> QED BY <4>2, <4>3
    <3>4. Cardinality(OutputLines)' + (IF (pc = "insert" /\ Real(cur))' THEN 1 ELSE 0) = Cardinality(OutputLines')
          \/ kind # "job"
      <4>1. IsFiniteSet(OutputLines') /\ Cardinality(OutputLines') \in Nat
        BY <2>1, FS_Subset, FS_CardinalityType DEF OutputLines
      <4> QED BY <1>1, <4>1
    <3> QED BY <1>1, <3>1, <3>2, <3>3, <3>4 DEF CapInv, NoteLine
  <2> QED BY <1>1, <1>2, <1>6, <2>1, <2>4, <2>5 DEF StoreInv
<1> QED BY <1>3, <1>5, <1>6 DEF Log!Insert, Real

LEMMA StoreStep == ASSUME LogInv, Log!Next PROVE StoreInv'
<1>1. MsgInv /\ StoreInv /\ EndInv /\ (amiss = {} => CapInv) /\ (Ended => Ended')
  BY EndedStays DEF LogInv, StoreInv
<1>2. kind' = kind /\ Lines' = Lines /\ Top' = Top /\ kind \in {"job", "deploy"}
  BY <1>1, KindIsKept, KindStays DEF MsgInv
<1>3. CASE AgentActs \/ ViewActs
  <2>1. UNCHANGED <<lines, used, told, shown, cut, amiss, row, pc, cur>>
    BY <1>3, AgentLeaves, ViewLeaves
  <2> QED BY <1>1, <2>1, StoreFrame DEF CapInv, Real
<1>4. CASE Log!Recv \/ Log!MarkRunning \/ Log!Publish \/ Log!FinishDeploy
  <2>1. /\ UNCHANGED <<lines, used, told, shown, cut>> /\ row' \in {row, "running", "finished"}
        /\ amiss' = amiss \/ amiss' # {}
        /\ pc # "insert" /\ (pc' = "insert" => kind = "deploy")
    <3>1. CASE Log!Recv
      <4>1. pc = "recv" /\ pc' \in {"finish", "row", "publish"} /\ UNCHANGED <<row, amiss>>
        BY <3>1 DEF Log!Recv
      <4> QED BY <3>1, <4>1 DEF Log!Recv
    <3>2. CASE Log!MarkRunning
      BY <3>2 DEF Log!MarkRunning
    <3>3. CASE Log!Publish
      BY <1>2, <3>3 DEF Log!Publish
    <3>4. CASE Log!FinishDeploy
      BY <3>4 DEF Log!FinishDeploy
    <3> QED BY <1>4, <3>1, <3>2, <3>3, <3>4
  <2> QED BY <1>1, <2>1, StoreFrame DEF CapInv
<1>5. CASE Log!Finish
  <2>1. /\ pc = "finish" /\ pc' = "recv" /\ used' = 0 /\ told' = FALSE /\ kind = "job"
        /\ UNCHANGED <<lines, shown, cut, cur>>
        /\ amiss' = {} => amiss = {} /\ row' \in {row, "finished"}
    BY <1>5 DEF Log!Finish
  <2>2. Ended'
    BY <1>1, <2>1 DEF MsgInv, EndInv
  <2>3. OutputLines' = OutputLines /\ Log!Seqs(lines)' = Log!Seqs(lines)
    BY <2>1 DEF OutputLines, Log!Seqs
  <2>4. ASSUME amiss' = {} PROVE CapInv'
    <3>1. CapInv
      BY <1>1, <2>1, <2>4
    <3>2. cut # {} => NoteLine \in lines
      BY <2>1, <3>1 DEF CapInv
    <3>3. used' <= LogCap /\ Cardinality(OutputLines)' <= LogCap
      BY <2>1, <2>3, <3>1, LogsAssumption DEF CapInv
    <3> QED BY <2>1, <2>2, <2>4, <3>1, <3>2, <3>3 DEF CapInv, NoteLine
  <2> QED BY <1>1, <1>2, <2>1, <2>3, <2>4 DEF StoreInv
<1>6. CASE Log!Restart
  <2>1. /\ used' = 0 /\ told' = FALSE /\ amiss' # {} /\ UNCHANGED <<lines, shown, cut>>
    BY <1>6 DEF Log!Restart
  <2> QED BY <1>1, <1>2, <2>1 DEF StoreInv, Log!Seqs
<1>7. CASE Log!Prune
  <2>1. /\ lines' = {} /\ shown' = {} /\ cut' = {} /\ amiss' # {} /\ kind = "job"
        /\ UNCHANGED <<used, told>>
    BY <1>7 DEF Log!Prune
  <2> QED BY <1>1, <1>2, <2>1, FS_EmptySet DEF StoreInv
<1> QED BY <1>3, <1>4, <1>5, <1>6, <1>7, StoreAdmits, StoreInserts, LogActs DEF GateActs

-----------------------------------------------------------------------------
\* The browser.
\* A message more in the channel.
LEMMA BufGrows ==
  ASSUME buf \in Seq(Sent), NEW m \in Sent, buf' = Append(buf, m)
  PROVE  /\ buf' \in Seq(Sent) /\ BufSeqs' = BufSeqs \cup {m.seq}
         /\ DOMAIN buf' = DOMAIN buf \cup {Len(buf) + 1} /\ DOMAIN buf = 1..Len(buf) /\ Len(buf) \in Nat
         /\ buf'[Len(buf) + 1] = m /\ \A i \in DOMAIN buf : buf'[i] = buf[i]
<1>1. /\ buf' \in Seq(Sent)
      /\ DOMAIN buf' = DOMAIN buf \cup {Len(buf) + 1} /\ DOMAIN buf = 1..Len(buf) /\ Len(buf) \in Nat
      /\ buf'[Len(buf) + 1] = m /\ \A i \in DOMAIN buf : buf'[i] = buf[i]
  OBVIOUS
<1>2. BufSeqs' = BufSeqs \cup {m.seq}
  BY <1>1 DEF BufSeqs
<1> QED BY <1>1, <1>2

\* A message less.
LEMMA BufShrinks ==
  ASSUME buf \in Seq(Sent), buf # << >>, buf' = Tail(buf)
  PROVE  /\ buf' \in Seq(Sent) /\ Head(buf) = buf[1] /\ 1 \in DOMAIN buf /\ Head(buf) \in Sent
         /\ \A i \in DOMAIN buf' : i \in Nat \ {0} /\ i + 1 \in DOMAIN buf /\ buf'[i] = buf[i + 1]
         /\ BufSeqs \subseteq {Head(buf).seq} \cup BufSeqs'
<1>1. /\ buf' \in Seq(Sent) /\ Head(buf) = buf[1] /\ 1 \in DOMAIN buf /\ Head(buf) \in Sent
      /\ DOMAIN buf = 1..Len(buf) /\ Len(buf) \in Nat /\ DOMAIN buf' = 1..(Len(buf) - 1)
      /\ \A i \in DOMAIN buf' : i \in Nat \ {0} /\ i + 1 \in DOMAIN buf /\ buf'[i] = buf[i + 1]
  OBVIOUS
<1>2. ASSUME NEW i \in DOMAIN buf PROVE buf[i].seq \in {Head(buf).seq} \cup BufSeqs'
  <2>1. CASE i = 1
    BY <1>1, <2>1
  <2>2. CASE i # 1
    <3>1. i - 1 \in DOMAIN buf' /\ buf'[i - 1] = buf[i]
      BY <1>1, <2>2
    <3> QED BY <3>1 DEF BufSeqs
  <2> QED BY <2>1, <2>2
<1>3. BufSeqs \subseteq {Head(buf).seq} \cup BufSeqs'
  BY <1>2 DEF BufSeqs
<1> QED BY <1>1, <1>3

LEMMA NothingBehind == ASSUME MsgInv, Ended PROVE Pending = {}
BY LogMessages DEF MsgInv, Ended, Pending

\* A browser that is told nothing misses nothing: what becomes stored was behind.
LEMMA ViewFrame ==
  ASSUME LogInv, Log!Next, UNCHANGED <<view, sub, buf>>,
         Pending' \subseteq Pending, shown' \subseteq shown \cup Pending
  PROVE  ViewInv'
<1>1. MsgInv /\ ViewInv /\ EndInv /\ Sent' = Sent /\ After' = After
  BY KindIsKept, KindStays DEF LogInv
<1>2. BufSeqs' = BufSeqs /\ Behind' = Behind
  BY DEF BufSeqs, Behind, Log!Seqs
<1>3. view.done => Pending = {}
  BY <1>1, NothingBehind DEF EndInv
<1> QED BY <1>1, <1>2, <1>3 DEF ViewInv

\* A message is published: a browser that listens has it in its channel, or has lost it.
LEMMA ViewHears ==
  ASSUME LogInv, Log!Next, NEW m \in Sent, Log!Fanout(m), Ended => m \in After,
         UNCHANGED <<sub, shown>>, Pending = {}, Pending' \subseteq {m.seq}
  PROVE  ViewInv'
<1>1. MsgInv /\ ViewInv /\ EndInv /\ Sent' = Sent /\ After' = After
  BY KindIsKept, KindStays DEF LogInv
<1>2. CASE sub /\ buf' = Append(buf, m) /\ view' = view
  <2>1. /\ buf' \in Seq(Sent) /\ BufSeqs' = BufSeqs \cup {m.seq}
        /\ DOMAIN buf' = DOMAIN buf \cup {Len(buf) + 1} /\ DOMAIN buf = 1..Len(buf) /\ Len(buf) \in Nat
        /\ buf'[Len(buf) + 1] = m /\ \A i \in DOMAIN buf : buf'[i] = buf[i]
    BY <1>1, <1>2, BufGrows DEF ViewInv
  <2>2. ASSUME NEW i \in DOMAIN buf', NEW j \in DOMAIN buf', i < j, buf'[i] = Log!Finished
        PROVE  buf'[j] \in After
    <3>1. i \in DOMAIN buf /\ buf[i] = Log!Finished
      BY <2>1, <2>2
    <3>2. Ended
      BY <1>1, <3>1 DEF EndInv
    <3> QED BY <1>1, <2>1, <2>2, <3>1, <3>2 DEF ViewInv
  <2>3. Behind' = Behind
    BY <1>2 DEF Behind, Log!Seqs
  <2> QED BY <1>1, <1>2, <2>1, <2>2, <2>3 DEF ViewInv
<1>3. CASE ~sub /\ buf' = buf /\ view' = view
  <2>1. BufSeqs' = BufSeqs /\ Behind' = Behind
    BY <1>3 DEF BufSeqs, Behind, Log!Seqs
  <2> QED BY <1>1, <1>3, <2>1 DEF ViewInv
<1>4. CASE sub /\ buf' = buf /\ view' = [view EXCEPT !.dropped = TRUE]
  <2>1. /\ DOMAIN view' = ViewFields /\ view'.dropped /\ view'.pc = view.pc /\ view'.done = view.done
    BY <1>1, <1>4 DEF ViewInv, ViewFields
  <2> QED BY <1>1, <1>4, <2>1 DEF ViewInv
<1> QED BY <1>2, <1>3, <1>4, Fans

\* A browser comes, or has gone.
LEMMA ViewBegins ==
  ASSUME LogInv, Log!Restart \/ Log!Open \/ Log!Leave
  PROVE  ViewInv'
<1>1. MsgInv /\ ViewInv /\ Sent' = Sent /\ After' = After
  BY KindIsKept, KindStays DEF LogInv, Log!Next
<1>2. buf' = << >> \/ buf' = buf
  BY DEF Log!Restart, Log!Open, Log!Leave
<1>3. DOMAIN view' = ViewFields /\ ~view'.done /\ view'.pc \in {"none", "subscribe"}
  <2>1. CASE Log!Restart \/ Log!Leave
    BY <2>1 DEF Log!Restart, Log!Leave, Log!NoView, ViewFields
  <2>2. CASE Log!Open
    <3>1. PICK b \in BOOLEAN : b <=> row = "finished"
      OBVIOUS
    <3>2. view' = [Log!NoView EXCEPT !.pc = "subscribe", !.terminal = b]
      BY <2>2, <3>1 DEF Log!Open
    <3> QED BY <3>2 DEF Log!NoView, ViewFields
  <2> QED BY <2>1, <2>2
<1>4. buf' \in Seq(Sent) /\ \A i, j \in DOMAIN buf' : i < j /\ buf'[i] = Log!Finished => buf'[j] \in After
  <2>1. CASE buf' = << >>
    BY <2>1
  <2>2. CASE buf' = buf
    BY <1>1, <2>2 DEF ViewInv
  <2> QED BY <1>2, <2>1, <2>2
<1> QED BY <1>1, <1>3, <1>4 DEF ViewInv

\* A browser subscribes: what was published before is behind it.
LEMMA ViewSubscribes == ASSUME LogInv, Log!Subscribe PROVE ViewInv'
<1>1. MsgInv /\ ViewInv /\ Sent' = Sent /\ After' = After /\ view.pc = "subscribe"
  BY KindIsKept, KindStays DEF LogInv, Log!Next, Log!System, Log!Subscribe, Log!ViewStep
<1>2. UNCHANGED <<pc, cur, shown, buf>> /\ sub'
  BY ViewLeaves DEF ViewActs, Log!Subscribe
<1>3. /\ DOMAIN view' = ViewFields /\ view'.pc = "snapshot" /\ view'.done = view.done
      /\ view'.gap = IF pc \in {"admit", "insert"} THEN {cur.seq} ELSE {}
  <2>1. PICK b \in BOOLEAN : b <=> ~view.terminal /\ row \in {"finished", "gone"}
    OBVIOUS
  <2>2. view' = [view EXCEPT !.pc = "snapshot", !.late = b,
                             !.gap = IF pc \in {"admit", "insert"} THEN {cur.seq} ELSE {}]
    BY <2>1 DEF Log!Subscribe, Log!ViewStep
  <2> QED BY <1>1, <2>2 DEF ViewInv, ViewFields
<1>4. Pending' \subseteq view'.gap
  BY <1>2, <1>3 DEF Pending, Real
<1> QED BY <1>1, <1>2, <1>3, <1>4 DEF ViewInv

\* The stored lines are read: what was behind is among them, or still to come.
LEMMA ViewReads == ASSUME LogInv, Log!Snapshot PROVE ViewInv'
<1>1. MsgInv /\ ViewInv /\ EndInv /\ StoreInv /\ Sent' = Sent /\ After' = After /\ view.pc = "snapshot"
  BY KindIsKept, KindStays DEF LogInv, Log!Next, Log!System, Log!Snapshot, Log!ViewStep
<1>2. UNCHANGED <<pc, cur, shown, buf, sub>>
  BY ViewLeaves DEF ViewActs, Log!Snapshot
<1>3. /\ DOMAIN view' = ViewFields /\ view'.got = lines /\ view'.gap = view.gap \ Log!Seqs(lines)
      /\ view'.dropped = view.dropped /\ view'.done = view.terminal
      /\ view'.pc = IF view.terminal THEN "end" ELSE "live"
  BY <1>1 DEF Log!Snapshot, Log!ViewStep, Log!Seqs, ViewInv, ViewFields
<1>4. BufSeqs' = BufSeqs /\ Pending' = Pending /\ Behind' = Log!Seqs(lines) \cup view.gap
  BY <1>2, <1>3 DEF BufSeqs, Pending, Real, Behind, Log!Seqs
<1>5. shown \subseteq Log!Seqs(lines)
  BY <1>1 DEF StoreInv
<1> QED BY <1>1, <1>2, <1>3, <1>4, <1>5 DEF ViewInv

\* An event of the channel is written out; after the last one nothing counts.
LEMMA ViewReceives == ASSUME LogInv, Log!Deliver PROVE ViewInv'
<1>1. MsgInv /\ ViewInv /\ EndInv /\ StoreInv /\ Sent' = Sent /\ After' = After /\ view.pc = "live"
  BY KindIsKept, KindStays DEF LogInv, Log!Next, Log!System, Log!Deliver, Log!ViewStep
<1>2. UNCHANGED <<pc, cur, shown, sub>> /\ buf # << >> /\ buf' = Tail(buf)
  BY ViewLeaves DEF ViewActs, Log!Deliver
<1>3. PICK m : m = Head(buf)
  OBVIOUS
<1>4. /\ buf' \in Seq(Sent) /\ m = buf[1] /\ 1 \in DOMAIN buf /\ m \in Sent
      /\ \A i \in DOMAIN buf' : i \in Nat \ {0} /\ i + 1 \in DOMAIN buf /\ buf'[i] = buf[i + 1]
      /\ BufSeqs \subseteq {m.seq} \cup BufSeqs'
  BY <1>1, <1>2, <1>3, BufShrinks DEF ViewInv
<1>5. \A i, j \in DOMAIN buf' : i < j /\ buf'[i] = Log!Finished => buf'[j] \in After
  BY <1>1, <1>4 DEF ViewInv
<1>6. Pending' = Pending /\ (m.kind = "finished" <=> m = Log!Finished)
  BY <1>1, <1>2, <1>4, LogMessages DEF Pending, Real, MsgInv
<1>7. CASE m = Log!Finished
  <2>1. /\ DOMAIN view' = ViewFields /\ view'.pc = "end" /\ view'.done
        /\ view'.got = view.got /\ view'.gap = view.gap /\ view'.dropped = view.dropped
    BY <1>1, <1>3, <1>6, <1>7 DEF Log!Deliver, Log!ViewStep, ViewInv, ViewFields
  <2>2. ASSUME NEW i \in DOMAIN buf PROVE buf[i] \in After
    <3>1. 1 = i \/ 1 < i
      BY <1>1, <2>2 DEF ViewInv
    <3> QED BY <1>1, <1>4, <1>7, <2>2, <3>1 DEF ViewInv, After
  <2>3. BufSeqs \subseteq {0, NoteAt}
    BY <1>1, <2>2, LogMessages DEF BufSeqs, MsgInv
  <2>4. shown \subseteq 1..Top /\ NoteAt \notin 1..Top
    BY <1>1, LogMessages DEF StoreInv, MsgInv
  <2>5. ~view.dropped => shown \subseteq Behind
    BY <1>1, <2>3, <2>4 DEF ViewInv
  <2>6. Behind' = Behind
    BY <2>1 DEF Behind, Log!Seqs
  <2> QED BY <1>1, <1>2, <1>4, <1>5, <2>1, <2>5, <2>6 DEF ViewInv
<1>8. CASE m # Log!Finished
  <2>1. PICK l : l = [seq |-> m.seq, what |-> m.what]
    OBVIOUS
  <2>2. /\ DOMAIN view' = ViewFields /\ view'.pc = "live" /\ view'.done = view.done
        /\ view'.got = view.got \cup {l} /\ view'.gap = view.gap /\ view'.dropped = view.dropped
    BY <1>1, <1>3, <1>6, <1>8, <2>1 DEF Log!Deliver, Log!ViewStep, ViewInv, ViewFields
  <2>3. Behind' = Behind \cup {m.seq}
    BY <2>1, <2>2 DEF Behind, Log!Seqs
  <2> QED BY <1>1, <1>2, <1>4, <1>5, <1>6, <2>2, <2>3 DEF ViewInv
<1> QED BY <1>7, <1>8

LEMMA ViewStep == ASSUME LogInv, Log!Next PROVE ViewInv'
<1>1. MsgInv /\ ViewInv /\ EndInv /\ Sent' = Sent /\ After' = After
  BY KindIsKept, KindStays DEF LogInv
<1>2. CASE AgentActs \/ Log!Recv \/ Log!MarkRunning \/ Log!Prune
  <2>1. UNCHANGED <<view, sub, buf>> /\ shown' \subseteq shown
    BY <1>2, AgentLeaves DEF Log!Recv, Log!MarkRunning, Log!Prune, Log!viewVars
  <2>2. pc' \notin {"admit", "insert"} \/ UNCHANGED <<pc, cur>>
    BY <1>2, AgentLeaves DEF Log!Recv, Log!MarkRunning, Log!Prune
  <2>3. Pending' \subseteq Pending
    BY <2>2 DEF Pending, Real
  <2> QED BY <2>1, <2>3, ViewFrame
<1>3. CASE Log!Admit
  <2>1. /\ UNCHANGED <<view, sub, buf, shown>> /\ pc = "admit"
        /\ cur' = cur \/ cur' = Log!Notice(Log!NoticeSeq)
    BY <1>3 DEF Log!Admit, Log!viewVars
  <2>2. Pending' \subseteq Pending
    BY <2>1 DEF Pending, Real, Log!Notice
  <2> QED BY <2>1, <2>2, ViewFrame
<1>4. CASE Log!Insert
  <2>1. /\ UNCHANGED <<view, sub, buf>> /\ pc = "insert" /\ pc' \in {"recv", "row"}
        /\ shown' = shown \/ (Real(cur) /\ shown' = shown \cup {cur.seq})
    BY <1>4 DEF Log!Insert, Log!viewVars, Real
  <2> QED BY <2>1, ViewFrame DEF Pending
<1>5. CASE Log!Publish \/ Log!Finish \/ Log!FinishDeploy
  <2>1. /\ UNCHANGED <<sub, shown, cur>> /\ pc \in {"publish", "finish"}
        /\ pc' \in {"admit", "insert"} => pc = "publish"
        /\ Log!Fanout(cur) \/ UNCHANGED <<buf, view>>
    BY <1>5 DEF Log!Publish, Log!Finish, Log!FinishDeploy
  <2>2. Pending = {} /\ Pending' \subseteq {cur.seq} /\ (pc = "finish" => Pending' = {})
    BY <2>1 DEF Pending
  <2>3. CASE Log!Fanout(cur)
    BY <1>1, <2>1, <2>2, <2>3, ViewHears DEF MsgInv, Ended
  <2>4. CASE UNCHANGED <<buf, view>>
    <3>1. CASE pc = "finish"
      BY <2>1, <2>2, <2>4, <3>1, ViewFrame
    <3>2. CASE pc = "publish"
      BY <1>5, <2>3, <3>2 DEF Log!Publish, Log!Finish, Log!FinishDeploy
    <3> QED BY <2>1, <3>1, <3>2
  <2> QED BY <2>1, <2>3, <2>4
<1>6. CASE Log!Unsubscribe
  <2>1. /\ buf' = << >> /\ UNCHANGED <<pc, cur, shown>>
        /\ view' = [view EXCEPT !.pc = "closed"]
    BY <1>6, ViewLeaves DEF ViewActs, Log!Unsubscribe, Log!ViewStep
  <2>2. /\ DOMAIN view' = ViewFields /\ view'.pc = "closed" /\ view'.done = view.done
        /\ view'.got = view.got /\ view'.gap = view.gap /\ view'.dropped = view.dropped
    BY <1>1, <2>1 DEF ViewInv, ViewFields
  <2>3. Behind' = Behind
    BY <2>2 DEF Behind, Log!Seqs
  <2> QED BY <1>1, <2>1, <2>2, <2>3 DEF ViewInv
<1> QED BY <1>2, <1>3, <1>4, <1>5, <1>6, ViewBegins, ViewSubscribes, ViewReads, ViewReceives, LogActs
    DEF GateActs, ViewActs

-----------------------------------------------------------------------------
LEMMA LogStarts == ASSUME Log!Init PROVE LogInv
<1>1. kind \in {"job", "deploy"} /\ LogCap \in Nat /\ MaxChunks \in Nat
  BY LogsAssumption DEF Log!Init
<1>2. MsgInv
  BY <1>1 DEF Log!Init, MsgInv, Holds, Sent, Log!Started, Log!Finished
<1>3. EndInv
  BY DEF Log!Init, EndInv, Log!NoView, Log!Started, Log!Finished
<1>4. StoreInv
  <2>1. /\ lines = {} /\ used = 0 /\ told = FALSE /\ shown = {} /\ cut = {} /\ row = "pending"
        /\ pc = "recv"
    BY DEF Log!Init
  <2>2. OutputLines = {}
    BY <2>1 DEF OutputLines
  <2>3. CapInv
    BY <1>1, <2>1, <2>2, FS_EmptySet DEF CapInv
  <2> QED BY <2>1, <2>3, FS_EmptySet DEF StoreInv
<1>5. ViewInv
  BY DEF Log!Init, ViewInv, Log!NoView, ViewFields
<1> QED BY <1>2, <1>3, <1>4, <1>5 DEF LogInv

LEMMA LogGoes == ASSUME LogInv, [Log!Next]_logVars PROVE LogInv'
<1>1. CASE Log!Next
  BY <1>1, MsgStep, EndStep, StoreStep, ViewStep DEF LogInv
<1>2. CASE UNCHANGED logVars
  <2>1. NoteAt' = NoteAt /\ Top' = Top /\ After' = After /\ Sent' = Sent /\ Lines' = Lines
    BY <1>2, KindStays DEF logVars
  <2>2. MsgInv' /\ Ended' = Ended
    BY <1>2, <2>1 DEF LogInv, MsgInv, Ended, logVars
  <2>3. EndInv'
    BY <1>2, <2>2 DEF LogInv, EndInv, logVars
  <2>4. OutputLines' = OutputLines /\ Log!Seqs(lines)' = Log!Seqs(lines) /\ Real(cur)' = Real(cur)
    BY <1>2 DEF OutputLines, Log!Seqs, Real, logVars
  <2>5. CapInv => CapInv'
    BY <1>2, <2>2, <2>4 DEF CapInv, NoteLine, logVars
  <2>6. StoreInv'
    BY <1>2, <2>1, <2>4, <2>5 DEF LogInv, StoreInv, logVars
  <2>7. BufSeqs' = BufSeqs /\ Behind' = Behind /\ Pending' = Pending
    BY <1>2, <2>4 DEF BufSeqs, Behind, Pending, Log!Seqs, logVars
  <2>8. ViewInv'
    BY <1>2, <2>1, <2>7 DEF LogInv, ViewInv, logVars
  <2> QED BY <2>2, <2>3, <2>6, <2>8 DEF LogInv
<1> QED BY <1>1, <1>2

\* What is stored of a deploy stays within the cap, for its chunks are numbered.
LEMMA NumberedLines ==
  ASSUME LogInv, kind = "deploy"
  PROVE  Cardinality(OutputLines) <= LogCap
<1> DEFINE line == [n \in 1..LogCap |-> [seq |-> n, what |-> "data"]]
           Numbered == {line[n] : n \in 1..LogCap}
<1>1. LogCap \in Nat /\ IsFiniteSet(1..LogCap) /\ Cardinality(1..LogCap) = LogCap
  BY FS_Interval, LogsAssumption
<1>2. line \in Surjection(1..LogCap, Numbered)
  BY DEF Surjection
<1>3. IsFiniteSet(Numbered) /\ Cardinality(Numbered) <= LogCap
  BY <1>1, <1>2, FS_Surjection
<1>4. ASSUME NEW l \in OutputLines PROVE l \in Numbered
  <2>1. l \in Lines /\ l.what = "data" /\ l.seq # 0 /\ Top = LogCap
    BY DEF OutputLines, LogInv, StoreInv, Top
  <2>2. l.seq \in 1..LogCap /\ l = [seq |-> l.seq, what |-> "data"]
    BY <1>1, <2>1 DEF Lines
  <2> QED BY <2>2
<1> HIDE DEF Numbered
<1>5. OutputLines \subseteq Numbered
  BY <1>4
<1>6. Cardinality(OutputLines) <= Cardinality(Numbered) /\ Cardinality(OutputLines) \in Nat /\ Cardinality(Numbered) \in Nat
  BY <1>3, <1>5, FS_Subset, FS_CardinalityType
<1> QED BY <1>1, <1>3, <1>6

LEMMA LogRight == ASSUME LogInv PROVE ViewerRight
<1>1. Log!ViewerComplete
  BY DEF LogInv, ViewInv, Behind, Log!ViewerComplete, Log!Seqs
<1>2. \A S : Log!Cardinality(S) = Cardinality(S)
  BY DEF Log!Cardinality, Cardinality
<1>3. ASSUME amiss = {}
      PROVE  /\ cut # {} /\ pc = "recv" => \E l \in lines : l.what = "notice"
             /\ Cardinality({l \in lines : l.what = "notice"}) <= 1
             /\ Cardinality({l \in lines : l.what = "data" /\ l.seq # 0}) <= LogCap
  <2>1. CapInv /\ lines \subseteq Lines /\ IsFiniteSet(lines) /\ kind \in {"job", "deploy"}
    BY <1>3 DEF LogInv, StoreInv, MsgInv
  <2>2. cut # {} /\ pc = "recv" => \E l \in lines : l.what = "notice"
    BY <2>1 DEF CapInv, NoteLine
  <2>3. Cardinality({l \in lines : l.what = "notice"}) <= 1
    <3>1. PICK x : x = [seq |-> NoteAt, what |-> "notice"]
      OBVIOUS
    <3>2. {l \in lines : l.what = "notice"} \subseteq {x}
      BY <2>1, <3>1 DEF Lines
    <3>3. IsFiniteSet({x}) /\ Cardinality({x}) = 1
      BY FS_Singleton
    <3> QED BY <3>2, <3>3, FS_Subset
  <2>4. Cardinality(OutputLines) <= LogCap
    BY <2>1, NumberedLines DEF CapInv
  <2> QED BY <2>2, <2>3, <2>4 DEF OutputLines
<1>4. Log!TruncationTold
  BY <1>2, <1>3 DEF Log!TruncationTold
<1> QED BY <1>1, <1>4 DEF ViewerRight

\* ViewerRight: a browser that is told the end has seen all of the output that is stored,
\* but what its channel dropped and what fell into the gap; what a cap kept out of the
\* table is told in it once; and the table stays within the cap.
THEOREM ViewersSeeAll == MCSafe => []ViewerRight
<1>1. MCInit => LogInv
  BY LogStarts DEF MCInit
<1>2. LogInv /\ [MCNext]_allVars => LogInv'
  <2>1. [MCNext]_allVars => [Log!Next]_logVars
    BY DEF MCNext, allVars
  <2> QED BY <2>1, LogGoes
<1>3. LogInv => ViewerRight
  BY LogRight
<1> QED BY <1>1, <1>2, <1>3, PTL DEF MCSafe
=============================================================================
