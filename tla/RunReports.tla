----------------------------- MODULE RunReports -----------------------------
(***************************************************************************)
(* The way of a run's messages from the agent's disk to the control        *)
(* plane's tables: the outbox (agent/internal/outbox/outbox.go), the drain *)
(* loop of each connection (agent/internal/runtime/runtime.go), the        *)
(* stream, and the handlers of the gateway                                 *)
(* (control-plane/internal/agentgw/stream.go).                             *)
(*                                                                         *)
(* stream.Send returns when the message is in the transport's buffer, so a *)
(* key is deleted while its message is still in flight; and the gateway    *)
(* runs one receive loop per stream, which may still be busy when the      *)
(* agent has opened the next stream.  The variable env, chosen once, says  *)
(* which of these two things can go wrong in a behaviour, so that          *)
(* properties can name the mildest circumstances they need.                *)
(***************************************************************************)
EXTENDS Integers, Sequences, FiniteSets

CONSTANTS
  Runs,        \* run ids
  MaxConns,    \* bound: connections ever opened
  MaxCrashes,  \* bound: deaths of the agent process
  Envs         \* what may go wrong: sets of "lossy" (a broken stream or a failed
               \* handler loses messages) and "overlap" (an old stream's handler
               \* outlives the next connect)

Conns    == 1..MaxConns
Kinds    == {"started", "log", "finished"}
Messages == [run : Runs, kind : Kinds]
NoKey    == -1

VARIABLES
  env,      \* what may go wrong in this behaviour
  made,     \* how far a run is: 0 not begun .. 3 finished, 4 died with the agent
  next,     \* Outbox.next: the next key
  outbox,   \* the bbolt bucket: keys with their messages, in key order
  conns,    \* connections opened so far
  link,     \* the agent's current stream, 0 when there is none
  drain,    \* per connection: key its drain loop has sent and not yet deleted
  chan,     \* per connection: messages sent and not yet handled
  open,     \* connections whose AgentStream handler still runs
  runs,     \* table runs: status
  logs,     \* table run_logs: runs with a stored line
  alerts,   \* FireRunFailed calls per run
  crashes,  \* bound counter
  handled,  \* history: messages a handler saw
  gone      \* history: messages a broken stream or handler lost

agentVars  == <<env, made, next, outbox, crashes>>
serverVars == <<runs, logs, alerts, handled>>
vars == <<env, made, next, outbox, conns, link, drain, chan, open, runs, logs,
          alerts, crashes, handled, gone>>

Entries == [key : Nat, msg : Messages]

Lossy   == "lossy" \in env
Overlap == "overlap" \in env

TypeOK ==
  /\ env \in Envs
  /\ made \in [Runs -> 0..4]
  /\ next \in Nat
  /\ outbox \in Seq(Entries)
  /\ conns \in 0..MaxConns
  /\ link \in 0..MaxConns
  /\ drain \in [Conns -> Nat \cup {NoKey}]
  /\ chan \in [Conns -> Seq(Messages)]
  /\ open \in SUBSET Conns
  /\ runs \in [Runs -> {"absent", "running", "finished"}]
  /\ logs \in SUBSET Runs
  /\ alerts \in [Runs -> Nat]
  /\ crashes \in 0..MaxCrashes
  /\ handled \in SUBSET Messages
  /\ gone \in SUBSET Messages

Init ==
  /\ env \in Envs
  /\ made = [r \in Runs |-> 0]
  /\ next = 0
  /\ outbox = << >>
  /\ conns = 0
  /\ link = 0
  /\ drain = [c \in Conns |-> NoKey]
  /\ chan = [c \in Conns |-> << >>]
  /\ open = {}
  /\ runs = [r \in Runs |-> "absent"]
  /\ logs = {}
  /\ alerts = [r \in Runs |-> 0]
  /\ crashes = 0
  /\ handled = {}
  /\ gone = {}

MessagesIn(s) == { s[i] : i \in DOMAIN s }

-----------------------------------------------------------------------------
(***************************************************************************)
(* The agent.                                                              *)
(***************************************************************************)
KindOf(n) == CASE n = 1 -> "started" [] n = 2 -> "log" [] OTHER -> "finished"

Put(r) ==
  /\ made' = [made EXCEPT ![r] = @ + 1]
  /\ outbox' = Append(outbox, [key |-> next,
                               msg |-> [run |-> r, kind |-> KindOf(made[r] + 1)]])
  /\ next' = next + 1
  /\ UNCHANGED <<env, conns, link, drain, chan, open, serverVars, crashes, gone>>

\* Outbox.Enqueue, called by executeRun for a run's next message.
Enqueue(r) ==
  /\ made[r] < 3
  /\ Put(r)

\* connectAndServe opens a stream; the gateway starts its handler.
Connect ==
  /\ link = 0
  /\ conns < MaxConns
  /\ Overlap \/ open = {}
  /\ conns' = conns + 1
  /\ link' = conns + 1
  /\ open' = open \cup {conns + 1}
  /\ UNCHANGED <<agentVars, drain, chan, serverVars, gone>>

SendEntry(e) ==
  /\ link # 0
  /\ drain[link] = NoKey
  /\ chan' = [chan EXCEPT ![link] = Append(@, e.msg)]
  /\ drain' = [drain EXCEPT ![link] = e.key]
  /\ UNCHANGED <<agentVars, conns, link, open, serverVars, gone>>

\* Mutant: the cursor starts at the newest key.
SendNewest == outbox # << >> /\ SendEntry(outbox[Len(outbox)])

\* Outbox.Drain on the current stream: the oldest message is sent ...
Send == outbox # << >> /\ SendEntry(Head(outbox))

\* ... and its key deleted, also by a drain loop whose stream is gone.
\* (Mutants: the oldest entry is removed, whatever was sent; the entry moves
\* to the end.)
DeleteOldest(k)  == IF outbox = << >> THEN outbox ELSE Tail(outbox)
DeleteRequeue(k) ==
  LET keep(e) == e.key # k
      same(e) == e.key = k
  IN  SelectSeq(outbox, keep) \o SelectSeq(outbox, same)

\* Keys are unique: at most one entry goes.
DeleteKey(k) ==
  IF \E i \in DOMAIN outbox : outbox[i].key = k
    THEN LET i == CHOOSE i \in DOMAIN outbox : outbox[i].key = k
         IN  SubSeq(outbox, 1, i - 1) \o SubSeq(outbox, i + 1, Len(outbox))
    ELSE outbox

\* Mutant: the drain loop stops after one message.
DeleteAndStop(c) ==
  /\ drain[c] # NoKey
  /\ outbox' = DeleteKey(drain[c])
  /\ UNCHANGED <<env, made, next, conns, link, drain, chan, open, serverVars, crashes, gone>>

Delete(c) ==
  /\ drain[c] # NoKey
  /\ outbox' = DeleteKey(drain[c])
  /\ drain' = [drain EXCEPT ![c] = NoKey]
  /\ UNCHANGED <<env, made, next, conns, link, chan, open, serverVars, crashes, gone>>

-----------------------------------------------------------------------------
(***************************************************************************)
(* The stream breaks.  What was handed to the transport and not yet        *)
(* delivered is cut off at some point.                                     *)
(***************************************************************************)
Cut ==
  \E n \in 0..Len(chan[link]) :
    /\ Lossy \/ n = Len(chan[link])
    /\ chan' = [chan EXCEPT ![link] = SubSeq(@, 1, n)]
    /\ gone' = gone \cup MessagesIn(SubSeq(chan[link], n + 1, Len(chan[link])))

Drop ==
  /\ link # 0
  /\ Cut
  /\ link' = 0
  /\ UNCHANGED <<agentVars, conns, drain, open, serverVars>>

\* Outbox.Open seeds the counter from the highest key left on disk.
\* (Mutant: the counter always starts at zero.)
SeedNextZero == 0

SeedNext == IF outbox = << >> THEN 0 ELSE outbox[Len(outbox)].key + 1

\* The agent process dies and starts again; runs in progress die with it.
Crash ==
  /\ crashes < MaxCrashes
  /\ crashes' = crashes + 1
  /\ IF link = 0 THEN UNCHANGED <<chan, gone>> ELSE Cut
  /\ link' = 0
  /\ drain' = [c \in Conns |-> NoKey]
  /\ made' = [r \in Runs |-> IF made[r] \in {1, 2} THEN 4 ELSE made[r]]
  /\ next' = SeedNext
  /\ UNCHANGED <<env, outbox, conns, open, serverVars>>

-----------------------------------------------------------------------------
(***************************************************************************)
(* The gateway: handleAgentMessage on one stream.                          *)
(***************************************************************************)
\* onRunStarted: insert, or overwrite the status of the row that is there.
OnRunStarted(r) ==
  /\ runs' = [runs EXCEPT ![r] = "running"]
  /\ UNCHANGED <<logs, alerts>>

\* onLogChunk: run_logs refers to runs, a line of an unknown run is refused.
OnLogChunk(r) ==
  /\ logs' = IF runs[r] = "absent" THEN logs ELSE logs \cup {r}
  /\ UNCHANGED <<runs, alerts>>

\* onRunFinished: updates the row if there is one; the failure hook fires
\* either way (the modelled runs end without success).
OnRunFinished(r) ==
  /\ runs' = [runs EXCEPT ![r] = IF @ = "absent" THEN @ ELSE "finished"]
  /\ alerts' = [alerts EXCEPT ![r] = @ + 1]
  /\ UNCHANGED logs

Handle(c) ==
  /\ c \in open
  /\ chan[c] # << >>
  /\ LET m == Head(chan[c])
     IN  /\ \/ m.kind = "started" /\ OnRunStarted(m.run)
            \/ m.kind = "log" /\ OnLogChunk(m.run)
            \/ m.kind = "finished" /\ OnRunFinished(m.run)
         /\ handled' = handled \cup {m}
  /\ chan' = [chan EXCEPT ![c] = Tail(@)]
  /\ UNCHANGED <<agentVars, conns, link, drain, open, gone>>

\* The handler's statement fails: the error is logged and the message is
\* not asked for again.
HandleFails(c) ==
  /\ Lossy
  /\ c \in open
  /\ chan[c] # << >>
  /\ chan' = [chan EXCEPT ![c] = Tail(@)]
  /\ gone' = gone \cup {Head(chan[c])}
  /\ UNCHANGED <<agentVars, conns, link, drain, open, serverVars>>

\* Recv returns an error on a stream the agent left.
CloseHandler(c) ==
  /\ c \in open
  /\ c # link
  /\ chan[c] = << >>
  /\ open' = open \ {c}
  /\ UNCHANGED <<agentVars, conns, link, drain, chan, serverVars, gone>>

\* The gateway restarts: every stream breaks, what it had not handled is lost.
GatewayRestart ==
  /\ Lossy
  /\ open # {}
  /\ open' = {}
  /\ link' = 0
  /\ gone' = gone \cup UNION { MessagesIn(chan[c]) : c \in Conns }
  /\ chan' = [c \in Conns |-> << >>]
  /\ UNCHANGED <<agentVars, conns, drain, serverVars>>

Next ==
  \/ \E r \in Runs : Enqueue(r)
  \/ Connect \/ Send \/ Drop \/ Crash \/ GatewayRestart
  \/ \E c \in Conns : Delete(c) \/ Handle(c) \/ HandleFails(c) \/ CloseHandler(c)

Spec == Init /\ [][Next]_vars

(***************************************************************************)
(* The agent redials for ever, its drain loop runs while a stream is open, *)
(* and a handler that has a message handles it or fails.                   *)
(***************************************************************************)
Fairness ==
  /\ WF_vars(Connect)
  /\ WF_vars(Send)
  /\ \A c \in Conns :
       WF_vars(Delete(c)) /\ WF_vars(Handle(c)) /\ WF_vars(CloseHandler(c))

FairSpec == Spec /\ Fairness

-----------------------------------------------------------------------------
(***************************************************************************)
(* Properties.                                                             *)
(***************************************************************************)
Queued(r, n) == [run |-> r, kind |-> KindOf(n)]

\* Everything a run queued.  A run that died queued its first message at
\* least; what it got to is not remembered, so such runs are left out.
AllQueued == { Queued(r, n) : r \in { q \in Runs : made[q] < 4 }, n \in 1..3 }
               \cap { m \in Messages : \/ m.kind = "started" /\ made[m.run] >= 1
                                       \/ m.kind = "log" /\ made[m.run] >= 2
                                       \/ m.kind = "finished" /\ made[m.run] = 3 }

OnDisk   == { outbox[i].msg : i \in DOMAIN outbox }
InFlight == UNION { MessagesIn(chan[c]) : c \in Conns }

\* Keys on disk ascend and the counter is ahead of them, across deletions by
\* overlapping drain loops and across restarts that reseed the counter: a
\* new message never overwrites a pending one and never overtakes it.
KeysAscend ==
  /\ \A i, j \in DOMAIN outbox : i < j => outbox[i].key < outbox[j].key
  /\ \A i \in DOMAIN outbox : outbox[i].key < next

\* A message leaves the disk only after it was handed to a stream: neither a
\* crash between sending and deleting nor a second drain loop loses one.
Accounted == AllQueued \subseteq OnDisk \cup InFlight \cup handled \cup gone

\* When nothing was lost, handlers did not overlap and everything has arrived,
\* the tables say what the agent said: finished runs are finished and have
\* their lines, however often a crash had messages sent again.
Converged ==
  (~Overlap /\ gone = {} /\ outbox = << >> /\ InFlight = {}) =>
    \A r \in Runs : made[r] = 3 => runs[r] = "finished" /\ r \in logs

\* Messages leave the disk in order and only for a stream; if nothing was lost the
\* tables end up saying what the agent said.
ReportsKept == KeysAscend /\ Accounted /\ Converged

\* While handlers do not overlap, a finished run stays finished, whatever a
\* crash makes the agent send again and whatever is lost.
StatusForward ==
  [][~Overlap => \A r \in Runs : runs[r] = "finished" => runs'[r] = "finished"]_vars

\* If the agent ends up connected for good and nothing goes wrong on the way,
\* every run that finished is eventually shown as finished.
Reported ==
  (env = {} /\ <>[](link # 0)) =>
    \A r \in Runs : (made[r] = 3) ~> (runs[r] = "finished")
=============================================================================
