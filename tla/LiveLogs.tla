------------------------------- MODULE LiveLogs -------------------------------
(***************************************************************************)
(* A run's output on its way to a browser that watches: the agent's        *)
(* Manager.emit with its budget (agent/internal/deploy/runner.go), the     *)
(* gateway's handlers onLogChunk, onRunFinished and onDeployEvent          *)
(* (agentgw/stream.go) with the cap on stored output (logcap.go), the      *)
(* LogBroker (broker.go), the handler of the event stream                  *)
(* (runs/handler.go, deploys/handler.go), and the pruner that deletes old  *)
(* logs and runs, whatever their status (retention/retention.go).          *)
(*                                                                         *)
(* One run, of a job or of a deploy; all its output is one stream, each    *)
(* chunk counts one towards the caps.  Messages arrive in their order; the *)
(* agent's outbox may deliver the last one of a job again (RunReports is   *)
(* about what the outbox promises).                                        *)
(***************************************************************************)
EXTENDS Integers, Sequences, FiniteSets

CONSTANTS
  MaxChunks,  \* bound: chunks of output
  LogCap,     \* runLogMax of the gateway, logCapBytes of the agent
  Buffer,     \* room in a subscriber's channel
  MaxViews,   \* bound: event streams opened
  MaxFaults   \* bound: restarts, failing statements, redeliveries, sweeps

VARIABLES
  kind,    \* "job" or "deploy"
  out,     \* chunks the run has written
  over,    \* agent: the run has ended and is unregistered
  noted,   \* agent: capNoted
  chan,    \* the message on its way, at most one
  last,    \* the message before, which the outbox may send again
  pc, cur, \* the receive loop: the next call it makes, for which message
  row,     \* runs or deploy_runs: status
  logs,    \* run_logs or deploy_run_logs: seq and what is in it
  used, told,  \* logCap
  view,    \* the event stream that is open
  sub,     \* the broker has its channel
  buf,     \* what is in the channel
  views, faults,
  shown,   \* history: data chunks stored since the last sweep
  cut,     \* history: chunks not stored because of a cap
  amiss    \* history: what went wrong: "restart", "statement", "sweep"

gateVars == <<pc, cur, row, logs, used, told, shown, cut>>
viewVars == <<view, sub, buf, views>>
vars == <<kind, out, over, noted, chan, last, gateVars, viewVars, faults, amiss>>

NoticeSeq == 99   \* math.MaxInt32; the line "starting" of a deploy has -1

Data(n)   == [kind |-> "chunk", seq |-> n, what |-> "data"]
Notice(n) == [kind |-> "chunk", seq |-> n, what |-> "notice"]
Finished  == [kind |-> "finished", seq |-> 0, what |-> "data"]
Started   == [kind |-> "started", seq |-> -1, what |-> "starting"]

\* A browser's stream: where its handler is, the status it read, what it wrote, what
\* was lost to it, whether it subscribed after the end, and what was between the
\* broker and the table when it did.
NoView == [pc |-> "none", terminal |-> FALSE, got |-> {}, dropped |-> FALSE,
           gap |-> {}, late |-> FALSE, done |-> FALSE]

Init ==
  /\ kind \in {"job", "deploy"}
  /\ out = 0 /\ over = FALSE /\ noted = FALSE
  /\ chan = <<Started>> /\ last = << >>
  /\ pc = "recv" /\ cur = Started
  /\ row = "pending" /\ logs = {}
  /\ used = 0 /\ told = FALSE
  /\ view = NoView /\ sub = FALSE /\ buf = << >> /\ views = 0
  /\ faults = 0 /\ shown = {} /\ cut = {} /\ amiss = {}

Fault == faults < MaxFaults /\ faults' = faults + 1

-----------------------------------------------------------------------------
(***************************************************************************)
(* The agent.                                                              *)
(***************************************************************************)
\* emit of a deploy's output: beyond the budget one notice is sent, past the counter
\* of the run; a run that is over has neither counter nor budget.
EmitDeploy ==
  IF over THEN <<Data(0)>>
  ELSE IF out < LogCap THEN <<Data(out + 1)>>
  ELSE IF noted THEN << >> ELSE <<Notice(0)>>

\* A chunk of output; of a deploy also when an app that it started goes on writing.
Emit ==
  /\ chan = << >> /\ out < MaxChunks /\ (over => kind = "deploy")
  /\ out' = out + 1
  /\ chan' = IF kind = "job" THEN <<Data(out + 1)>> ELSE EmitDeploy
  /\ noted' = (noted \/ (kind = "deploy" /\ ~over /\ out >= LogCap))
  /\ UNCHANGED <<kind, over, last, gateVars, viewVars, faults, amiss>>

\* The run ends: RunFinished, or the finished event of the deploy.
End ==
  /\ chan = << >> /\ ~over
  /\ over' = TRUE
  /\ chan' = <<Finished>>
  /\ UNCHANGED <<kind, out, noted, last, gateVars, viewVars, faults, amiss>>

\* The stream was cut before the outbox deleted the key of its last message.
Redeliver ==
  /\ kind = "job" /\ chan = << >> /\ last # << >> /\ pc = "recv" /\ Fault
  /\ chan' = last
  /\ UNCHANGED <<kind, out, over, noted, last, gateVars, viewVars, amiss>>

-----------------------------------------------------------------------------
(***************************************************************************)
(* The gateway.                                                            *)
(***************************************************************************)
\* fanout: a full channel drops the event.
Fanout(m) ==
  IF ~sub THEN UNCHANGED <<buf, view>>
  ELSE IF Len(buf) < Buffer THEN buf' = Append(buf, m) /\ UNCHANGED view
  ELSE view' = [view EXCEPT !.dropped = TRUE] /\ UNCHANGED buf

\* The next message: onRunStarted, a chunk, the end; the started event of a deploy is a
\* line of its log as well.
Recv ==
  /\ pc = "recv" /\ chan # << >>
  /\ cur' = Head(chan)
  /\ chan' = << >> /\ last' = chan
  /\ pc' = CASE Head(chan).kind = "finished" -> "finish"
             [] Head(chan).kind = "started" /\ kind = "job" -> "row"
             [] OTHER -> "publish"
  /\ UNCHANGED <<kind, out, over, noted, row, logs, used, told, shown, cut, viewVars,
                 faults, amiss>>

\* onRunStarted, or the started event of a deploy.
MarkRunning ==
  /\ pc = "row" /\ pc' = "recv"
  /\ row' = "running"
  /\ UNCHANGED <<kind, out, over, noted, chan, last, cur, logs, used, told, shown, cut,
                 viewVars, faults, amiss>>

\* broker.Publish comes before the chunk is stored.
Publish ==
  /\ pc = "publish"
  /\ pc' = IF kind = "job" THEN "admit" ELSE "insert"
  /\ Fanout(cur)
  /\ UNCHANGED <<kind, out, over, noted, chan, last, cur, row, logs, used, told, shown, cut,
                 sub, views, faults, amiss>>

\* Mutant: the notice takes the chunk's place in the stream.
AdmitInPlace ==
  /\ pc = "admit"
  /\ IF used < LogCap
       THEN used' = used + 1 /\ pc' = "insert" /\ UNCHANGED <<told, cut, cur>>
       ELSE /\ pc' = IF told THEN "recv" ELSE "insert"
            /\ cur' = Notice(cur.seq)
            /\ told' = TRUE /\ cut' = cut \cup {cur.seq} /\ UNCHANGED used
  /\ UNCHANGED <<kind, out, over, noted, chan, last, row, logs, shown, viewVars, faults, amiss>>

\* logCap.admit: store, or store a notice the first time, or nothing.
Admit ==
  /\ pc = "admit"
  /\ IF used < LogCap
       THEN used' = used + 1 /\ pc' = "insert" /\ UNCHANGED <<told, cut, cur>>
       ELSE /\ pc' = IF told THEN "recv" ELSE "insert"
            /\ cur' = Notice(NoticeSeq)
            /\ told' = TRUE /\ cut' = cut \cup {cur.seq} /\ UNCHANGED used
  /\ UNCHANGED <<kind, out, over, noted, chan, last, row, logs, shown, viewVars, faults, amiss>>

\* The insert, which does nothing if the seq is there; its failure is ignored for a
\* deploy and ends the stream for a job, with the message lost.
Insert ==
  /\ pc = "insert" /\ pc' = IF cur.kind = "started" THEN "row" ELSE "recv"
  /\ \/ /\ row # "gone"
        /\ logs' = IF \E l \in logs : l.seq = cur.seq THEN logs
                   ELSE logs \cup {[seq |-> cur.seq, what |-> cur.what]}
        /\ shown' = IF cur.what = "data" /\ cur.seq # 0 THEN shown \cup {cur.seq} ELSE shown
        /\ UNCHANGED <<faults, amiss>>
     \/ row = "gone" /\ UNCHANGED <<logs, shown, faults, amiss>>
     \/ Fault /\ amiss' = amiss \cup {"statement"} /\ UNCHANGED <<logs, shown>>
  /\ UNCHANGED <<kind, out, over, noted, chan, last, cur, row, used, told, cut, viewVars>>

\* Mutant: the end is written and not published.
FinishUntold ==
  /\ kind = "job" /\ pc = "finish" /\ pc' = "recv"
  /\ used' = 0 /\ told' = FALSE
  /\ row' = IF row = "gone" THEN row ELSE "finished"
  /\ UNCHANGED <<kind, out, over, noted, chan, last, cur, logs, shown, cut, viewVars, faults, amiss>>

\* onRunFinished: the row, the cap, and the subscribers if the row could be written.
Finish ==
  /\ kind = "job" /\ pc = "finish" /\ pc' = "recv"
  /\ used' = 0 /\ told' = FALSE
  /\ \/ /\ row' = IF row = "gone" THEN row ELSE "finished"
        /\ Fanout(cur) /\ UNCHANGED <<faults, amiss>>
     \/ Fault /\ amiss' = amiss \cup {"statement"} /\ UNCHANGED <<row, buf, view>>
  /\ UNCHANGED <<kind, out, over, noted, chan, last, cur, logs, shown, cut, sub, views>>

\* The finished event of a deploy: the subscribers are told in any case.
FinishDeploy ==
  /\ kind = "deploy" /\ pc = "finish" /\ pc' = "recv"
  /\ Fanout(cur)
  /\ \/ row' = "finished" /\ UNCHANGED <<faults, amiss>>
     \/ Fault /\ amiss' = amiss \cup {"statement"} /\ UNCHANGED row
  /\ UNCHANGED <<kind, out, over, noted, chan, last, cur, logs, used, told, shown, cut, sub, views>>

\* The gateway is started again: streams of browsers end, caps and channels are gone,
\* and so is the message in its handler.
Restart ==
  /\ Fault /\ amiss' = amiss \cup {"restart"}
  /\ pc' = "recv" /\ used' = 0 /\ told' = FALSE
  /\ view' = NoView /\ sub' = FALSE /\ buf' = << >>
  /\ UNCHANGED <<kind, out, over, noted, chan, last, cur, row, logs, shown, cut, views>>

\* sweep: the logs of old runs, then old runs; they need not be over.
Prune ==
  /\ kind = "job" /\ row # "pending" /\ Fault
  /\ row' \in {row, "gone"}
  /\ logs' = {} /\ shown' = {} /\ cut' = {} /\ amiss' = amiss \cup {"sweep"}
  /\ UNCHANGED <<kind, out, over, noted, chan, last, pc, cur, used, told, viewVars>>

-----------------------------------------------------------------------------
(***************************************************************************)
(* The event stream of a browser.                                          *)
(***************************************************************************)
ViewStep(at, v) == view.pc = at /\ view' = v

\* The request: the run's status is read first; a run that is gone is not found.
Open ==
  /\ row # "gone"
  /\ view.pc = "none" /\ views < MaxViews
  /\ views' = views + 1
  /\ view' = [NoView EXCEPT !.pc = "subscribe", !.terminal = (row = "finished")]
  /\ UNCHANGED <<kind, out, over, noted, chan, last, gateVars, sub, buf, faults, amiss>>

\* Mutant: the stored lines are read first.
SubscribeLate ==
  /\ \/ /\ ViewStep("subscribe", [view EXCEPT !.pc = "late", !.got = logs])
        /\ sub' = sub
     \/ /\ ViewStep("late", [view EXCEPT !.pc = "live"])
        /\ sub' = TRUE
  /\ UNCHANGED <<kind, out, over, noted, chan, last, gateVars, buf, views, faults, amiss>>

\* broker.Subscribe.  A chunk that was published and is not stored yet is behind.
Subscribe ==
  /\ ViewStep("subscribe",
       [view EXCEPT !.pc = "snapshot",
                    !.late = ~view.terminal /\ row \in {"finished", "gone"},
                    !.gap = IF pc \in {"admit", "insert"} THEN {cur.seq} ELSE {}])
  /\ sub' = TRUE
  /\ UNCHANGED <<kind, out, over, noted, chan, last, gateVars, buf, views, faults, amiss>>

\* store.Logs, written out in front of what the channel brings; a run that has ended
\* gets its done and no more.
Snapshot ==
  /\ ViewStep("snapshot",
       [view EXCEPT !.pc = IF view.terminal THEN "end" ELSE "live", !.got = logs,
                    !.gap = @ \ {l.seq : l \in logs}, !.done = view.terminal])
  /\ UNCHANGED <<kind, out, over, noted, chan, last, gateVars, sub, buf, views, faults, amiss>>

\* An event of the channel.
Deliver ==
  /\ buf # << >>
  /\ LET m == Head(buf) IN
       ViewStep("live",
         IF m.kind = "finished"
           THEN [view EXCEPT !.pc = "end", !.done = TRUE]
           ELSE [view EXCEPT !.got = @ \cup {[seq |-> m.seq, what |-> m.what]}])
  /\ buf' = Tail(buf)
  /\ UNCHANGED <<kind, out, over, noted, chan, last, gateVars, sub, views, faults, amiss>>

\* broker.Unsubscribe, when the stream is over.
Unsubscribe ==
  /\ ViewStep("end", [view EXCEPT !.pc = "closed"])
  /\ sub' = FALSE /\ buf' = << >>
  /\ UNCHANGED <<kind, out, over, noted, chan, last, gateVars, views, faults, amiss>>

\* The browser goes away, or opens the page again; a write shows it.
Leave ==
  /\ view.pc \in {"live", "closed"}
  /\ view' = NoView /\ sub' = FALSE /\ buf' = << >>
  /\ UNCHANGED <<kind, out, over, noted, chan, last, gateVars, views, faults, amiss>>

-----------------------------------------------------------------------------
System ==
  \/ End \/ Recv \/ MarkRunning \/ Publish \/ Admit \/ Insert \/ Finish \/ FinishDeploy
  \/ Subscribe \/ Snapshot \/ Deliver \/ Unsubscribe

Next == System \/ Emit \/ Redeliver \/ Restart \/ Prune \/ Open \/ Leave

Spec == Init /\ [][Next]_vars
FairSpec == Spec /\ WF_vars(System)

-----------------------------------------------------------------------------
Seqs(ls) == {l.seq : l \in ls}

\* A browser that was told that the run is over has seen every chunk of it that was
\* stored, but those that its full channel dropped, and the chunk that was published
\* before it subscribed and stored after it read the table: it was on both sides of
\* the gap (stream, runs/handler.go:63; onLogChunk, stream.go:253).
ViewerComplete ==
  view.done /\ ~view.dropped => shown \subseteq Seqs(view.got) \cup view.gap

\* Output that a cap kept out of the table is told in it, once, at a place of its own,
\* and a cap is one budget; a restart, a failing insert and a sweep excepted (admit,
\* onLogChunk; overLogCap of the agent).
TruncationTold ==
  amiss = {} =>
    /\ cut # {} /\ pc = "recv" => \E l \in logs : l.what = "notice"
    /\ Cardinality({l \in logs : l.what = "notice"}) <= 1
    /\ Cardinality({l \in logs : l.what = "data" /\ l.seq # 0}) <= LogCap

\* "Subscribe BEFORE reading the snapshot so we don't miss chunks in between"
\* (runs/handler.go:64).
NothingBetween == view.done /\ ~view.dropped => shown \subseteq Seqs(view.got)

\* An event stream ends once the run is over, unless the end came between its reading
\* of the status and its subscription, or found its channel full: those are left open
\* (fanout, broker.go:69; stream, runs/handler.go:53).
StreamEnds ==
  row \in {"finished", "gone"} => \/ view.pc \in {"none", "closed"}
                               \/ view.late \/ view.dropped
==============================================================================
