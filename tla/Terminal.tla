------------------------------ MODULE Terminal -------------------------------
(***************************************************************************)
(* The web terminal: a browser's socket and its two goroutines             *)
(* (control-plane/internal/terminal), the bus that hands output to it      *)
(* (agentgw/terminal.go), and the shells of the agent                      *)
(* (agent/internal/terminal), whose output takes the direct buffer.        *)
(*                                                                         *)
(* The agent handles inputs on its receive loop, one after the other.  A   *)
(* shell is a process with a PTY; what it prints are numbers, and what is  *)
(* typed matters as far as it can end the shell.                           *)
(***************************************************************************)
EXTENDS Naturals, Sequences, SequencesExt

CONSTANTS
  MaxSessions,  \* bound: terminals opened
  MaxOut,       \* bound: per session, chunks printed
  MaxIn,        \* bound: per session, frames sent by the browser
  BusCap,       \* outputs a subscription holds (512)
  DirectCap,    \* messages the direct buffer holds (256)
  MaxFaults,    \* bound: drops, crashes, full buffers, browsers that do not read
  None

Sessions == 1..MaxSessions

VARIABLES
  reg,     \* the registry holds a stream of the agent
  live,    \* that stream works
  serving, \* the agent is in connectAndServe
  ws,      \* per session: serve, the goroutine that reads the socket
  pump,    \* per session: pumpOut, "closed" when it has closed the socket
  sub,     \* per session: its subscription, None or outputs
  down,    \* inputs on the stream to the agent
  sess,    \* Manager.sess
  shell,   \* per session: the process; when it has "ended" its output is still read
  direct,  \* outputs in the direct buffer and on the stream
  stuck,   \* the session whose PTY takes no input while the receive loop writes to it
  typed,   \* bound counter: frames
  faults,  \* bound counter
  printed, \* history: per session: chunks printed
  shown,   \* history: per session: what an open browser was sent
  lost     \* history: per session: kinds of messages lost to an open browser

link    == <<reg, live, serving>>
browser == <<ws, pump, sub, typed>>
agent   == <<sess, shell, stuck>>
history == <<printed, shown>>
vars    == <<link, browser, down, agent, direct, faults, history, lost>>

Init ==
  /\ reg = TRUE /\ live = TRUE /\ serving = TRUE
  /\ ws = [s \in Sessions |-> "idle"] /\ pump = [s \in Sessions |-> "none"]
  /\ sub = [s \in Sessions |-> None] /\ typed = [s \in Sessions |-> 0]
  /\ down = << >> /\ direct = << >>
  /\ sess = {} /\ shell = [s \in Sessions |-> "none"] /\ stuck = None
  /\ faults = 0
  /\ printed = [s \in Sessions |-> 0] /\ shown = [s \in Sessions |-> << >>]
  /\ lost = [s \in Sessions |-> {}]

Fault == faults < MaxFaults /\ faults' = faults + 1

\* What is lost matters as long as a browser waits for it.
Lose(msgs) ==
  lost' = [s \in Sessions |->
             IF ws[s] = "done" THEN {}
             ELSE lost[s] \cup {msgs[i].kind : i \in {k \in DOMAIN msgs : msgs[k].id = s}}]

-----------------------------------------------------------------------------
(***************************************************************************)
(* The control plane.                                                      *)
(***************************************************************************)
\* toAgent, when the registry has a stream: one that the agent has left
\* swallows the message.
ToAgent(s, op) ==
  LET m == [id |-> s, kind |-> op] IN
  IF live THEN down' = Append(down, m) /\ UNCHANGED lost
  ELSE Lose(<<m>>) /\ UNCHANGED down

\* serve: after the init frame the session is put on the bus and opened on
\* the agent; without a stream the browser is told that it is offline.
Open(s) ==
  /\ ws[s] = "idle" /\ \A r \in 1..(s - 1) : ws[r] # "idle"
  /\ IF reg
     THEN /\ ToAgent(s, "open")
          /\ sub' = [sub EXCEPT ![s] = << >>]
          /\ ws' = [ws EXCEPT ![s] = "open"] /\ pump' = [pump EXCEPT ![s] = "runs"]
     ELSE /\ ws' = [ws EXCEPT ![s] = "done"]
          /\ UNCHANGED <<sub, pump, down, lost>>
  /\ UNCHANGED <<link, typed, agent, direct, faults, history>>

\* A frame of the browser, decoded: input, a signal, or the end.
Frame(s, op) ==
  /\ ws[s] = "open" /\ typed[s] < MaxIn[s]
  /\ typed' = [typed EXCEPT ![s] = @ + 1]
  /\ IF reg THEN ToAgent(s, op) ELSE UNCHANGED <<down, lost>>
  /\ ws' = [ws EXCEPT ![s] = IF ~reg \/ op = "close" THEN "closing" ELSE @]
  /\ UNCHANGED <<link, pump, sub, agent, direct, faults, history>>

\* The browser goes away, or pumpOut has closed the socket: reading fails.
ReadFails(s) ==
  /\ ws[s] = "open"
  /\ ws' = [ws EXCEPT ![s] = "closing"]
  /\ UNCHANGED <<link, pump, sub, typed, down, agent, direct, faults, history, lost>>

Leave(s) == pump[s] # "closed" /\ ReadFails(s)
HangUp(s) == pump[s] = "closed" /\ ReadFails(s)

\* The subscription goes, and with it pumpOut.
Forget(s) ==
  /\ ws' = [ws EXCEPT ![s] = "done"]
  /\ sub' = [sub EXCEPT ![s] = None] /\ pump' = [pump EXCEPT ![s] = "none"]
  /\ shown' = [shown EXCEPT ![s] = << >>] /\ lost' = [lost EXCEPT ![s] = {}]

\* Mutant: the agent is told only by a browser that asks for it.
CloseQuietly(s) ==
  /\ ws[s] = "closing"
  /\ Forget(s)
  /\ UNCHANGED <<link, typed, down, agent, direct, faults, printed>>

\* serve ends: the agent is told to kill the shell.
Close(s) ==
  /\ ws[s] = "closing"
  /\ down' = IF reg /\ live THEN Append(down, [id |-> s, kind |-> "close"]) ELSE down
  /\ Forget(s)
  /\ UNCHANGED <<link, typed, agent, direct, faults, printed>>

\* Mutant: the socket stays open after the end of the shell.
PumpOutStays(s) ==
  /\ pump[s] = "runs" /\ sub[s] # << >>
  /\ LET m == Head(sub[s]) IN
       /\ shown' = [shown EXCEPT ![s] = Append(@, m)]
       /\ pump' = [pump EXCEPT ![s] = IF m.kind \in {"exit", "error"} THEN "over" ELSE @]
  /\ sub' = [sub EXCEPT ![s] = Tail(@)]
  /\ UNCHANGED <<link, ws, typed, down, agent, direct, faults, printed, lost>>

\* pumpOut writes the next output; after the last it closes the socket.
PumpOut(s) ==
  /\ pump[s] = "runs" /\ sub[s] # << >>
  /\ LET m == Head(sub[s]) IN
       /\ shown' = [shown EXCEPT ![s] = Append(@, m)]
       /\ pump' = [pump EXCEPT ![s] = IF m.kind \in {"exit", "error"} THEN "closed" ELSE @]
  /\ sub' = [sub EXCEPT ![s] = Tail(@)]
  /\ UNCHANGED <<link, ws, typed, down, agent, direct, faults, printed, lost>>

\* A browser that reads nothing for ten seconds: the write fails, pumpOut
\* returns, and the socket stays open for what is typed.
PumpFails(s) ==
  /\ Fault
  /\ pump[s] = "runs" /\ pump' = [pump EXCEPT ![s] = "over"]
  /\ lost' = [lost EXCEPT ![s] = @ \cup {"viewer"}]
  /\ UNCHANGED <<link, ws, sub, typed, down, agent, direct, history>>

\* Deliver: what no browser waits for, or does not fit, is dropped.
Deliver ==
  /\ live /\ direct # << >>
  /\ LET m == Head(direct) IN
     IF sub[m.id] = None THEN UNCHANGED <<sub, faults, lost>>
     ELSE IF Len(sub[m.id]) < BusCap
          THEN sub' = [sub EXCEPT ![m.id] = Append(@, m)] /\ UNCHANGED <<faults, lost>>
          ELSE Lose(<<m>>) /\ UNCHANGED sub /\ IF pump[m.id] = "over" THEN UNCHANGED faults ELSE Fault
  /\ direct' = Tail(direct)
  /\ UNCHANGED <<link, ws, pump, typed, down, agent, history>>

-----------------------------------------------------------------------------
(***************************************************************************)
(* The agent.                                                              *)
(***************************************************************************)
Out(s, kind, n) == [id |-> s, kind |-> kind, n |-> n]

\* Mutant: the end of a session overtakes its output.
EmitUrgent(m) ==
  IF Len(direct) < DirectCap
  THEN /\ direct' = IF m.kind = "exit" THEN <<m>> \o direct ELSE Append(direct, m)
       /\ UNCHANGED <<faults, lost>>
  ELSE Fault /\ Lose(<<m>>) /\ UNCHANGED direct

\* emit: sendDirect, which drops what does not fit.
Emit(m) ==
  IF Len(direct) < DirectCap THEN direct' = Append(direct, m) /\ UNCHANGED <<faults, lost>>
  ELSE Fault /\ Lose(<<m>>) /\ UNCHANGED direct

\* open: the user cannot be switched to or the process not started; or a
\* shell runs.
Start(s) ==
  \/ Emit(Out(s, "error", 0)) /\ UNCHANGED <<sess, shell>>
  \/ /\ sess' = sess \cup {s} /\ shell' = [shell EXCEPT ![s] = "runs"]
     /\ Emit(Out(s, "started", 0))

\* close: the process is killed and the PTY closed, of sessions that are known.
Kill(S) == shell' = [s \in Sessions |-> IF s \in S \cap sess /\ shell[s] = "runs" THEN "ended" ELSE shell[s]]

\* Handle, on the receive loop.  Input is written to the PTY, which may block
\* when the process does not read; a signal may end the process.
Handle ==
  /\ live /\ serving /\ stuck = None /\ down # << >>
  /\ LET m == Head(down) IN
     \/ m.kind = "open" /\ Start(m.id) /\ UNCHANGED stuck
     \/ /\ m.kind = "close"
        /\ sess' = sess \ {m.id} /\ Kill({m.id})
        /\ UNCHANGED <<stuck, direct, faults, lost>>
     \/ /\ m.kind = "data" /\ UNCHANGED <<agent, direct, faults, lost>>
     \/ /\ m.kind = "data" /\ m.id \in sess /\ shell[m.id] = "runs"
        /\ Fault /\ stuck' = m.id
        /\ UNCHANGED <<sess, shell, direct, lost>>
     \/ /\ m.kind = "signal"
        /\ Kill({m.id}) \/ UNCHANGED shell
        /\ UNCHANGED <<sess, stuck, direct, faults, lost>>
  /\ down' = Tail(down)
  /\ UNCHANGED <<link, browser, history>>

\* The process reads at last, or it is over.
WriteReturns ==
  /\ stuck # None /\ stuck' = None
  /\ UNCHANGED <<link, browser, down, sess, shell, direct, faults, history, lost>>

WriteFails == stuck # None /\ shell[stuck] # "runs" /\ WriteReturns

\* pump, the goroutine of a session, passes on what the shell prints ...
Output(s) ==
  /\ shell[s] = "runs" /\ printed[s] < MaxOut[s]
  /\ printed' = [printed EXCEPT ![s] = @ + 1]
  /\ Emit(Out(s, "data", printed[s] + 1))
  /\ UNCHANGED <<link, browser, down, agent, shown>>

Exits(s) ==
  /\ shell[s] = "runs" /\ shell' = [shell EXCEPT ![s] = "ended"]
  /\ UNCHANGED <<link, browser, down, sess, stuck, direct, faults, history, lost>>

\* ... until the PTY is closed, and reports the end.
PumpEnds(s) ==
  /\ shell[s] = "ended" /\ shell' = [shell EXCEPT ![s] = "gone"]
  /\ sess' = sess \ {s}
  /\ Emit(Out(s, "exit", 0))
  /\ UNCHANGED <<link, browser, down, stuck, history>>

-----------------------------------------------------------------------------
(***************************************************************************)
(* The stream.                                                             *)
(***************************************************************************)
\* The stream breaks with what is on it, in both directions.
Drop ==
  /\ Fault
  /\ live /\ live' = FALSE
  /\ \E n \in 0..Len(direct) :
       direct' = SubSeq(direct, n + 1, Len(direct)) /\ Lose(down \o SubSeq(direct, 1, n))
  /\ down' = << >>
  /\ UNCHANGED <<reg, serving, browser, agent, history>>

\* Mutant: the shells stay for the next connection.
LeaveShells ==
  /\ serving /\ ~live /\ stuck = None
  /\ serving' = FALSE
  /\ UNCHANGED <<reg, live, browser, down, agent, direct, faults, history, lost>>

\* The receive loop of the agent ends and CloseAll with it.
CloseAll ==
  /\ serving /\ ~live /\ stuck = None
  /\ serving' = FALSE
  /\ sess' = {} /\ Kill(Sessions)
  /\ UNCHANGED <<reg, live, browser, down, stuck, direct, faults, history, lost>>

\* The gateway finds out, and the agent dials again.
RemoveStream ==
  /\ reg /\ ~live /\ reg' = FALSE
  /\ UNCHANGED <<live, serving, browser, down, agent, direct, faults, history, lost>>

Connect ==
  /\ ~serving /\ reg' = TRUE /\ live' = TRUE /\ serving' = TRUE
  /\ UNCHANGED <<browser, down, agent, direct, faults, history, lost>>

\* The agent's process ends: the PTYs close and the shells with them, and
\* nobody reports it.
AgentCrash ==
  /\ Fault
  /\ live' = FALSE /\ serving' = FALSE
  /\ lost' = [s \in Sessions |-> IF ws[s] = "open" THEN lost[s] \cup {"exit"} ELSE lost[s]]
  /\ down' = << >> /\ direct' = << >>
  /\ sess' = {} /\ stuck' = None
  /\ shell' = [s \in Sessions |-> IF shell[s] = "none" THEN "none" ELSE "gone"]
  /\ UNCHANGED <<reg, browser, history>>

-----------------------------------------------------------------------------
System ==
  \/ \E s \in Sessions : HangUp(s) \/ Close(s) \/ PumpOut(s) \/ PumpEnds(s)
  \/ Deliver \/ Handle \/ WriteFails \/ CloseAll \/ RemoveStream \/ Connect

Next ==
  \/ System
  \/ \E s \in Sessions :
       \/ Open(s) \/ Leave(s) \/ Output(s) \/ Exits(s) \/ PumpFails(s)
       \/ \E op \in {"data", "signal", "close"} : Frame(s, op)
  \/ WriteReturns \/ Drop \/ AgentCrash

Spec == Init /\ [][Next]_vars

\* Goroutines run, messages on a stream arrive and the agent dials again;
\* users, shells and faults need not do anything.
FairSpec == Spec /\ WF_vars(System)

-----------------------------------------------------------------------------
(***************************************************************************)
(* Properties.                                                             *)
(***************************************************************************)
\* "No orphan shells linger" (manager.go): a shell that runs has a browser,
\* or what will end it is under way: the close on the stream, or CloseAll of
\* a receive loop whose stream is broken.
NoOrphan ==
  \A s \in Sessions :
    shell[s] = "runs" =>
      /\ s \in sess
      /\ \/ ws[s] \in {"open", "closing"}
         \/ \E i \in DOMAIN down : down[i] = [id |-> s, kind |-> "close"]
         \/ serving /\ ~live

\* The browser sees what the shell printed, in order and without gaps, and
\* its end after all of it, unless a buffer was full or a stream broke.
WholeOutput(s) ==
  <<Out(s, "started", 0)>> \o [n \in 1..printed[s] |-> Out(s, "data", n)] \o <<Out(s, "exit", 0)>>

ShownWhole ==
  \A s \in Sessions :
    lost[s] = {} => IsPrefix(shown[s], WholeOutput(s)) \/ shown[s] = <<Out(s, "error", 0)>>

\* In the end a terminal either works or is gone on both sides; a browser is
\* left in the dark only if the message that would have told it was lost, or
\* the receive loop waits for a shell that does not read.
Settled ==
  \A s \in Sessions :
    \/ ws[s] \in {"idle", "done"} /\ shell[s] \in {"none", "gone"}
    \/ ws[s] = "open" /\ pump[s] = "runs" /\ shell[s] = "runs"
    \/ lost[s] \cap {"open", "exit", "error", "viewer"} # {}
    \/ stuck # None
=============================================================================
