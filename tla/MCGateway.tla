------------------------------ MODULE MCGateway -------------------------------
(***************************************************************************)
(* The gateway's side of an agent's streams: the reports of runs that come *)
(* with them, the status that its server shows, and the output of a run    *)
(* that a browser watches.  A behaviour is about one of the three.         *)
(***************************************************************************)
EXTENDS RunReports

CONSTANTS MaxStreams, MaxRestarts, MaxChunks, LogCap, Buffer, MaxViews, MaxFaults

ASSUME GatewayAssumption ==
  /\ MaxConns \in Nat /\ MaxCrashes \in Nat
  /\ MaxStreams \in Nat /\ MaxRestarts \in Nat

\* No run writes so much that a chunk's number is the notice's.
ASSUME LogsAssumption ==
  /\ MaxChunks \in Nat /\ LogCap \in Nat /\ Buffer \in Nat /\ MaxFaults \in Nat
  /\ MaxChunks < 99

VARIABLES
  part,
  status, sconns, slink, pending, handler, reg, slot, armed, callback, restarts, late,
  kind, out, over, noted, lchan, last, pc, cur, row, lines, used, told, view, sub, buf, views,
  faults, shown, cut, amiss

presenceVars ==
  <<status, sconns, slink, pending, handler, reg, slot, armed, callback, restarts, late>>
logVars ==
  <<kind, out, over, noted, lchan, last, pc, cur, row, lines, used, told, view, sub, buf, views,
    faults, shown, cut, amiss>>

\* Nothing goes wrong; handlers overlap; everything goes wrong.
AllEnvs == {{}, {"overlap"}, {"lossy", "overlap"}}

Streams == INSTANCE Presence WITH MaxConns <- MaxStreams, conns <- sconns, link <- slink
Log == INSTANCE LiveLogs WITH chan <- lchan, logs <- lines

allVars == <<part, vars, presenceVars, logVars>>

\* The part that a behaviour is not about has one initial state.
MCInit ==
  /\ part \in {"presence", "reports", "logs"}
  /\ Streams!Init
  /\ Init /\ (part # "reports" => env = {})
  /\ Log!Init /\ (part # "logs" => kind = "job")

MCNext ==
  /\ part' = part
  /\ \/ part = "presence" /\ Streams!Next /\ UNCHANGED <<vars, logVars>>
     \/ part = "reports" /\ Next /\ UNCHANGED <<presenceVars, logVars>>
     \/ part = "logs" /\ Log!Next /\ UNCHANGED <<vars, presenceVars>>

PresenceStep(c, k) ==
  /\ part = "presence" /\ part' = part
  /\ CASE k = 1 -> Streams!Register(c)
       [] k = 2 -> Streams!Receive(c)
       [] k = 3 -> Streams!MarkOnline(c)
       [] k = 4 -> Streams!Leave(c)
       [] k = 5 -> Streams!ScheduleOffline(c)
       [] k = 6 -> Streams!Fire(c)
       [] k = 7 -> Streams!Forget(c)
       [] k = 8 -> Streams!Check(c)
       [] k = 9 -> Streams!MarkOffline(c)
  /\ UNCHANGED <<vars, logVars>>
PresenceBeat ==
  part = "presence" /\ Streams!Beat /\ part' = part /\ UNCHANGED <<vars, logVars>>

ReportStep ==
  /\ part = "reports" /\ part' = part
  /\ \/ Connect \/ Send
     \/ \E c \in Conns : Delete(c) \/ Handle(c) \/ CloseHandler(c)
  /\ UNCHANGED <<presenceVars, logVars>>

LogStep == part = "logs" /\ Log!System /\ part' = part /\ UNCHANGED <<vars, presenceVars>>

\* Presence!Fairness; of RunReports and LiveLogs one of the steps as long as there is
\* one, which are finitely many.
MCFairness ==
  /\ WF_allVars(PresenceBeat)
  /\ \A c \in 1..MaxStreams, k \in 1..9 : WF_allVars(PresenceStep(c, k))
  /\ WF_allVars(ReportStep)
  /\ WF_allVars(LogStep)

MCSafe == MCInit /\ [][MCNext]_allVars
MCSpec == MCSafe /\ MCFairness

\* OnlineIsBacked of Presence: a server is shown online only while a stream is
\* registered or something is under way that will mark it offline.
OnlineIsBacked == Streams!OnlineIsBacked

\* RegisteredIsNewest of Presence and StatusForward of RunReports: an older stream
\* neither takes the registry back nor, unless handlers overlap, a run's status.
NewestCounts ==
  [][/\ Streams!RegisteredIsNewest'
     /\ ~Overlap => \A r \in Runs : runs[r] = "finished" => runs'[r] = "finished"]_allVars

\* ViewerComplete and TruncationTold of LiveLogs: a browser sees all output that
\* is stored, and the table says where output was cut.
ViewerRight == Log!ViewerComplete /\ Log!TruncationTold

\* StaysOnline of Presence and StreamEnds of LiveLogs: the status of an agent that
\* stays connected settles, and event streams end; a sweep excepted, of a stream whose
\* run it deletes.
EndsWell ==
  <>[](part = "logs" \/ (part = "presence" /\ slink # 0)) =>
    <>[]IF part = "presence" THEN status = "online"
        ELSE ~(amiss \subseteq {"sweep"}) \/ Log!StreamEnds

\* GoesOffline of Presence, Reported of RunReports, and EndsWell: the status settles,
\* a run that finished is shown as finished, and streams end.
GatewaySettles ==
  /\ part = "presence" => Streams!GoesOffline
  /\ part = "reports" => Reported
  /\ EndsWell
=============================================================================
