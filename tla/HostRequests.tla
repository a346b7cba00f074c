---------------------------- MODULE HostRequests -----------------------------
(***************************************************************************)
(* Requests about a host that are answered while somebody waits: toolchain *)
(* installs with their live log (hosttools), network settings and the      *)
(* pairing of Bluetooth devices with its PIN challenge (network).  Modelled *)
(* are the handlers and mailboxes of the control plane, the two ways       *)
(* through the stream, and what the agent does to the host.                *)
(*                                                                         *)
(* A behaviour is about one family of requests.  The commands of the host  *)
(* (nmcli, netplan, iw, bluetoothctl, an installer) succeed or fail; what   *)
(* they print matters as far as it is a challenge.                         *)
(***************************************************************************)
EXTENDS Naturals, Sequences, FiniteSets, SequencesExt

CONSTANTS
  Families,      \* of {"tools", "pair", "net", "radio"}: what is asked of the host
  MaxOf,         \* bound: per family, requests
  Backend,       \* of {"nm", "netplan"}: what DetectBackend finds
  Cap,           \* events a mailbox holds (64)
  DirectCap,     \* messages the agent's direct buffer holds (256)
  MaxLines,      \* bound: per family, lines printed per request
  NetArgs,       \* bound: network changes that are asked for, records as in NetPlan
  MaxFaults,     \* bound: drops, overflows, late answers, hang-ups, overlaps
  None

MaxRequests == CHOOSE n \in {MaxOf[f] : f \in Families} : \A f \in Families : MaxOf[f] <= n

Requests == 1..MaxRequests
Empty    == 0

VARIABLES
  family, backend,
  conn,    \* the stream is up
  req,     \* per request: its handler
  box,     \* per request: its mailbox
  down,    \* requests on their way to the agent
  up,      \* the direct buffer and what of it is on the stream
  job,     \* per request: what the agent does for it
  pins,    \* PinWaiter: per request None, Empty or the reply that brought the PIN
  net,     \* the network of the host
  faults,  \* bound counter
  client,  \* history: per request: the events written to the client, of a pairing
           \* that goes on the challenges
  pushed,  \* history: per install: the events that reached the mailbox
  missed,  \* history: per request: an event was lost on the way
  typed    \* history: PINs typed: by which pairing, from which reply

link    == <<conn, down, up>>
history == <<client, pushed, missed, typed>>
vars    == <<family, backend, link, req, box, job, pins, net, faults, history>>

Closed == [open |-> FALSE, logs |-> << >>, res |-> None]
NoJob  == [at |-> "none", lines |-> 0, todo |-> << >>, bt |-> "none", scan |-> "none"]
NoCmd  == [op |-> "none"]

Streaming(r) == req[r].cmd.op \in {"install", "uninstall", "pair"}
Over         == {"idle", "done"}

Init ==
  /\ family \in Families /\ backend \in IF family \in {"net", "radio"} THEN Backend ELSE {"nm"}
  /\ conn = TRUE /\ down = {} /\ up = << >>
  /\ req = [r \in Requests |-> [at |-> "idle", cmd |-> NoCmd, end |-> None]]
  /\ box = [r \in Requests |-> Closed]
  /\ job = [r \in Requests |-> NoJob]
  /\ pins = [r \in Requests |-> None]
  /\ net = [profile |-> [dhcp |-> TRUE, addr |-> None, gw |-> None],
            dev     |-> [dhcp |-> TRUE, addr |-> None, gw |-> None],
            saved   |-> [n \in {<< "home" >>} |-> [psk |-> "right", on |-> "any"]],
            wifi    |-> << "home" >>, virt |-> None, second |-> None,
            cell    |-> None, pan |-> None, device |-> {"paired"}]
  /\ faults = 0
  /\ client = [r \in Requests |-> << >>] /\ pushed = client
  /\ missed = [r \in Requests |-> FALSE]
  /\ typed = {}

Fault == faults < MaxFaults /\ faults' = faults + 1

-----------------------------------------------------------------------------
(***************************************************************************)
(* The control plane.                                                      *)
(***************************************************************************)
\* A request in the middle of another one is an overlap, but for a PIN.
Midway(cmd) ==
  IF cmd.op = "pin" \/ \A r \in Requests : req[r].at \in Over /\ job[r].at \in {"none", "replied"}
  THEN UNCHANGED faults ELSE Fault

\* Begin...Request: the mailbox is opened and the command queued on the
\* stream; without one the mailbox is closed again.
Begin(r, cmd) ==
  /\ r <= MaxOf[family] /\ req[r].at = "idle" /\ \A s \in 1..(r - 1) : req[s].at # "idle"
  /\ Midway(cmd)
  /\ req' = [req EXCEPT ![r] = [at |-> IF conn THEN "wait" ELSE "done", cmd |-> cmd,
                                end |-> IF conn THEN None ELSE "offline"]]
  /\ box' = [box EXCEPT ![r].open = conn]
  /\ down' = IF conn THEN down \cup {r} ELSE down
  /\ UNCHANGED <<family, backend, conn, up, job, pins, net, history>>

Detect(r)    == family = "tools" /\ Begin(r, [op |-> "detect"])
Install(r)   == family = "tools" /\ Begin(r, [op |-> "install"])
ListUsers(r) == family = "tools" /\ Begin(r, [op |-> "users"])
Uninstall(r) == family = "tools" /\ Begin(r, [op |-> "uninstall"])
Pair(r)      == family = "pair" /\ Begin(r, [op |-> "pair"])

RadioOps == {"cell-connect", "cell-disconnect", "cell-apn", "bt-connect", "bt-disconnect",
             "bt-forget", "pan-connect", "pan-disconnect", "status"}

\* unary, unaryBody: the network changes, by their arguments.
Unary(r, a)  ==
  /\ family = IF a.op \in RadioOps THEN "radio" ELSE "net"
  /\ Begin(r, a)

\* btPin: a request of its own, so that its result does not close the pairing.
\* (Bound: made when the operator has been asked, or too late.)
PinReply(r, s) ==
  /\ family = "pair" /\ s < r /\ req[s].cmd.op = "pair"
  /\ client[s] # << >> \/ req[s].at = "done"
  /\ Begin(r, [op |-> "pin", for |-> s])

\* Mutant: what does not fit is not taken.
PushEventDropsNew(r, e) ==
  IF ~box[r].open \/ Len(box[r].logs) >= Cap THEN UNCHANGED box
  ELSE box' = [box EXCEPT ![r].logs = Append(@, e)]

\* PushLog, PushEvent: the oldest makes room.
PushEvent(r, e) ==
  IF ~box[r].open THEN UNCHANGED box
  ELSE box' = [box EXCEPT ![r].logs = Append(IF Len(@) < Cap THEN @ ELSE Tail(@), e)]

\* Resolve: the first result counts.
Resolve(r, status) ==
  IF box[r].open /\ box[r].res = None THEN box' = [box EXCEPT ![r].res = status]
  ELSE UNCHANGED box

Receive ==
  /\ conn /\ up # << >>
  /\ LET m == Head(up) IN
     IF m.kind = "result" THEN Resolve(m.id, m.data) /\ UNCHANGED pushed
     ELSE /\ PushEvent(m.id, [kind |-> m.kind, data |-> m.data])
          /\ pushed' = IF box[m.id].open /\ family = "tools"
                       THEN [pushed EXCEPT ![m.id] = Append(@, [kind |-> m.kind, data |-> m.data])]
                       ELSE pushed
  /\ up' = Tail(up)
  /\ UNCHANGED <<family, backend, conn, down, req, job, pins, net, faults, client, missed, typed>>

\* The handler writes the next event to its client.
WriteEvent(r) ==
  /\ req[r].at = "wait" /\ box[r].logs # << >>
  /\ client' = IF family = "tools" \/ Head(box[r].logs).kind = "pin_required"
               THEN [client EXCEPT ![r] = Append(@, Head(box[r].logs))] ELSE client
  /\ box' = [box EXCEPT ![r].logs = Tail(@)]
  /\ UNCHANGED <<family, backend, link, req, job, pins, net, faults, pushed, missed, typed>>

Ends(r, how) == req' = [req EXCEPT ![r].at = "done", ![r].end = how]

\* mutateStream: with the result it writes what is still in the mailbox.
MutateDone(r) ==
  /\ req[r].at = "wait" /\ req[r].cmd.op \in {"install", "uninstall"} /\ box[r].res # None
  /\ client' = [client EXCEPT ![r] = @ \o box[r].logs]
  /\ Ends(r, box[r].res) /\ box' = [box EXCEPT ![r] = Closed]
  /\ UNCHANGED <<family, backend, link, job, pins, net, faults, pushed, missed, typed>>

\* btPairStream, and requests that are answered at once, do not.
UnaryDone(r) ==
  /\ req[r].at = "wait" /\ req[r].cmd.op \notin {"install", "uninstall"} /\ box[r].res # None
  /\ Ends(r, box[r].res) /\ box' = [box EXCEPT ![r] = Closed]
  /\ client' = [client EXCEPT ![r] = << >>]
  /\ UNCHANGED <<family, backend, link, job, pins, net, faults, pushed, missed, typed>>

\* Nothing more will come; otherwise the timer is early.
Silent(r) ==
  r \notin down /\ job[r].at \in {"none", "replied"} /\ \A i \in DOMAIN up : up[i].id # r

Timeout(r) ==
  /\ req[r].at = "wait" /\ box[r].res = None
  /\ IF Silent(r) THEN UNCHANGED faults ELSE Fault
  /\ Ends(r, "timeout") /\ box' = [box EXCEPT ![r] = Closed]
  /\ client' = [client EXCEPT ![r] = << >>]
  /\ UNCHANGED <<family, backend, link, job, pins, net, pushed, missed, typed>>

\* The client of an install is gone, which the keepalive finds.
HangUp(r) ==
  /\ Fault
  /\ req[r].at = "wait" /\ req[r].cmd.op \in {"install", "uninstall"}
  /\ Ends(r, "gone") /\ box' = [box EXCEPT ![r] = Closed]
  /\ UNCHANGED <<family, backend, link, job, pins, net, history>>

-----------------------------------------------------------------------------
(***************************************************************************)
(* The agent.  Each request runs in a goroutine of its own, under a        *)
(* context that does not end with the stream.                              *)
(***************************************************************************)
\* sendDirect: what does not fit is dropped; without a stream it waits.
SendDirect(r, ms) ==
  LET all == up \o [i \in DOMAIN ms |-> [id |-> r, kind |-> ms[i].kind, data |-> ms[i].data]]
      n   == IF Len(all) <= DirectCap THEN Len(all) ELSE DirectCap
  IN  /\ up' = SubSeq(all, 1, n)
      /\ missed' = [missed EXCEPT ![r] = @ \/ n < Len(all)]
      /\ IF n < Len(all) THEN Fault ELSE UNCHANGED faults

Result(status) == << [kind |-> "result", data |-> status] >>
LogLine(n)     == [kind |-> "log", data |-> n]
Challenge(n)   == [kind |-> "pin_required", data |-> n]

Replied(r) == job' = [job EXCEPT ![r] = [NoJob EXCEPT !.at = "replied"]]

\* Install, Uninstall, runScript: the installer prints and ends, well or
\* badly, or its twelve minutes are over; detect only ends.
PrintLine(r) ==
  /\ job[r].at = "script" /\ req[r].cmd.op \in {"install", "uninstall"}
  /\ job[r].lines < MaxLines[family]
  /\ job' = [job EXCEPT ![r].lines = @ + 1]
  /\ SendDirect(r, << LogLine(job[r].lines + 1) >>)
  /\ UNCHANGED <<family, backend, conn, down, req, box, pins, net, client, pushed, typed>>

RunScript(r) ==
  /\ job[r].at = "script" /\ req[r].cmd.op # "users"
  /\ \E status \in {"succeeded", "failed"} : SendDirect(r, Result(status))
  /\ Replied(r)
  /\ UNCHANGED <<family, backend, conn, down, req, box, pins, net, client, pushed, typed>>

\* The accounts of the host are read, or cannot be.
ReadUsers(r) ==
  /\ job[r].at = "script" /\ req[r].cmd.op = "users"
  /\ \E status \in {"succeeded", "failed"} : SendDirect(r, Result(status))
  /\ Replied(r)
  /\ UNCHANGED <<family, backend, conn, down, req, box, pins, net, client, pushed, typed>>

-----------------------------------------------------------------------------
(***************************************************************************)
(* Pairing.  bluetoothctl reads its commands from a pipe; a scanner reads  *)
(* its lines and, at a challenge, waits for the PIN; the handler itself    *)
(* types quit after thirty seconds and waits for the process.              *)
(***************************************************************************)
PairJob == [NoJob EXCEPT !.at = "pair", !.bt = "runs", !.scan = "reads"]

\* Arm, and the start of the process.
Arm(r) == pins' = [pins EXCEPT ![r] = Empty]

BtLine(r) ==
  /\ job[r].bt \in {"runs", "paired"} /\ job[r].scan = "reads" /\ job[r].lines < MaxLines[family]
  /\ job' = [job EXCEPT ![r].lines = @ + 1]
  /\ SendDirect(r, << LogLine(job[r].lines + 1) >>)
  /\ UNCHANGED <<family, backend, conn, down, req, box, pins, net, client, pushed, typed>>

\* The device asks for a PIN.  The line is passed on, then the challenge, and
\* the scanner waits; the waiter is gone if a PIN was taken before.
BtAsks(r) ==
  /\ job[r].bt = "runs" /\ job[r].scan = "reads" /\ job[r].lines < MaxLines[family]
  /\ SendDirect(r, << LogLine(job[r].lines + 1), Challenge(job[r].lines + 1) >>)
  /\ job' = [job EXCEPT ![r].lines = @ + 1, ![r].bt = "asks",
                        ![r].scan = IF pins[r] = None THEN "failed" ELSE "waits"]
  /\ UNCHANGED <<family, backend, conn, down, req, box, pins, net, client, pushed, typed>>

\* Mutant: to whoever waits.
DeliverAny(r, s) ==
  LET open == {x \in Requests : pins[x] = Empty}
  IN  /\ pins' = IF open = {} THEN pins ELSE [pins EXCEPT ![CHOOSE x \in open : \A y \in open : x <= y] = r]
      /\ SendDirect(r, Result(IF open = {} THEN "failed" ELSE "succeeded"))

\* Deliver: to the waiter of the pairing that the reply names, if there is
\* one and it holds no PIN.
Deliver(r, s) ==
  IF pins[s] = Empty
  THEN pins' = [pins EXCEPT ![s] = r] /\ SendDirect(r, Result("succeeded"))
  ELSE UNCHANGED pins /\ SendDirect(r, Result("failed"))

\* Wait returns and removes the waiter; the PIN is typed, and the device is
\* content, or not, or asks again.  Into a process that has quit nothing goes.
TypePin(r) ==
  /\ job[r].scan = "waits" /\ pins[r] \in Requests
  /\ pins' = [pins EXCEPT ![r] = None]
  /\ \E bt \in IF job[r].bt = "asks" THEN {"paired", "refused", "runs"} ELSE {job[r].bt} :
       job' = [job EXCEPT ![r].scan = "reads", ![r].bt = bt]
  /\ typed' = IF job[r].bt = "asks" THEN typed \cup {<<r, pins[r]>>} ELSE typed
  /\ UNCHANGED <<family, backend, link, req, box, net, faults, client, pushed, missed>>

\* Mutant: nothing but a PIN ends the wait.
WaitForPin(r) ==
  /\ job[r].scan = "waits" /\ job[r].bt = "gone" /\ pins[r] # Empty
  /\ pins' = [pins EXCEPT ![r] = None]
  /\ job' = [job EXCEPT ![r].scan = "failed"]
  /\ UNCHANGED <<family, backend, link, req, box, net, faults, history>>

\* Two minutes without a PIN, which is after the thirty seconds.
WaitEnds(r) ==
  /\ job[r].scan = "waits" /\ job[r].bt = "gone"
  /\ pins' = [pins EXCEPT ![r] = None]
  /\ job' = [job EXCEPT ![r].scan = "failed"]
  /\ UNCHANGED <<family, backend, link, req, box, net, faults, history>>

\* After thirty seconds, whatever the state of things: trust, quit.
Quit(r) ==
  /\ job[r].at = "pair" /\ job[r].bt \notin {"none", "gone"}
  /\ job' = [job EXCEPT ![r].bt = "gone"]
  /\ UNCHANGED <<family, backend, link, req, box, pins, net, faults, history>>

\* btPair returns the scanner's error if there is one by now; bluetoothctl
\* itself ends well, paired or not.  The scanner may wait on.
PairDone(r) ==
  /\ job[r].at = "pair" /\ job[r].bt = "gone"
  /\ SendDirect(r, Result(IF job[r].scan = "failed" THEN "failed" ELSE "succeeded"))
  /\ job' = [job EXCEPT ![r].at = "replied"]
  /\ UNCHANGED <<family, backend, conn, down, req, box, pins, net, client, pushed, typed>>

-----------------------------------------------------------------------------
(***************************************************************************)
(* Network changes: what a request runs on the host, one command a step;   *)
(* the failure of one that is not tried only ends the request.             *)
(***************************************************************************)
Must(do) == [do EXCEPT !.must = TRUE]
Cmd(k)   == [k |-> k, must |-> FALSE, name |-> None, val |-> None]
On(k, name, val) == [Cmd(k) EXCEPT !.name = name, !.val = val]

\* Mutant: the connection is brought up before it is changed.
NmWiredSetUpFirst(a) == << Must(Cmd("wired-up")), Must(On("nm-modify", None, a)) >>

NmWiredSet(a) == << Must(On("nm-modify", None, a)), Must(Cmd("wired-up")) >>

\* netplan has one key for each part; the gateway, and what DHCP no longer
\* needs, are tried.
NetplanWiredSet(a) ==
  (IF a.dhcp
   THEN << Must(On("np-set", "dhcp", TRUE)), On("np-set", "addr", None), On("np-set", "gw", None) >>
   ELSE << Must(On("np-set", "dhcp", FALSE)), Must(On("np-set", "addr", a.addr)) >> \o
        (IF a.gw = None THEN << >> ELSE << On("np-set", "gw", a.gw) >>))
  \o << Must(Cmd("wired-up")) >>

Saved(name) == name \in DOMAIN net.saved

NmWifiSave(a) ==
  IF Saved(a.name) THEN IF a.psk = None THEN << >> ELSE << Must(On("psk", a.name, a.psk)) >>
  ELSE << Must(On("add", a.name, [psk |-> a.psk, on |-> "any"])) >>

NmWifiUpdatePSK(a) == << Must(On("psk", a.name, a.psk)) >>

\* A profile has the name of its network, or that with a suffix.
Beside(name) == name \o << "alongside" >>

\* Mutant: the second profile is not bound to the second interface.
ConnectAlongsideAnywhere(a) ==
  << Cmd("del-virt"), Must(Cmd("add-virt")) >> \o
  (IF Saved(Beside(a.name)) THEN << >>
   ELSE << Must(On("add", Beside(a.name), [psk |-> a.psk, on |-> "any"])) >>) \o
  << Must(On("up", Beside(a.name), None)) >>

\* wifiConnectAlongside: on a second station interface, made anew.  A profile
\* of an earlier attempt is bound to it and keeps its key.
ConnectAlongside(a) ==
  << Cmd("del-virt"), Must(Cmd("add-virt")) >> \o
  (IF Saved(Beside(a.name)) THEN << On("bind", Beside(a.name), "virt") >>
   ELSE << Must(On("add", Beside(a.name), [psk |-> a.psk, on |-> "virt"])) >>) \o
  << Must(On("up", Beside(a.name), None)) >>

NmWifiConnect(a) ==
  (IF Saved(a.name) THEN << >> ELSE NmWifiSave(a)) \o << Must(On("up", a.name, None)) >>

NmWifiDisconnect(a) == << Must(On("down", a.name, None)) >>

NmWifiForget(a) == << Must(On("delete", a.name, None)) >>

\* The profiles of the modem and of a network over Bluetooth.
Cellular == << "cell" >>
Pan      == << "pan" >>

\* The access point of a profile that is there is changed if that is possible.
CellConnect(a) ==
  (IF ~Saved(Cellular) THEN << Must(On("add", Cellular, [psk |-> a.psk, on |-> "modem"])) >>
   ELSE IF a.psk = None THEN << >> ELSE << On("psk", Cellular, a.psk) >>)
  \o << Must(On("up", Cellular, None)) >>

CellSetAPN(a) ==
  << Must(IF Saved(Cellular) THEN On("psk", Cellular, a.psk)
          ELSE On("add", Cellular, [psk |-> a.psk, on |-> "modem"])) >>

\* A network over Bluetooth has no key of its own.
BtPANConnect ==
  (IF Saved(Pan) THEN << >> ELSE << Must(On("add", Pan, [psk |-> "right", on |-> "bt"])) >>)
  \o << Must(On("up", Pan, None)) >>

BtForget == << On("bt", None, {"paired"}), Must(On("bt", None, {})) >>

\* Handle: what is asked, by the backend; Wi-Fi needs NetworkManager, and the
\* status reads change nothing.
NetPlan(a) ==
  CASE a.op = "wired" /\ backend = "nm"      -> NmWiredSet(a)
    [] a.op = "wired" /\ backend = "netplan" -> NetplanWiredSet(a)
    [] a.op = "save"       -> NmWifiSave(a)
    [] a.op = "psk"        -> NmWifiUpdatePSK(a)
    [] a.op = "connect"    -> NmWifiConnect(a)
    [] a.op = "alongside"  -> ConnectAlongside(a)
    [] a.op = "disconnect" -> NmWifiDisconnect(a)
    [] a.op = "forget"     -> NmWifiForget(a)
    [] a.op = "cell-connect"    -> CellConnect(a)
    [] a.op = "cell-apn"        -> CellSetAPN(a)
    [] a.op = "cell-disconnect" -> << Must(On("down", Cellular, None)) >>
    [] a.op = "bt-connect"      -> << Must(On("bt", None, {"paired", "connected"})) >>
    [] a.op = "bt-disconnect"   -> << Must(On("bt", None, {"paired"})) >>
    [] a.op = "bt-forget"       -> BtForget
    [] a.op = "pan-connect"     -> BtPANConnect
    [] a.op = "pan-disconnect"  -> << Must(On("down", Pan, None)) >>
    [] a.op = "status"          -> << Must(Cmd("look")) >>

\* nmcli: the profile becomes what was asked; a static address leaves the
\* gateway of before unless one is given.
NmModify(p, a) ==
  [dhcp |-> a.dhcp, addr |-> a.addr, gw |-> IF a.dhcp \/ a.gw # None THEN a.gw ELSE p.gw]

\* nmcli connection up: with the right key, or access point, the interface of
\* the profile joins, the first one of a Wi-Fi profile that is bound to none.
UpOn(n, name) ==
  IF ~Saved(name) \/ n.saved[name].psk # "right" THEN {}
  ELSE CASE n.saved[name].on = "any"   -> {[n EXCEPT !.wifi = name]}
         [] n.saved[name].on = "modem" -> {[n EXCEPT !.cell = name]}
         [] n.saved[name].on = "bt"    -> IF n.device = {} THEN {} ELSE {[n EXCEPT !.pan = name]}
         [] n.saved[name].on = "virt"  -> IF n.virt = None THEN {} ELSE {[n EXCEPT !.second = name]}

Off(n, name) ==
  LET Without(x) == IF x = name THEN None ELSE x
  IN  [n EXCEPT !.wifi = Without(@), !.second = Without(@), !.cell = Without(@), !.pan = Without(@)]

\* bluetoothctl connect, disconnect and remove, of a device that is known.
BtDevice(n, state) ==
  IF n.device = {} THEN {}
  ELSE {[n EXCEPT !.device = state, !.pan = IF state = {"paired", "connected"} THEN @ ELSE None]}

\* The network after a command, if the command can succeed.
After(n, c) ==
  CASE c.k = "nm-modify" -> {[n EXCEPT !.profile = NmModify(@, c.val)]}
    [] c.k = "np-set"    -> {[n EXCEPT !.profile = [@ EXCEPT ![c.name] = c.val]]}
    [] c.k = "wired-up"  -> {[n EXCEPT !.dev = n.profile]}
    [] c.k = "add"       -> {[n EXCEPT !.saved = [x \in DOMAIN @ \cup {c.name} |->
                                                    IF x = c.name THEN c.val ELSE @[x]]]}
    [] c.k = "psk"       -> IF Saved(c.name) THEN {[n EXCEPT !.saved[c.name].psk = c.val]} ELSE {}
    [] c.k = "bind"      -> {[n EXCEPT !.saved[c.name].on = c.val]}
    [] c.k = "up"        -> UpOn(n, c.name)
    [] c.k = "down"      -> {Off(n, c.name)}
    [] c.k = "delete"    -> IF Saved(c.name)
                            THEN {[Off(n, c.name) EXCEPT !.saved = [x \in DOMAIN @ \ {c.name} |-> @[x]]]}
                            ELSE {}
    [] c.k = "bt"        -> BtDevice(n, c.val)
    [] c.k = "look"      -> {n}
    [] c.k = "del-virt"  -> {[n EXCEPT !.virt = None, !.second = None]}
    [] c.k = "add-virt"  -> IF n.virt = None THEN {[n EXCEPT !.virt = "made"]} ELSE {}

\* Without NetworkManager there is no nmcli to run.
Runs(c) == backend = "nm" \/ c.k \in {"np-set", "wired-up", "bt", "look"}

NetStep(r) ==
  /\ job[r].at = "net" /\ job[r].todo # << >>
  /\ LET c == Head(job[r].todo) IN
     \/ \E n \in IF Runs(c) THEN After(net, c) ELSE {} :
          net' = n /\ job' = [job EXCEPT ![r].todo = Tail(@)] /\ UNCHANGED <<up, missed, faults>>
     \/ /\ ~c.must /\ job' = [job EXCEPT ![r].todo = Tail(@)]
        /\ UNCHANGED <<net, up, missed, faults>>
     \/ /\ c.must /\ Replied(r) /\ SendDirect(r, Result("failed"))
        /\ UNCHANGED net
  /\ UNCHANGED <<family, backend, conn, down, req, box, pins, client, pushed, typed>>

NetDone(r) ==
  /\ job[r].at = "net" /\ job[r].todo = << >>
  /\ Replied(r) /\ SendDirect(r, Result("succeeded"))
  /\ UNCHANGED <<family, backend, conn, down, req, box, pins, net, client, pushed, typed>>

-----------------------------------------------------------------------------
\* handleServerMessage starts the goroutine of a request.
Arrive(r) ==
  LET c == req[r].cmd IN
  /\ conn /\ r \in down
  /\ down' = down \ {r}
  /\ CASE c.op \in {"detect", "users", "install", "uninstall"} ->
            /\ job' = [job EXCEPT ![r] = [NoJob EXCEPT !.at = "script"]]
            /\ UNCHANGED <<up, missed, faults, pins>>
       [] c.op = "pair" ->
            job' = [job EXCEPT ![r] = PairJob] /\ Arm(r) /\ UNCHANGED <<up, missed, faults>>
       [] c.op = "pin" -> Deliver(r, c.for) /\ Replied(r)
       [] OTHER ->
            IF c.op \notin {"wired"} \cup RadioOps /\ backend = "netplan"
            THEN Replied(r) /\ SendDirect(r, Result("failed")) /\ UNCHANGED pins
            ELSE /\ job' = [job EXCEPT ![r] = [NoJob EXCEPT !.at = "net", !.todo = NetPlan(c)]]
                 /\ UNCHANGED <<up, missed, faults, pins>>
  /\ UNCHANGED <<family, backend, conn, req, box, net, client, pushed, typed>>

\* The stream ends with what is on it; what the drain loop has not taken yet
\* waits for the next one.
Drop ==
  /\ Fault
  /\ conn /\ conn' = FALSE
  /\ down' = {}
  /\ \E n \in 0..Len(up) :
       /\ up' = SubSeq(up, n + 1, Len(up))
       /\ missed' = [r \in Requests |-> missed[r] \/ \E i \in 1..n : up[i].id = r]
  /\ UNCHANGED <<family, backend, req, box, job, pins, net, client, pushed, typed>>

Connect ==
  /\ ~conn /\ conn' = TRUE
  /\ UNCHANGED <<family, backend, down, up, req, box, job, pins, net, faults, history>>

\* The agent's process ends, with its children and its buffer.
AgentCrash ==
  /\ Fault
  /\ conn' = FALSE /\ down' = {} /\ up' = << >>
  /\ job' = [r \in Requests |-> NoJob]
  /\ pins' = [r \in Requests |-> None]
  /\ missed' = [r \in Requests |-> TRUE]
  /\ UNCHANGED <<family, backend, req, box, net, client, pushed, typed>>

\* What goes on by itself.
System ==
  \/ Receive \/ Connect
  \/ \E r \in Requests :
       \/ Arrive(r) \/ WriteEvent(r) \/ MutateDone(r) \/ UnaryDone(r) \/ Timeout(r)
       \/ PrintLine(r) \/ RunScript(r) \/ ReadUsers(r)
       \/ BtLine(r) \/ BtAsks(r) \/ TypePin(r) \/ WaitEnds(r) \/ Quit(r) \/ PairDone(r)
       \/ NetStep(r) \/ NetDone(r)

Next ==
  \/ System
  \/ \E r \in Requests :
       \/ Detect(r) \/ ListUsers(r) \/ Install(r) \/ Uninstall(r) \/ Pair(r)
       \/ \E a \in NetArgs : Unary(r, a)
       \/ \E s \in Requests : PinReply(r, s)
       \/ HangUp(r)
  \/ Drop \/ AgentCrash

Spec == Init /\ [][Next]_vars

\* Goroutines run, processes end, messages on a stream arrive, timers fire and
\* the agent reconnects.  None of it goes on for ever.
FairSpec == Spec /\ WF_vars(System)

-----------------------------------------------------------------------------
(***************************************************************************)
(* Properties.                                                             *)
(***************************************************************************)
LastOf(s, n) == SubSeq(s, Len(s) - n + 1, Len(s))

\* "Drop one stale event": a slow client misses old chunks, never the last
\* ones.  When it is told the result, it has the newest Cap chunks that
\* reached the control plane, in order and at the end.
LogTail ==
  \A r \in Requests :
    req[r].end \in {"succeeded", "failed"} /\ req[r].cmd.op \in {"install", "uninstall"} =>
      LET n == IF Len(pushed[r]) < Cap THEN Len(pushed[r]) ELSE Cap
      IN  Len(client[r]) >= n /\ LastOf(client[r], n) = LastOf(pushed[r], n)

\* While a pairing waits for its PIN, the operator has been asked for it, or
\* the question is on its way and nothing pushes it out: the scanner says
\* nothing more until it has the PIN.  Unless an event was lost on the way.
Asked(r) == [kind |-> "pin_required", data |-> job[r].lines]

ChallengeStands ==
  \A r \in Requests :
    job[r].scan = "waits" /\ job[r].bt = "asks" /\ req[r].at = "wait" /\ ~missed[r] =>
      \/ \E i \in DOMAIN up : up[i] = [id |-> r, kind |-> "pin_required", data |-> job[r].lines]
      \/ Asked(r) \in ToSet(box[r].logs) \cup ToSet(client[r])

\* A PIN is typed into the pairing it was given for, at most once.
PinGoesHome ==
  /\ \A t \in typed : req[t[2]].cmd.for = t[1]
  /\ \A t, u \in typed : t[2] = u[2] => t = u

\* What is told and taken of the requests is right.
RequestsTold == LogTail /\ ChallengeStands /\ PinGoesHome

\* Every request ends for the one who waits, and leaves nothing that runs or
\* waits on the agent (there are finitely many).
Answered ==
  \A r \in Requests :
    req[r].at # "wait" /\ job[r].at \in {"none", "replied"} /\ job[r].scan # "waits"

RequestsEnd == <>[]Answered

\* The command that answers an alongside request leaves the first association
\* alone ("without taking down the primary association", dualwifi.go).
PrimaryKept ==
  [][\A r \in Requests :
       req[r].cmd.op = "alongside" /\ job[r].at = "net" /\ job'[r] # job[r] => net'.wifi = net.wifi]_vars

\* A change of the wired address that succeeded is in force: the device runs
\* with what was asked, if no other change came in between.
WiredInForce ==
  faults = 0 =>
    \A r \in Requests :
      /\ req[r].cmd.op = "wired" /\ req[r].end = "succeeded"
      /\ \A s \in (r + 1)..MaxRequests : req[s].cmd.op # "wired"
      => net.dev.dhcp = req[r].cmd.dhcp /\ (~net.dev.dhcp => net.dev.addr = req[r].cmd.addr)
=============================================================================
