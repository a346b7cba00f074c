------------------------------ MODULE MCUpkeep --------------------------------
(***************************************************************************)
(* What an operator does to a host through its agent, and to the agent     *)
(* itself: requests that are answered while somebody waits, root access of *)
(* the agent, and its update.  A behaviour is about one of the three.      *)
(***************************************************************************)
EXTENDS HostRequests

CONSTANTS
  Parts,            \* what behaviours are about
  Hosts, Toggles,   \* of AgentRoot
  Updates,          \* of AgentUpdate
  a1, g1            \* an address and a gateway

ASSUME UpkeepAssumption ==
  None \notin BOOLEAN /\ None \notin Nat /\ None \notin [v : Nat, whole : BOOLEAN]

\* Each network that may be joined beside the first has a second profile with a
\* name that no network has.
ASSUME RequestsAssumption ==
  /\ Families \subseteq {"tools", "pair", "net", "radio"} /\ Backend \subseteq {"nm", "netplan"}
  /\ MaxOf \in [Families -> Nat]
  /\ Cap \in Nat \ {0} /\ DirectCap \in Nat /\ MaxFaults \in Nat
  /\ None \notin Nat /\ None \notin {"succeeded", "failed"}
  /\ \A a \in NetArgs :
       /\ a.op \in {"wired", "save", "psk", "connect", "alongside", "disconnect", "forget"} \cup RadioOps
       /\ a.op = "wired" => a.dhcp \in BOOLEAN
  /\ \A b \in NetArgs : b.op = "alongside" =>
       /\ << "home" >> # Beside(b.name)
       /\ \A a \in NetArgs : a.op \in {"save", "connect"} => a.name # Beside(b.name)

VARIABLES
  part,
  host, flag, byHand, sent, shown, toggle, hello, rconn, queue, hellos, cmds, errors, dropIn,
  euid, due, rfaults, restarts, asked, amiss,
  setting, policy, row, prog, trigger, uconn, uqueue, ups, running, ujob, lock, path, spare,
  scripts, releases, ufaults, spoilt, untold

rootVars ==
  <<host, flag, byHand, sent, shown, toggle, hello, rconn, queue, hellos, cmds, errors, dropIn,
    euid, due, rfaults, restarts, asked, amiss>>

updateVars ==
  <<setting, policy, row, prog, trigger, uconn, uqueue, ups, running, ujob, lock, path, spare,
    scripts, releases, ufaults, spoilt, untold>>

-----------------------------------------------------------------------------
\* The network changes that are asked for.
Wired(dhcp, addr, gw) == [op |-> "wired", dhcp |-> dhcp, addr |-> addr, gw |-> gw]
Wifi(op, name, psk)   == [op |-> op, name |-> << name >>, psk |-> psk]
Radio(op, apn)        == [op |-> op, psk |-> apn]

Changes ==
  {Wired(TRUE, None, None), Wired(FALSE, a1, None), Wired(FALSE, a1, g1)} \cup
  {Wifi("save", "home", "wrong"), Wifi("psk", "home", "right"), Wifi("connect", "cafe", "right"),
   Wifi("connect", "cafe", "wrong"), Wifi("alongside", "cafe", "right"),
   Wifi("alongside", "cafe", "wrong"), Wifi("disconnect", "home", None),
   Wifi("forget", "cafe", None)} \cup
  {Radio(op, None) : op \in RadioOps \ {"cell-apn"}} \cup
  {Radio("cell-connect", "right"), Radio("cell-apn", "right"), Radio("cell-apn", "wrong")}

Few     == [tools |-> 2, pair |-> 3, net |-> 2, radio |-> 2]
Nothing == [tools |-> 0]
Lines   == [tools |-> 3, pair |-> 2, net |-> 0, radio |-> 0]

\* Of three requests about pairing the last is a PIN.
LastIsPin == \A r \in Requests : r > 2 => req'[r].cmd.op # "pair"

\* A unit of systemd; pm2; an agent installed as root, with nobody to come back
\* to; another drop-in that overrides; an agent outside its unit.
HostKind(elevate, demote, root) == [elevate |-> elevate, demote |-> demote, root |-> root]
HostKinds ==
  {HostKind("works", "works", FALSE), HostKind("refused", "refused", FALSE),
   HostKind("refused", "works", TRUE), HostKind("overridden", "works", FALSE),
   HostKind("refused", "elsewhere", TRUE)}

Settings ==
  {s \in [enabled : BOOLEAN, how : {"binary", "source", "stack"}, writable : BOOLEAN,
          restart : BOOLEAN] :
     /\ ~s.enabled => s.how = "binary" /\ s.writable /\ s.restart
     /\ s.how = "stack" => s.writable /\ s.restart
     /\ s.how = "source" => s.writable}

-----------------------------------------------------------------------------
Root == INSTANCE AgentRoot WITH conn <- rconn, faults <- rfaults

Update == INSTANCE AgentUpdate
  WITH Versions <- 1..3, Requests <- Updates, MaxReleases <- 1, conn <- uconn, queue <- uqueue,
       job <- ujob, faults <- ufaults

allVars == <<part, vars, rootVars, updateVars>>

\* The part that a behaviour is not about has one initial state.
MCInit ==
  /\ part \in Parts
  /\ Init
  /\ Root!Init /\ (part # "root" => host = HostKind("works", "works", FALSE))
  /\ Update!Init
  /\ (part # "update" =>
        setting = [enabled |-> TRUE, how |-> "binary", writable |-> TRUE, restart |-> TRUE])

MCNext ==
  /\ part' = part
  /\ \/ part = "requests" /\ Next /\ LastIsPin /\ UNCHANGED <<rootVars, updateVars>>
     \/ part = "root" /\ Root!Next /\ UNCHANGED <<vars, updateVars>>
     \/ part = "update" /\ Update!Next /\ UNCHANGED <<vars, rootVars>>

MCSystem ==
  /\ part' = part
  /\ \/ part = "requests" /\ System /\ UNCHANGED <<rootVars, updateVars>>
     \/ part = "root" /\ Root!System /\ UNCHANGED <<vars, updateVars>>
     \/ part = "update" /\ Update!System /\ UNCHANGED <<vars, rootVars>>

\* Handlers and goroutines run, commands on the host, the helper, systemd and
\* the script come to an end, timers fire, messages on a stream arrive and the
\* agent reconnects.  Requests, releases and faults need not happen, and there
\* are finitely many.
MCSpec == MCInit /\ [][MCNext]_allVars /\ WF_allVars(MCSystem)

\* NoRestartLoop of AgentRoot, BinaryKept of AgentUpdate.
NoRestartLoop == Root!NoRestartLoop
BinaryKept    == Update!BinaryKept

\* What is told and taken of single requests is right, and what a wired change
\* that succeeded asked for is in force (RequestsTold and WiredInForce of
\* HostRequests).
RequestsRight == RequestsTold /\ WiredInForce

\* RootSettles of AgentRoot and UpdateEnds of AgentUpdate: an agent ends up
\* with the privileges that were chosen, an update ends and is shown as it ended.
UpkeepSettles == <>[](/\ part = "root" => Root!Settled
                      /\ part = "update" => Update!Finished)
=============================================================================
