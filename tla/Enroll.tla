------------------------------- MODULE Enroll --------------------------------
(***************************************************************************)
(* How a host becomes an agent: the control plane makes its CA on its      *)
(* first boot, an operator creates a server and hands out a one-time       *)
(* token, `agent enroll` swaps it for a certificate and a secret, and the  *)
(* agent streams with the certificate (mtls) or with the secret (edge).    *)
(* Both sides write several files, one after the other, and may die in     *)
(* between; requests with one token may overlap.                           *)
(***************************************************************************)
EXTENDS Integers, Sequences, FiniteSets

CONSTANTS
  Hosts,
  Servers,      \* ids a server row may get, each at most once
  MaxTokens,    \* bound: tokens that are issued
  MaxEnrolls,   \* bound: `agent enroll` commands
  MaxFaults     \* bound: crashes, drops, lost answers, expiries, deletions

VARIABLES
  mode,     \* "mtls" or "edge", for the control plane and its agents
  pki,      \* files of the control plane: 0 absent, Torn, or the CA they belong to
  boot,     \* the control plane: the file it is about to load or make, "up"
  cas,      \* CAs made so far, the last is the one in memory
  rows,     \* servers: [is, fp, secret]; the last two by enrol command
  tokens,   \* enrollment_tokens: [server, used, ended]
  cmds,     \* enrol commands: [host, token, server, at, client, ca]
  disk,     \* per host: agent.key, agent.crt, ca.crt, identity.json
  agent,    \* per host: what the agent that runs has loaded, 0 for no agent
  auth,     \* per host: the server its stream is being bound to, 0 for none
  stream,   \* per host: the server its stream is of, 0 for none
  faults,
  torn,     \* history: hosts on which an enrol command died while it saved
  raced     \* history: tokens that two requests read before either used them

vars == <<mode, pki, boot, cas, rows, tokens, cmds, disk, agent, auth, stream, faults, torn,
          raced>>

Torn == -1
Blank == [key |-> 0, crt |-> 0, ca |-> 0, ident |-> 0]

Init ==
  /\ mode \in {"mtls", "edge"}
  /\ pki = [cacrt |-> 0, cakey |-> 0, srvcrt |-> 0, srvkey |-> 0]
  /\ boot = "ca" /\ cas = 0
  /\ rows = [s \in Servers |-> [is |-> "unborn", fp |-> 0, secret |-> 0]]
  /\ tokens = << >> /\ cmds = << >>
  /\ disk = [h \in Hosts |-> Blank]
  /\ agent = [h \in Hosts |-> Blank]
  /\ auth = [h \in Hosts |-> 0] /\ stream = [h \in Hosts |-> 0]
  /\ faults = 0 /\ torn = {} /\ raced = {}

Fault == faults < MaxFaults /\ faults' = faults + 1
Up == boot = "up"
Exists(s) == s \in Servers /\ rows[s].is = "there"

\* pki.LoadOrCreate: a pair of files is loaded when both exist, else both are
\* made; a file that exists without content fails the boot, then and ever after.
Bring(a, b) ==
  IF pki[a] # 0 /\ pki[b] # 0
    THEN IF Torn \in {pki[a], pki[b]} THEN "failed" ELSE "load"
    ELSE "make"

Write(file, ca, next) ==
  /\ pki' = [pki EXCEPT ![file] = ca]
  /\ boot' = next

BootCAMixed ==   \* mutant: a certificate without its key is kept
  /\ boot = "ca"
  /\ IF pki.cacrt > 0 /\ pki.cakey = 0
       THEN cas' = cas + 1 /\ boot' = "cakey" /\ UNCHANGED pki
       ELSE IF pki.cacrt > 0
       THEN cas' = pki.cacrt /\ boot' = "srvcrt" /\ UNCHANGED pki
       ELSE cas' = cas + 1 /\ Write("cacrt", cas + 1, "cakey")
BootCA ==
  /\ boot = "ca"
  /\ CASE Bring("cacrt", "cakey") = "load" ->
            boot' = "srvcrt" /\ cas' = pki.cacrt /\ UNCHANGED pki
       [] Bring("cacrt", "cakey") = "make" ->
            cas' = cas + 1 /\ Write("cacrt", cas + 1, "cakey")
       [] OTHER -> boot' = "failed" /\ UNCHANGED <<pki, cas>>

BootServer ==
  /\ boot = "srvcrt"
  /\ CASE Bring("srvcrt", "srvkey") = "load" -> boot' = "up" /\ UNCHANGED pki
       [] Bring("srvcrt", "srvkey") = "make" -> Write("srvcrt", cas, "srvkey")
       [] OTHER -> boot' = "failed" /\ UNCHANGED pki
  /\ UNCHANGED cas

BootKey ==
  /\ \/ boot = "cakey" /\ Write("cakey", cas, "srvcrt")
     \/ boot = "srvkey" /\ Write("srvkey", cas, "up")
  /\ UNCHANGED cas

Boot ==
  /\ BootCA \/ BootServer \/ BootKey
  /\ UNCHANGED <<mode, rows, tokens, cmds, disk, agent, auth, stream, faults, torn, raced>>

\* The control plane dies.  A file it was about to write may be left empty;
\* requests fail at their client, streams end.
Writing(file) ==
  \/ boot = file /\ file \in {"cakey", "srvkey"}
  \/ boot = "ca" /\ file = "cacrt" /\ Bring("cacrt", "cakey") = "make"
  \/ boot = "srvcrt" /\ file = "srvcrt" /\ Bring("srvcrt", "srvkey") = "make"

Crash ==
  /\ boot # "failed" /\ Fault
  /\ \/ pki' = pki
     \/ \E f \in DOMAIN pki : Writing(f) /\ pki' = [pki EXCEPT ![f] = Torn]
  /\ boot' = "ca"
  /\ cmds' = [n \in DOMAIN cmds |->
                IF cmds[n].at = "end" THEN cmds[n]
                ELSE [cmds[n] EXCEPT !.at = "end",
                                     !.client = IF @ = "waiting" THEN "failed" ELSE @]]
  /\ auth' = [h \in Hosts |-> 0] /\ stream' = [h \in Hosts |-> 0]
  /\ UNCHANGED <<mode, cas, rows, tokens, disk, agent, torn, raced>>

(* -------------------------- servers and tokens --------------------------- *)

Issue(s) ==
  /\ Len(tokens) < MaxTokens
  /\ tokens' = Append(tokens, [server |-> s, used |-> FALSE, ended |-> FALSE])

\* POST /servers: the row and its first token.
Create ==
  /\ Up
  /\ \E s \in Servers :
       /\ rows[s].is = "unborn"
       /\ rows' = [rows EXCEPT ![s].is = "there"]
       /\ Issue(s)
  /\ UNCHANGED <<mode, pki, boot, cas, cmds, disk, agent, auth, stream, faults, torn, raced>>

\* POST /servers/:id/enrollment-token, to enrol a host again or another one.
IssueToken ==
  /\ Up
  /\ \E s \in Servers : Exists(s) /\ Issue(s)
  /\ UNCHANGED <<mode, pki, boot, cas, rows, cmds, disk, agent, auth, stream, faults, torn, raced>>

\* DELETE /servers/:id: tokens go with the row, nothing is told to the agent.
Delete ==
  /\ Up /\ Fault
  /\ \E s \in Servers :
       /\ Exists(s)
       /\ rows' = [rows EXCEPT ![s].is = "gone"]
       /\ tokens' = [t \in DOMAIN tokens |->
                       [tokens[t] EXCEPT !.ended = @ \/ tokens[t].server = s]]
  /\ UNCHANGED <<mode, pki, boot, cas, cmds, disk, agent, auth, stream, torn, raced>>

Expire ==
  /\ Fault
  /\ \E t \in DOMAIN tokens :
       ~tokens[t].ended /\ tokens' = [tokens EXCEPT ![t].ended = TRUE]
  /\ UNCHANGED <<mode, pki, boot, cas, rows, cmds, disk, agent, auth, stream, torn, raced>>

(* ---------------------------- agent enroll ------------------------------- *)

Active == {"waiting", "key", "crt", "ca", "ident"}
Saving(h) == \E n \in DOMAIN cmds : cmds[n].host = h /\ cmds[n].client \in Active

\* One command at a time on a host, each with a new key; a token may be passed
\* to several.
Start ==
  /\ Len(cmds) < MaxEnrolls
  /\ \E h \in Hosts, t \in DOMAIN tokens :
       /\ ~Saving(h)
       /\ cmds' = Append(cmds,
            IF Up THEN [host |-> h, token |-> t, server |-> 0, at |-> "sent",
                        client |-> "waiting", ca |-> 0]
            ELSE [host |-> h, token |-> t, server |-> 0, at |-> "end",
                  client |-> "failed", ca |-> 0])
  /\ UNCHANGED <<mode, pki, boot, cas, rows, tokens, disk, agent, auth, stream, faults, torn,
                 raced>>

Reply(n, client) ==
  cmds' = [cmds EXCEPT ![n].at = "end",
                       ![n].client = IF @ = "waiting" THEN client ELSE @]

Readable(t) == ~tokens[t].used /\ ~tokens[t].ended

\* consumeToken looks the token up ...
ReadToken(n) ==
  LET t == cmds[n].token IN
  /\ cmds[n].at = "sent"
  /\ IF Readable(t)
       THEN cmds' = [cmds EXCEPT ![n].at = "read", ![n].server = tokens[t].server]
       ELSE Reply(n, "failed")
  /\ raced' = IF Readable(t) /\ \E k \in DOMAIN cmds :
                                    cmds[k].token = t /\ cmds[k].at = "read"
              THEN raced \cup {t} ELSE raced
  /\ UNCHANGED <<mode, pki, boot, cas, rows, tokens, disk, agent, auth, stream, faults, torn>>

\* ... and marks it as used, whatever it is by now.
UseTokenForgotten(n) ==   \* mutant: it is not marked
  /\ cmds[n].at = "read"
  /\ cmds' = [cmds EXCEPT ![n].at = "used"]
  /\ UNCHANGED <<mode, pki, boot, cas, rows, tokens, disk, agent, auth, stream, faults, torn,
                 raced>>
UseToken(n) ==
  /\ cmds[n].at = "read"
  /\ cmds' = [cmds EXCEPT ![n].at = "used"]
  /\ tokens' = [tokens EXCEPT ![cmds[n].token].used = TRUE]
  /\ UNCHANGED <<mode, pki, boot, cas, rows, disk, agent, auth, stream, faults, torn, raced>>

\* The certificate is signed for the server of the token; its fingerprint and
\* a new secret replace those of the row.  A row that is gone is not noticed.
Bind(n) ==
  /\ cmds[n].at = "used"
  /\ cmds' = [cmds EXCEPT ![n].at = "bound", ![n].ca = cas]
  /\ rows' = [rows EXCEPT ![cmds[n].server] = IF Exists(cmds[n].server)
                                               THEN [@ EXCEPT !.fp = n, !.secret = n] ELSE @]
  /\ UNCHANGED <<mode, pki, boot, cas, tokens, disk, agent, auth, stream, faults, torn, raced>>

Answer(n) ==
  /\ cmds[n].at = "bound" /\ Reply(n, "key")
  /\ UNCHANGED <<mode, pki, boot, cas, rows, tokens, disk, agent, auth, stream, faults, torn,
                 raced>>

\* The client gives up after 15 s or is interrupted; the handler goes on.
GiveUp(n) ==
  /\ cmds[n].client = "waiting" /\ Fault
  /\ cmds' = [cmds EXCEPT ![n].client = "failed"]
  /\ UNCHANGED <<mode, pki, boot, cas, rows, tokens, disk, agent, auth, stream, torn, raced>>

After(file) ==
  [key |-> "crt", crt |-> "ca", ca |-> "ident", ident |-> "done"][file]

\* SaveBundle and identity.Save, one file after the other.
SaveKeepsKey(n) ==   \* mutant: a key that is there is kept
  LET f == cmds[n].client h == cmds[n].host IN
  /\ f \in Active \ {"waiting"}
  /\ disk' = [disk EXCEPT ![h][f] = IF f = "key" /\ @ > 0 THEN @ ELSE n]
  /\ cmds' = [cmds EXCEPT ![n].client = After(f)]
  /\ torn' = IF After(f) = "done" THEN torn \ {h} ELSE torn
  /\ UNCHANGED <<mode, pki, boot, cas, rows, tokens, agent, auth, stream, faults, raced>>
Save(n) ==
  LET f == cmds[n].client h == cmds[n].host IN
  /\ f \in Active \ {"waiting"}
  /\ disk' = [disk EXCEPT ![h][f] = n]
  /\ cmds' = [cmds EXCEPT ![n].client = After(f)]
  /\ torn' = IF After(f) = "done" THEN torn \ {h} ELSE torn
  /\ UNCHANGED <<mode, pki, boot, cas, rows, tokens, agent, auth, stream, faults, raced>>

\* The command dies while it saves: the file at hand may be left empty, except
\* identity.json, which is renamed into place.
SaveDies(n) ==
  LET f == cmds[n].client h == cmds[n].host IN
  /\ f \in Active \ {"waiting"} /\ Fault
  /\ \/ disk' = disk
     \/ f # "ident" /\ disk' = [disk EXCEPT ![h][f] = Torn]
  /\ cmds' = [cmds EXCEPT ![n].client = "failed"]
  /\ torn' = torn \cup {h}
  /\ UNCHANGED <<mode, pki, boot, cas, rows, tokens, agent, auth, stream, raced>>

Handler(n) == ReadToken(n) \/ UseToken(n) \/ Bind(n) \/ Answer(n)

(* ------------------------------- the agent ------------------------------- *)

Running(h) == agent[h] # Blank

\* cmdRun: the identity, then the key pair, which must match, then the CA.
Loads(h) ==
  /\ disk[h].ident > 0
  /\ disk[h].crt > 0 /\ disk[h].key = disk[h].crt
  /\ disk[h].ca > 0

AgentStart(h) ==
  /\ ~Running(h) /\ Loads(h)
  /\ agent' = [agent EXCEPT ![h] = disk[h]]
  /\ UNCHANGED <<mode, pki, boot, cas, rows, tokens, cmds, disk, auth, stream, faults, torn, raced>>

Stop(h) ==
  /\ agent' = [agent EXCEPT ![h] = Blank]
  /\ auth' = [auth EXCEPT ![h] = 0]
  /\ stream' = [stream EXCEPT ![h] = 0]

AgentCrash(h) ==
  /\ Running(h) /\ Fault /\ Stop(h)
  /\ UNCHANGED <<mode, pki, boot, cas, rows, tokens, cmds, disk, torn, raced>>

\* install-agent.sh restarts the unit after it has enrolled.
Restart(h) ==
  /\ Running(h) /\ ~Saving(h) /\ agent[h] # disk[h]
  /\ Stop(h)
  /\ UNCHANGED <<mode, pki, boot, cas, rows, tokens, cmds, disk, faults, torn, raced>>

\* Both ends check the other's certificate against the CA they have.
Trusted(h) == cmds[agent[h].ca].ca = cas /\ cmds[agent[h].crt].ca = cas

\* The server a caller is taken for: by the fingerprint, else by the name in
\* the certificate; on the edge listener by the id, if the secret is its own.
Caller(h) ==
  LET crt == agent[h].crt
      known == {s \in Servers : Exists(s) /\ rows[s].fp = crt}
      named == cmds[crt].server
      id == cmds[agent[h].ident].server
  IN IF mode = "mtls"
       THEN IF ~Trusted(h) THEN 0
            ELSE IF known # {} THEN CHOOSE s \in known : TRUE
            ELSE IF Exists(named) THEN named ELSE 0
       ELSE IF Exists(id) /\ rows[id].secret = agent[h].ident THEN id ELSE 0

\* The agent dials; a certificate the row does not record is about to be bound.
Connect(h) ==
  /\ Running(h) /\ Up /\ stream[h] = 0 /\ auth[h] = 0 /\ Caller(h) # 0
  /\ IF mode = "edge" \/ rows[Caller(h)].fp = agent[h].crt
       THEN stream' = [stream EXCEPT ![h] = Caller(h)] /\ UNCHANGED auth
       ELSE auth' = [auth EXCEPT ![h] = Caller(h)] /\ UNCHANGED stream
  /\ UNCHANGED <<mode, pki, boot, cas, rows, tokens, cmds, disk, agent, faults, torn, raced>>

\* The binding; on a row that was deleted since, it changes nothing.
Rebind(h) ==
  /\ auth[h] # 0
  /\ rows' = [rows EXCEPT ![auth[h]] = IF Exists(auth[h])
                                        THEN [@ EXCEPT !.fp = agent[h].crt] ELSE @]
  /\ stream' = [stream EXCEPT ![h] = auth[h]]
  /\ auth' = [auth EXCEPT ![h] = 0]
  /\ UNCHANGED <<mode, pki, boot, cas, tokens, cmds, disk, agent, faults, torn, raced>>

Drop(h) ==
  /\ stream[h] # 0 /\ Fault
  /\ stream' = [stream EXCEPT ![h] = 0]
  /\ UNCHANGED <<mode, pki, boot, cas, rows, tokens, cmds, disk, agent, auth, torn, raced>>

System ==
  \/ Boot
  \/ \E n \in DOMAIN cmds : Handler(n) \/ Save(n)
  \/ \E h \in Hosts : AgentStart(h) \/ Restart(h) \/ Connect(h) \/ Rebind(h)

Next ==
  \/ System
  \/ Create \/ IssueToken \/ Delete \/ Expire \/ Start \/ Crash
  \/ \E n \in DOMAIN cmds : GiveUp(n) \/ SaveDies(n)
  \/ \E h \in Hosts : AgentCrash(h) \/ Drop(h)

\* The processes run, requests are served, the service manager starts agents
\* and agents dial again.  Operators and faults need not do anything, and do
\* finitely much.
FairSpec == Init /\ [][Next]_vars /\ WF_vars(System)

(* ------------------------------ properties ------------------------------- *)

\* A token enrols one command, unless two of its requests read it before one
\* of them had marked it (agentenroll.consumeToken is not one transaction).
Signed(n) == cmds[n].ca # 0
TokensAreOneTime ==
  \A n, k \in DOMAIN cmds :
    Signed(n) /\ Signed(k) /\ cmds[n].token = cmds[k].token /\ n # k
      => cmds[n].token \in raced

\* What a host keeps fits together, however often it was enrolled, unless a
\* command died while it saved (mtls.SaveBundle writes its files in place).
FilesAgree ==
  \A h \in Hosts : ~Saving(h) /\ h \notin torn =>
    disk[h].key = disk[h].crt /\ disk[h].crt = disk[h].ca /\ disk[h].ca = disk[h].ident

\* A control plane that is up has the key of its CA and a certificate of that
\* CA, wherever an earlier boot died (pki.LoadOrCreate).
BundleWhole ==
  Up => \A f \in DOMAIN pki : pki[f] = cas

\* A host whose last enrolment was saved has a stream of its server as soon as
\* the control plane is up, although another host may have been enrolled for
\* the server since: with a certificate always, with a secret if it is the last
\* that was given out.
Ready(h) ==
  LET n == disk[h].ident IN
  /\ n > 0 /\ disk[h] = [key |-> n, crt |-> n, ca |-> n, ident |-> n]
  /\ ~Saving(h)
  /\ Exists(cmds[n].server)
  /\ mode = "edge" => rows[cmds[n].server].secret = n
Streams(h) == stream[h] = cmds[disk[h].ident].server
AllStream == Up /\ \A h \in Hosts : Ready(h) => Streams(h)
Connected == boot = "failed" \/ AllStream
EnrolledConnects == <>[]Connected
=============================================================================
