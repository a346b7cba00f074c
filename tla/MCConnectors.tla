---------------------------- MODULE MCConnectors -----------------------------
(* Requests for one connector on three hosts: nginx edited under sudo, a    *)
(* unit edited by root, a pm2 dump; or two web terminals.  A behaviour is   *)
(* one of the two.                                                          *)
EXTENDS Connectors

CONSTANTS
  good, new, unfit,
  \* of the terminals, as in Terminal: sessions, chunks printed and frames sent by
  \* each, the two buffers, and what may break
  MaxSessions, MaxOut, MaxIn, BusCap, DirectCap, MaxBreaks

Nginx   == [kind |-> "nginx", whole |-> FALSE, checker |-> FALSE, write |-> "sudo", reload |-> "sudo",
            actions |-> {"stop"}]
Unit    == [kind |-> "systemd", whole |-> TRUE, checker |-> TRUE, write |-> "direct", reload |-> "root",
            actions |-> {"start"}]
Dump    == [kind |-> "pm2", whole |-> TRUE, checker |-> FALSE, write |-> "direct", reload |-> "none",
            actions |-> {"save"}]
ThreeHosts == {Nginx, Unit, Dump}

\* The second terminal is opened and closed, the first is used.
OneUsed == <<1, 0>>

\* A session without a subscription has no queue of outputs either.
ASSUME TerminalsAssumption ==
  None \notin Seq([id : 1..MaxSessions, kind : {"started", "error", "data", "exit"}, n : Nat])

VARIABLES part, reg, live, serving, ws, pump, sub, frames, inputs, sess, shell, direct,
          stuck, tfaults, printed, shown, lost

T == INSTANCE Terminal
  WITH MaxFaults <- MaxBreaks, down <- inputs, typed <- frames, faults <- tfaults

termVars == <<reg, live, serving, ws, pump, sub, frames, inputs, sess, shell, direct,
              stuck, tfaults, printed, shown, lost>>
allVars == <<part, vars, termVars>>

MCInit ==
  /\ part \in {"connectors", "terminals"}
  /\ Init /\ (part = "terminals" => host = Nginx)
  /\ T!Init

MCNext ==
  /\ part' = part
  /\ \/ part = "connectors" /\ Next /\ UNCHANGED termVars
     \/ part = "terminals" /\ T!Next /\ UNCHANGED vars

MCSystem ==
  /\ part' = part
  /\ \/ part = "connectors" /\ System /\ UNCHANGED termVars
     \/ part = "terminals" /\ T!System /\ UNCHANGED vars

\* As in FairSpec of both modules: what goes on by itself goes on.
MCSpec == MCInit /\ [][MCNext]_allVars /\ WF_allVars(MCSystem)

-----------------------------------------------------------------------------
\* RejectedIsGone, OnlySeenOverwritten and UndoKept of Connectors: a bad config
\* goes with the request that brought it, an edit replaces only what its author
\* read, and what was replaced can be restored.
ConfigRight == RejectedIsGone /\ OnlySeenOverwritten /\ UndoKept

\* NoOrphan and ShownWhole of Terminal: no shell is left behind without a browser,
\* and a browser is shown all its shell printed, and the end last.
TerminalsRight == T!NoOrphan /\ T!ShownWhole

\* RowsClosed and CacheAgrees of Connectors, Settled of Terminal: requests end with
\* their rows closed, and the discovered capabilities and checksum agree with the
\* host again; a terminal works, or is gone on both sides.
ConnectorsSettle ==
  <>[](IF part = "connectors" THEN RowsClosed /\ CacheAgrees ELSE T!Settled)
=============================================================================
