------------------------------- MODULE MCJobSync ------------------------------
(* A small instance of JobSync.  Requests begin in the order of their       *)
(* numbers.  Those that overlap start with an enabled job of a server       *)
(* without labels: a patch disables it or gives it a new script.            *)
EXTENDS JobSync

Disturbs(in) == in.field = "script" \/ (in.field = "enabled" /\ ~in.val)

Small ==
  /\ \A p, q \in Reqs : p < q /\ Active(q) => req[p].pc # "new"
  /\ overlap => /\ \A s \in Servers : labels[s] = {}
                /\ \A q \in Reqs : req[q].op = "patch" => Disturbs(req[q].input)

MCInit ==
  /\ Init
  /\ Small
  /\ overlap => \A j \in Jobs : jobs[j] # None /\ jobs[j].enabled /\ jobs[j].target \in Servers

MCNext == Next /\ Small'

MCSafe == MCInit /\ [][MCNext]_vars

MCFairSpec == MCSafe /\ Fairness
=============================================================================
