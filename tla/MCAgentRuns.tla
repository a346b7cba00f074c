----------------------------- MODULE MCAgentRuns -----------------------------
(***************************************************************************)
(* Small instances of AgentRuns.  All runs belong to one job, so that they *)
(* compete for its slot.  A behaviour is about two scheduled runs while    *)
(* the definition changes, without output and retries, or about one run    *)
(* with all that.                                                          *)
(***************************************************************************)
EXTENDS AgentRuns, TLC

VARIABLE part

OneJob  == CHOOSE j \in Jobs : TRUE
SameJob == [r \in Runs |-> OneJob]
OneRun  == CHOOSE r \in Runs : TRUE

allVars == <<vars, part>>

Small ==
  IF part = "slots"
    THEN /\ \A j \in Jobs : jobs[j].retries = 0
         /\ \A r \in Runs : /\ trigger[r] \in {"none", "schedule"}
                            /\ lines[r] = [s \in Streams |-> 0]
    ELSE syncs = 0 /\ \A r \in Runs \ {OneRun} : pc[r] = "idle"

MCInit == Init /\ part \in {"slots", "attempts"} /\ Small

MCNext    == Next /\ part' = part /\ Small'
MCStep(r) == Step(r) /\ part' = part /\ Small'

MCSpec == MCInit /\ [][MCNext]_allVars /\ \A r \in Runs : WF_allVars(MCStep(r))

\* RunEnds and QueuedRunStarts of AgentRuns: every run ends, a waiting one gets its turn.
RunsProceed == RunEnds /\ QueuedRunStarts
=============================================================================
