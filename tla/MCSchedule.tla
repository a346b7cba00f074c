------------------------------ MODULE MCSchedule ------------------------------
(* Small instances of the two parts that make jobs of an agent fire: its    *)
(* scheduler, and the catch-up of the windows it missed.  A behaviour is    *)
(* one of the two, chosen in the first state.                               *)
EXTENDS Scheduler, TLC

CONSTANTS j1, j2, Policy, Cap, MaxTime, MaxCrashes

ASSUME ScheduleAssumption ==
  /\ Policy \in [Jobs -> {"skip", "once", "all"}]
  /\ Cap \in Nat \ {0} /\ MaxTime \in Nat

\* One job of each policy that makes up runs.
OnceAndAll == j1 :> "once" @@ j2 :> "all"

VARIABLES part, now, running, due, state, stateFile, saving, todo, seen, left,
          crashes, lastRun, missed, raced

C == INSTANCE Catchup WITH up <- running, disk <- stateFile

catchupVars == <<now, running, due, state, stateFile, saving, todo, seen, left,
                 crashes, lastRun, missed, raced>>

Symmetry == Permutations(Zones)

MCInit == part \in {"scheduler", "catchup"} /\ Init /\ C!Init

MCNext ==
  /\ part' = part
  /\ \/ part = "scheduler" /\ Next /\ UNCHANGED catchupVars
     \/ part = "catchup" /\ C!Next /\ UNCHANGED vars

MCSpec == MCInit /\ [][MCNext]_<<part, vars, catchupVars>>

-----------------------------------------------------------------------------
\* NoWindowTwice and PolicyCarriedOut of Catchup: the catch-up makes no run for
\* a window the job ran in, and makes every run the job's policy asks for.
CaughtUp == C!NoWindowTwice /\ C!PolicyCarriedOut
=============================================================================
