--------------------------- MODULE SchedulerProofs ---------------------------
(***************************************************************************)
(* Proofs about Scheduler, for every set of jobs, timezones and cron       *)
(* expressions, however many of them are bad, and any number of syncs.     *)
(***************************************************************************)
EXTENDS MCSchedule, FiniteSetTheorems, TLAPS

\* What a call of Apply does, whether it reaches the end of the set or stops
\* at a bad expression: every job that gets an entry lost its old one first,
\* and jobs that are not in the set are among those that lost theirs.
Outcome(want, taken, added) ==
  /\ added \subseteq taken
  /\ taken \subseteq Jobs
  /\ \A j \in added : want[j] \in Defs
  /\ \A j \in Jobs : want[j] = None => j \in taken

\* Nothing is left of the scheduler while the process is down.
DownIsEmpty ==
  ~up => /\ entries = Empty
         /\ crons = [z \in Zones |-> "none"]
         /\ held = [z \in Zones |-> [j \in Jobs |-> 0]]
         /\ seeded = {}
         /\ ~applying

\* The inductive invariant.
SchedInv == TypeOK /\ HeldOnce /\ FollowsSync /\ CachedZonesRun /\ DownIsEmpty

\* Each call of Apply is a step of this form.
LEMMA ApplyIsStep ==
  ASSUME NEW want \in JobSets, NEW start \in BOOLEAN, Apply(want, start)
  PROVE  \E taken, added \in SUBSET Jobs, touched \in SUBSET Zones :
           /\ Outcome(want, taken, added)
           /\ ApplyStep(want, taken, added, touched, start)
           /\ Bad(want) = {} => /\ taken = Jobs /\ added = Good(want)
                                /\ touched = ZonesOf(want, Good(want))
<1> DEFINE Res(taken, added, touched) ==
      /\ Outcome(want, taken, added)
      /\ ApplyStep(want, taken, added, touched, start)
      /\ Bad(want) = {} => /\ taken = Jobs /\ added = Good(want)
                           /\ touched = ZonesOf(want, Good(want))
<1>1. \A j \in Jobs : want[j] # None => want[j] \in Defs
  BY DEF JobSets
<1>2. \A j \in Good(want) : j \in Jobs /\ want[j] # None
  BY DEF Good, Wanted
<1>3. \A j \in Bad(want) : j \in Jobs /\ want[j] # None
  BY DEF Bad, Wanted
<1>4. \A S \in SUBSET Jobs : (\A j \in S : want[j] # None) => ZonesOf(want, S) \in SUBSET Zones
  BY <1>1 DEF ZonesOf, Defs
<1>5. CASE /\ Bad(want) = {}
           /\ ApplyStep(want, Jobs, Good(want), ZonesOf(want, Good(want)), start)
  <2>1. Outcome(want, Jobs, Good(want))
    BY <1>1, <1>2 DEF Outcome
  <2>2. Good(want) \in SUBSET Jobs /\ ZonesOf(want, Good(want)) \in SUBSET Zones
    BY <1>2, <1>4
  <2>3. Res(Jobs, Good(want), ZonesOf(want, Good(want)))
    BY <1>5, <2>1
  <2> HIDE DEF Res
  <2>4. \E taken, added \in SUBSET Jobs, touched \in SUBSET Zones : Res(taken, added, touched)
    BY <2>2, <2>3
  <2> QED BY <2>4 DEF Res
<1>6. ASSUME NEW b \in Bad(want), NEW P \in SUBSET (Present(want) \ Bad(want)),
             ApplyStep(want, (Jobs \ Present(want)) \cup P \cup {b}, P \cap Good(want),
                       ZonesOf(want, (P \cap Good(want)) \cup {b}), start)
      PROVE  \E taken, added \in SUBSET Jobs, touched \in SUBSET Zones : Res(taken, added, touched)
  <2> DEFINE taken0 == (Jobs \ Present(want)) \cup P \cup {b}
             added0 == P \cap Good(want)
             touched0 == ZonesOf(want, added0 \cup {b})
  <2>1. taken0 \in SUBSET Jobs /\ added0 \in SUBSET Jobs
    BY <1>2, <1>3 DEF Present
  <2>2. touched0 \in SUBSET Zones
    <3>1. added0 \cup {b} \in SUBSET Jobs
      BY <2>1, <1>3
    <3>2. \A j \in added0 \cup {b} : want[j] # None
      BY <1>2, <1>3
    <3> QED BY <3>1, <3>2, <1>4
  <2>3. Outcome(want, taken0, added0)
    BY <2>1, <1>1, <1>2 DEF Outcome, Present
  <2>4. Res(taken0, added0, touched0)
    BY <1>6, <2>3
  <2> HIDE DEF Res, taken0, added0, touched0
  <2> QED BY <2>1, <2>2, <2>4
<1> QED BY <1>5, <1>6 DEF Apply

\* Such a step keeps the types, and keeps the loops in line with the book.
LEMMA StepKeepsBook ==
  ASSUME TypeOK, HeldOnce, NEW want \in JobSets, NEW start \in BOOLEAN,
         NEW taken \in SUBSET Jobs, NEW added \in SUBSET Jobs, NEW touched \in SUBSET Zones,
         Outcome(want, taken, added), ApplyStep(want, taken, added, touched, start)
  PROVE  /\ entries' \in [Jobs -> Entries \cup {None}]
         /\ crons' \in [Zones -> {"none", "idle", "running"}]
         /\ held' \in [Zones -> [Jobs -> Nat]]
         /\ HeldOnce'
         /\ \A j \in Jobs : entries'[j] # None => want[j] # None
         /\ \A z \in Zones : crons[z] = "running" => crons'[z] = "running"
<1>1. \A j \in added : EntryOf(want[j]) \in Entries /\ want[j] # None /\ EntryOf(want[j]) # None
                       /\ EntryOf(want[j]).tz = want[j].tz
  BY SchedulerAssumption DEF Outcome, EntryOf, Entries, Defs
<1>2. entries' = [j \in Jobs |-> IF j \in added THEN EntryOf(want[j])
                                 ELSE IF j \in taken THEN None ELSE entries[j]]
  BY DEF ApplyStep
<1>3. entries' \in [Jobs -> Entries \cup {None}]
  BY <1>1, <1>2 DEF TypeOK
<1>4. /\ crons' \in [Zones -> {"none", "idle", "running"}]
      /\ \A z \in Zones : crons[z] = "running" => crons'[z] = "running"
  BY DEF ApplyStep, TypeOK
<1>5. \A j \in Jobs : entries'[j] # None => want[j] # None
  BY <1>1, <1>2 DEF Outcome
<1>6. \A z \in Zones, j \in Jobs :
        held'[z][j] = IF entries'[j] # None /\ entries'[j].tz = z THEN 1 ELSE 0
  <2> SUFFICES ASSUME NEW z \in Zones, NEW j \in Jobs
               PROVE held'[z][j] = IF entries'[j] # None /\ entries'[j].tz = z THEN 1 ELSE 0
    OBVIOUS
  <2>1. held[z][j] = IF entries[j] # None /\ entries[j].tz = z THEN 1 ELSE 0
    BY DEF HeldOnce
  <2>2. Without(held, taken, want)[z][j] =
          IF j \in taken /\ entries[j] # None /\ entries[j].tz = z
          THEN held[z][j] - 1 ELSE held[z][j]
    BY DEF Without
  <2>3. held'[z][j] = IF j \in added /\ want[j].tz = z
                      THEN Without(held, taken, want)[z][j] + 1
                      ELSE Without(held, taken, want)[z][j]
    BY DEF ApplyStep
  <2>4. CASE j \in added
    <3>1. j \in taken
      BY <2>4 DEF Outcome
    <3>2. entries'[j] = EntryOf(want[j])
      BY <2>4, <1>2
    <3>3. Without(held, taken, want)[z][j] = 0
      BY <3>1, <2>1, <2>2
    <3> QED BY <2>4, <3>2, <3>3, <2>3, <1>1
  <2>5. CASE j \notin added /\ j \in taken
    BY <2>5, <1>2, <2>1, <2>2, <2>3
  <2>6. CASE j \notin added /\ j \notin taken
    BY <2>6, <1>2, <2>1, <2>2, <2>3
  <2> QED BY <2>4, <2>5, <2>6
<1>7. held' \in [Zones -> [Jobs -> Nat]]
  <2>1. \A z \in Zones, j \in Jobs : held'[z][j] \in Nat
    BY <1>6
  <2>2. held' = [z \in Zones |-> [j \in Jobs |->
                   IF j \in added /\ want[j].tz = z
                   THEN Without(held, taken, want)[z][j] + 1
                   ELSE Without(held, taken, want)[z][j]]]
    BY DEF ApplyStep
  <2> QED BY <2>1, <2>2
<1> QED BY <1>3, <1>4, <1>5, <1>6, <1>7 DEF HeldOnce

\* After a call that met no bad expression the book is what the set asks for.
LEMMA StepFollows ==
  ASSUME NEW want \in JobSets, NEW start \in BOOLEAN, NEW touched,
         Bad(want) = {}, ApplyStep(want, Jobs, Good(want), touched, start)
  PROVE  \A j \in Jobs : entries'[j] = IF Wanted(want, j) THEN EntryOf(want[j]) ELSE None
BY DEF ApplyStep, Good

\* The invariant holds initially and is kept by every step.
LEMMA SchedInit == Init => SchedInv
<1> SUFFICES ASSUME Init PROVE SchedInv
  OBVIOUS
<1>1. TypeOK
  <2>1. mem \in JobSets /\ disk \in JobSets /\ entries \in [Jobs -> Entries \cup {None}]
    BY DEF Init, Empty, JobSets
  <2>2. crons \in [Zones -> {"none", "idle", "running"}] /\ seeded \in SUBSET Zones
    BY DEF Init
  <2>3. held \in [Zones -> [Jobs -> Nat]]
    BY DEF Init
  <2>4. syncs \in 0..MaxSyncs
    BY SchedulerAssumption DEF Init
  <2>5. up \in BOOLEAN /\ applying \in BOOLEAN
    BY DEF Init
  <2> QED BY <2>1, <2>2, <2>3, <2>4, <2>5 DEF TypeOK
<1>2. HeldOnce
  BY DEF Init, HeldOnce, Empty
<1>3. FollowsSync /\ CachedZonesRun /\ DownIsEmpty
  BY DEF Init, FollowsSync, CachedZonesRun, DownIsEmpty
<1> QED BY <1>1, <1>2, <1>3 DEF SchedInv

LEMMA SchedNext == SchedInv /\ [Next]_vars => SchedInv'
<1> SUFFICES ASSUME SchedInv, [Next]_vars PROVE SchedInv'
  OBVIOUS
<1>0. TypeOK /\ HeldOnce /\ FollowsSync /\ CachedZonesRun /\ DownIsEmpty
  BY DEF SchedInv
<1>1. CASE Boot
  <2>0. /\ ~up /\ up' = TRUE /\ mem' = disk /\ disk' = disk /\ applying' = applying
        /\ syncs' = syncs /\ Apply(disk, TRUE)
        /\ seeded' = IF Bad(disk) = {} THEN ZonesOf(disk, Good(disk)) ELSE {}
    BY <1>1 DEF Boot, BootWith
  <2>1. disk \in JobSets
    BY <1>0 DEF TypeOK
  <2>2. PICK taken \in SUBSET Jobs, added \in SUBSET Jobs, touched \in SUBSET Zones :
          /\ Outcome(disk, taken, added)
          /\ ApplyStep(disk, taken, added, touched, TRUE)
          /\ Bad(disk) = {} => /\ taken = Jobs /\ added = Good(disk)
                               /\ touched = ZonesOf(disk, Good(disk))
    BY <2>0, <2>1, ApplyIsStep
  <2>3. /\ entries' \in [Jobs -> Entries \cup {None}]
        /\ crons' \in [Zones -> {"none", "idle", "running"}]
        /\ held' \in [Zones -> [Jobs -> Nat]]
        /\ HeldOnce'
        /\ \A j \in Jobs : entries'[j] # None => disk[j] # None
    BY <1>0, <2>1, <2>2, StepKeepsBook
  <2>4. seeded' \in SUBSET Zones
    BY <2>0, <2>2
  <2>5. TypeOK'
    BY <1>0, <2>0, <2>3, <2>4 DEF TypeOK
  <2>6. Bad(disk) = {} =>
          \A j \in Jobs : entries'[j] = IF Wanted(disk, j) THEN EntryOf(disk[j]) ELSE None
    BY <2>1, <2>2, StepFollows
  <2>7. FollowsSync'
    BY <2>0, <2>3, <2>6 DEF FollowsSync, Bad, Wanted
  <2>8. CachedZonesRun'
    <3>1. \A z \in Zones : crons[z] = "none"
      BY <1>0, <2>0 DEF DownIsEmpty
    <3>2. \A z \in touched : crons'[z] = "running"
      BY <2>2, <3>1 DEF ApplyStep
    <3> QED BY <2>0, <2>2, <3>2 DEF CachedZonesRun
  <2>9. DownIsEmpty'
    BY <2>0 DEF DownIsEmpty
  <2> QED BY <2>3, <2>5, <2>7, <2>8, <2>9 DEF SchedInv
<1>2. CASE Sync
  <2>1. /\ up' = up /\ entries' = entries /\ crons' = crons /\ held' = held
        /\ seeded' = seeded /\ applying' = TRUE /\ up /\ disk' = disk
        /\ syncs' = syncs + 1 /\ syncs < MaxSyncs /\ mem' \in JobSets
    BY <1>2 DEF Sync
  <2>2. TypeOK'
    BY <1>0, <2>1, SchedulerAssumption DEF TypeOK
  <2>3. HeldOnce' /\ CachedZonesRun'
    BY <1>0, <2>1 DEF HeldOnce, CachedZonesRun
  <2>4. FollowsSync' /\ DownIsEmpty'
    BY <2>1 DEF FollowsSync, DownIsEmpty
  <2> QED BY <2>2, <2>3, <2>4 DEF SchedInv
<1>3. CASE SyncApply
  <2>0. /\ applying /\ applying' = FALSE /\ disk' \in {mem, disk} /\ Apply(mem, FALSE)
        /\ up' = up /\ mem' = mem /\ syncs' = syncs /\ seeded' = seeded
    BY <1>3 DEF SyncApply
  <2>1. mem \in JobSets
    BY <1>0 DEF TypeOK
  <2>2. PICK taken \in SUBSET Jobs, added \in SUBSET Jobs, touched \in SUBSET Zones :
          /\ Outcome(mem, taken, added)
          /\ ApplyStep(mem, taken, added, touched, FALSE)
          /\ Bad(mem) = {} => /\ taken = Jobs /\ added = Good(mem)
                              /\ touched = ZonesOf(mem, Good(mem))
    BY <2>0, <2>1, ApplyIsStep
  <2>3. /\ entries' \in [Jobs -> Entries \cup {None}]
        /\ crons' \in [Zones -> {"none", "idle", "running"}]
        /\ held' \in [Zones -> [Jobs -> Nat]]
        /\ HeldOnce'
        /\ \A j \in Jobs : entries'[j] # None => mem[j] # None
        /\ \A z \in Zones : crons[z] = "running" => crons'[z] = "running"
    BY <1>0, <2>1, <2>2, StepKeepsBook
  <2>4. TypeOK'
    BY <1>0, <2>0, <2>3 DEF TypeOK
  <2>5. Bad(mem) = {} =>
          \A j \in Jobs : entries'[j] = IF Wanted(mem, j) THEN EntryOf(mem[j]) ELSE None
    BY <2>1, <2>2, StepFollows
  <2>6. FollowsSync'
    BY <2>0, <2>3, <2>5 DEF FollowsSync, Bad, Wanted
  <2>7. CachedZonesRun'
    BY <1>0, <2>0, <2>3 DEF CachedZonesRun, TypeOK
  <2>8. DownIsEmpty'
    BY <1>0, <2>0 DEF DownIsEmpty
  <2> QED BY <2>3, <2>4, <2>6, <2>7, <2>8 DEF SchedInv
<1>4. CASE Crash
  <2>1. TypeOK'
    BY <1>0, <1>4 DEF TypeOK, Crash, Empty, JobSets
  <2>2. HeldOnce'
    BY <1>4 DEF Crash, HeldOnce, Empty
  <2>3. FollowsSync' /\ CachedZonesRun' /\ DownIsEmpty'
    BY <1>4 DEF Crash, FollowsSync, CachedZonesRun, DownIsEmpty, Empty
  <2> QED BY <2>1, <2>2, <2>3 DEF SchedInv
<1>5. CASE UNCHANGED vars
  BY <1>5 DEF SchedInv, vars, TypeOK, HeldOnce, FollowsSync, CachedZonesRun, DownIsEmpty,
              Bad, Wanted
<1> QED BY <1>1, <1>2, <1>3, <1>4, <1>5 DEF Next

\* The inductive invariant holds in every reachable state.
LEMMA SchedInvariant == Spec => []SchedInv
BY SchedInit, SchedNext, PTL DEF Spec

\* Apply, called again and again with any job sets, never leaves a job in two
\* cron loops or twice in one, nor loses one it has in its book.
THEOREM NoDoubleEntry == Spec => []HeldOnce
<1>1. SchedInv => HeldOnce
  BY DEF SchedInv
<1> QED BY <1>1, SchedInvariant, PTL

\* Apply schedules what the last applied set says, whatever earlier calls
\* that stopped at a bad expression left behind.
THEOREM ApplyFollows == Spec => []FollowsSync
<1>1. SchedInv => FollowsSync
  BY DEF SchedInv
<1> QED BY <1>1, SchedInvariant, PTL

\* After a restart without bad expressions the loops of all cached jobs run,
\* and no later sync stops them.
THEOREM CachedJobsRun == Spec => []CachedZonesRun
<1>1. SchedInv => CachedZonesRun
  BY DEF SchedInv
<1> QED BY <1>1, SchedInvariant, PTL

-----------------------------------------------------------------------------
(***************************************************************************)
(* The catch-up, for any number of jobs, of windows and of crashes, any    *)
(* policies and any cap.                                                   *)
(***************************************************************************)
Records == [job : Jobs, at : Nat, by : C!Callers, snap : [Jobs -> Nat]]

CatchupTypes ==
  /\ now \in Nat /\ running \in BOOLEAN /\ raced \in BOOLEAN
  /\ state \in [Jobs -> Nat] /\ stateFile \in [Jobs -> Nat]
  /\ saving \in SUBSET Records
  /\ todo \in SUBSET Jobs
  /\ seen.last \in [Jobs -> Nat] /\ seen.at \in Nat
  /\ left \in [Jobs -> Nat]
  /\ lastRun \in [Jobs -> Nat] /\ missed \in [Jobs -> Nat]

\* runCatchup is in one recordFire at most, and nothing of the process is
\* left when it is down.
OneCall ==
  /\ \A r, s \in saving : r.by # "schedule" /\ s.by # "schedule" => r = s
  /\ ~running => due = {} /\ saving = {} /\ todo = {} /\ left = C!Never

\* A recordFire of a catch-up run of the job is underway.
Recording(j) == \E r \in saving : r.job = j /\ r.by = "catchup"

\* The runs the policy of a job makes of what runCatchup saw of it.
Plan(j) == IF seen.last[j] = 0 THEN 0
           ELSE C!RunsFor(Policy[j], C!MissedWindows(seen.last[j], seen.at))

\* The history agrees with the memory of the process, as long as no older time
\* replaced a newer one: the file is not behind the last run of a job, a
\* snapshot holds the time of its own job, a job still to be looked at misses
\* what its plan makes up for, and one that was looked at misses what is left
\* to start or being recorded.
Accounts ==
  /\ \A j \in Jobs : lastRun[j] <= stateFile[j]
  /\ \A r \in saving : r.snap[r.job] = r.at
  /\ running => \A j \in todo : left[j] = 0 /\ ~Recording(j) /\ missed[j] = Plan(j)
  /\ running => \A j \in Jobs \ todo : missed[j] = left[j] + IF Recording(j) THEN 1 ELSE 0

\* The inductive invariant.
CatchupInv == CatchupTypes /\ OneCall /\ (~raced => Accounts)

\* The larger and the smaller of two numbers.
LEMMA Larger == \A a, b \in Int : (b <= a => C!Max({a, b}) = a) /\ (a <= b => C!Max({a, b}) = b)
BY DEF C!Max

LEMMA Smaller == \A a, b \in Int : (a <= b => C!Min({a, b}) = a) /\ (b <= a => C!Min({a, b}) = b)
BY DEF C!Min

\* Catchup's cardinality is the one the theorems on finite sets speak of.
LEMMA SameCardinality == \A S : C!Cardinality(S) = Cardinality(S)
BY DEF C!Cardinality, Cardinality

\* How many windows lie between two times is a natural number.
LEMMA Windows ==
  ASSUME NEW last, NEW at
  PROVE  C!WindowsBetween(last, at) \in Nat
<1> DEFINE W == { w \in 1..MaxTime : last < w /\ w <= at }
<1>1. IsFiniteSet(1..MaxTime) /\ W \in SUBSET (1..MaxTime)
  BY ScheduleAssumption, FS_Interval
<1>2. C!WindowsBetween(last, at) = Cardinality(W)
  BY SameCardinality DEF C!WindowsBetween
<1> HIDE DEF W
<1> QED BY <1>1, <1>2, FS_Subset, FS_CardinalityType

\* What a job is due, by its policy, is what runCatchup plans for it, when the
\* file is not behind its last run.
LEMMA DueIsPlanned ==
  ASSUME NEW j \in Jobs, NEW at \in Nat,
         lastRun[j] \in Nat, stateFile[j] \in Nat, lastRun[j] <= stateFile[j]
  PROVE  C!Due(j, at) = IF stateFile[j] = 0 THEN 0
                        ELSE C!RunsFor(Policy[j], C!MissedWindows(stateFile[j], at))
<1> DEFINE n == C!WindowsBetween(stateFile[j], at)
<1>1. n \in Nat
  BY Windows
<1>2. C!Max({lastRun[j], stateFile[j]}) = stateFile[j]
  BY Larger
<1>3. Policy[j] \in {"skip", "once", "all"} /\ Cap \in Nat /\ Cap >= 1
  BY ScheduleAssumption
<1>4. C!Due(j, at) = IF stateFile[j] = 0 THEN 0
                     ELSE C!Min({n, IF Policy[j] = "all" THEN Cap ELSE IF Policy[j] = "once" THEN 1 ELSE 0})
  BY <1>2 DEF C!Due
<1>5. C!MissedWindows(stateFile[j], at) = C!Min({Cap, n})
  BY DEF C!MissedWindows
<1> HIDE DEF n
<1>6. C!Min({Cap, n}) = C!Min({n, Cap}) /\ C!Min({Cap, n}) \in Nat
  BY <1>1, <1>3, Smaller
<1>7. CASE Policy[j] = "skip"
  <2>1. C!Min({n, 0}) = 0
    BY <1>1, Smaller
  <2> QED BY <1>4, <1>5, <1>7, <2>1 DEF C!RunsFor
<1>8. CASE Policy[j] = "once"
  <2>1. (Cap <= n => C!Min({Cap, n}) = Cap) /\ (n <= Cap => C!Min({Cap, n}) = n)
    BY <1>1, <1>3, Smaller
  <2>2. C!Min({n, 1}) = C!Min({C!Min({Cap, n}), 1})
    <3> DEFINE k == C!Min({Cap, n})
    <3>1. k \in Int /\ n \in Int /\ 1 \in Int /\ ((k < 1) = (n < 1)) /\ (n < 1 => k = n)
      BY <1>1, <1>3, <2>1
    <3> HIDE DEF k
    <3>2. C!Min({k, 1}) = C!Min({n, 1})
      BY <3>1, Smaller
    <3> QED BY <3>2 DEF k
  <2> QED BY <1>4, <1>5, <1>8, <2>2 DEF C!RunsFor
<1>9. CASE Policy[j] = "all"
  BY <1>4, <1>5, <1>6, <1>9 DEF C!RunsFor
<1> QED BY <1>3, <1>7, <1>8, <1>9

\* What a policy makes of some windows is a natural number.
LEMMA PlanType ==
  ASSUME NEW p \in {"skip", "once", "all"}, NEW last, NEW at
  PROVE  C!RunsFor(p, C!MissedWindows(last, at)) \in Nat
<1>1. C!MissedWindows(last, at) \in Nat
  BY ScheduleAssumption, Windows, Smaller DEF C!MissedWindows
<1> DEFINE k == C!MissedWindows(last, at)
<1>2. C!Min({k, 1}) \in Nat
  <2> HIDE DEF k
  <2>1. k \in Nat
    BY <1>1 DEF k
  <2> QED BY <2>1, Smaller
<1> QED BY <1>1, <1>2 DEF C!RunsFor

\* So is what a job is due.
LEMMA DueType ==
  ASSUME NEW j \in Jobs, NEW at
  PROVE  C!Due(j, at) \in Nat
<1> DEFINE n == C!WindowsBetween(C!Max({lastRun[j], stateFile[j]}), at)
           m == IF Policy[j] = "all" THEN Cap ELSE IF Policy[j] = "once" THEN 1 ELSE 0
<1>1. n \in Nat /\ m \in Nat
  BY Windows, ScheduleAssumption
<1>2. C!Min({n, m}) \in Nat
  <2> HIDE DEF n, m
  <2> QED BY <1>1, Smaller
<1> QED BY <1>2 DEF C!Due

\* The catch-up begins with nothing to account for.
LEMMA CatchupStarts == C!Init => CatchupInv
<1> SUFFICES ASSUME C!Init PROVE CatchupInv
  OBVIOUS
<1>1. CatchupTypes
  BY DEF C!Init, CatchupTypes, C!Never
<1>2. OneCall /\ Accounts
  BY DEF C!Init, OneCall, Accounts, C!Never
<1> QED BY <1>1, <1>2 DEF CatchupInv

\* A call of recordFire keeps the types, and its snapshot holds the job's time.
LEMMA Recorded ==
  ASSUME CatchupTypes, NEW j \in Jobs, NEW at \in Nat, NEW by \in C!Callers,
         C!RecordFire(j, at, by)
  PROVE  \E r \in Records :
           /\ r.job = j /\ r.by = by /\ r.at = at /\ r.snap = state' /\ r.snap[j] = at
           /\ saving' = saving \cup {r}
           /\ state' \in [Jobs -> Nat] /\ raced' \in BOOLEAN /\ saving' \in SUBSET Records
           /\ raced => raced'
<1> DEFINE r == [job |-> j, at |-> at, by |-> by, snap |-> state']
<1>1. state' = [state EXCEPT ![j] = at] /\ saving' = saving \cup {r} /\ raced' = (raced \/ at < state[j])
  BY DEF C!RecordFire
<1>2. state' \in [Jobs -> Nat] /\ state'[j] = at
  BY <1>1 DEF CatchupTypes
<1>3. r \in Records
  BY <1>2 DEF Records
<1>4. saving' \in SUBSET Records /\ raced' \in BOOLEAN /\ (raced => raced')
  BY <1>1, <1>3 DEF CatchupTypes
<1>5. r.job = j /\ r.by = by /\ r.at = at /\ r.snap = state'
  OBVIOUS
<1> HIDE DEF r
<1> QED BY <1>1, <1>2, <1>3, <1>4, <1>5

\* Each step of the catch-up keeps the invariant.
LEMMA CatchupStep == CatchupInv /\ [C!Next]_catchupVars => CatchupInv'
<1> SUFFICES ASSUME CatchupInv, [C!Next]_catchupVars PROVE CatchupInv'
  OBVIOUS
<1>0. CatchupTypes /\ OneCall /\ (~raced => Accounts)
  BY DEF CatchupInv
<1>1. CASE C!Tick
  <2>1. /\ now' = now + 1 /\ (~running => due' = {}) /\ running' = running /\ state' = state /\ stateFile' = stateFile
        /\ saving' = saving /\ todo' = todo /\ seen' = seen /\ left' = left
        /\ lastRun' = lastRun /\ missed' = missed /\ raced' = raced
    BY <1>1 DEF C!Tick
  <2> QED BY <1>0, <2>1 DEF CatchupInv, CatchupTypes, OneCall, Accounts, Recording, Plan, C!Never
<1>2. CASE C!Boot
  <2>1. /\ ~running /\ running' = TRUE /\ state' = stateFile /\ todo' = Jobs
        /\ seen'.last = stateFile /\ seen'.at = now
        /\ missed' = [j \in Jobs |-> C!Due(j, now)]
        /\ now' = now /\ stateFile' = stateFile /\ saving' = saving /\ left' = left
        /\ lastRun' = lastRun /\ raced' = raced
    BY <1>2 DEF C!Boot
  <2>2. saving = {} /\ left = C!Never
    BY <1>0, <2>1 DEF OneCall
  <2>3. missed' \in [Jobs -> Nat]
    BY <2>1, DueType
  <2>4. CatchupTypes' /\ OneCall'
    BY <1>0, <2>1, <2>2, <2>3 DEF CatchupTypes, OneCall
  <2>5. ASSUME ~raced PROVE Accounts'
    <3>1. \A j \in Jobs : missed'[j] = Plan(j)'
      BY <1>0, <2>1, <2>5, DueIsPlanned DEF CatchupTypes, Accounts, Plan
    <3>2. \A j \in Jobs : left'[j] = 0 /\ ~Recording(j)'
      BY <2>1, <2>2 DEF C!Never, Recording
    <3> QED BY <1>0, <2>1, <2>2, <2>5, <3>1, <3>2 DEF Accounts
  <2> QED BY <2>1, <2>4, <2>5 DEF CatchupInv
<1>3. CASE C!Crash
  <2>1. /\ running' = FALSE /\ due' = {} /\ state' = C!Never /\ saving' = {} /\ todo' = {} /\ left' = C!Never
        /\ now' = now /\ stateFile' = stateFile /\ seen' = seen
        /\ lastRun' = lastRun /\ missed' = missed /\ raced' = raced
    BY <1>3 DEF C!Crash
  <2>2. C!Never \in [Jobs -> Nat]
    BY DEF C!Never
  <2> QED BY <1>0, <2>1, <2>2 DEF CatchupInv, CatchupTypes, OneCall, Accounts
<1>4. ASSUME NEW j \in Jobs, C!Fire(j) PROVE CatchupInv'
  <2>1. /\ now' = now /\ running' = running /\ stateFile' = stateFile /\ todo' = todo /\ seen' = seen
        /\ left' = left /\ lastRun' = lastRun /\ missed' = missed
        /\ C!RecordFire(j, now, "schedule")
    BY <1>4 DEF C!Fire
  <2>2. j \in due /\ running
    BY <1>0, <1>4 DEF C!Fire, OneCall
  <2>a. C!RecordFire(j, now, "schedule") /\ CatchupTypes
    BY <1>0, <2>1
  <2>b. now \in Nat /\ "schedule" \in C!Callers
    BY <2>a DEF CatchupTypes, C!Callers
  <2>3. PICK r \in Records :
          /\ r.job = j /\ r.by = "schedule" /\ r.at = now /\ r.snap = state' /\ r.snap[j] = now
          /\ saving' = saving \cup {r}
          /\ state' \in [Jobs -> Nat] /\ raced' \in BOOLEAN /\ saving' \in SUBSET Records
          /\ raced => raced'
    BY <2>a, <2>b, Recorded
  <2>4. CatchupTypes' /\ OneCall'
    BY <1>0, <2>1, <2>2, <2>3 DEF CatchupTypes, OneCall
  <2>5. ASSUME ~raced' PROVE Accounts'
    <3>1. Accounts
      BY <1>0, <2>3, <2>5
    <3>2. \A k \in Jobs : Recording(k)' <=> Recording(k)
      BY <2>3 DEF Recording
    <3>3. \A k \in Jobs : Plan(k)' = Plan(k)
      BY <2>1 DEF Plan
    <3> QED BY <1>0, <2>1, <2>3, <3>1, <3>2, <3>3 DEF Accounts, CatchupTypes
  <2> QED BY <2>4, <2>5 DEF CatchupInv
<1>5. ASSUME NEW j \in Jobs, C!Consider(j) PROVE CatchupInv'
  <2>1. /\ j \in todo /\ left = C!Never /\ todo' = todo \ {j}
        /\ \A r \in saving : r.by = "schedule"
        /\ now' = now /\ running' = running /\ due' = due /\ stateFile' = stateFile /\ seen' = seen
        /\ lastRun' = lastRun /\ missed' = missed
    BY <1>5 DEF C!Consider, C!Waiting
  <2>2. running
    BY <1>0, <2>1 DEF OneCall
  <2>3. \A k \in Jobs : ~Recording(k) /\ left[k] = 0 /\ Plan(k)' = Plan(k)
    BY <2>1 DEF Recording, C!Never, Plan
  <2>4. CASE Policy[j] # "skip" /\ seen.last[j] = 0
    <3>1. C!RecordFire(j, seen.at, "baseline") /\ left' = left
      BY <1>5, <2>4 DEF C!Consider
    <3>a. C!RecordFire(j, seen.at, "baseline") /\ CatchupTypes
      BY <1>0, <3>1
    <3>b. seen.at \in Nat /\ "baseline" \in C!Callers
      BY <3>a DEF CatchupTypes, C!Callers
    <3>2. PICK r \in Records :
            /\ r.job = j /\ r.by = "baseline" /\ r.at = seen.at /\ r.snap = state' /\ r.snap[j] = seen.at
            /\ saving' = saving \cup {r}
            /\ state' \in [Jobs -> Nat] /\ raced' \in BOOLEAN /\ saving' \in SUBSET Records
            /\ raced => raced'
      BY <3>a, <3>b, Recorded
    <3>3. CatchupTypes' /\ OneCall'
      BY <1>0, <2>1, <2>2, <3>1, <3>2 DEF CatchupTypes, OneCall
    <3>4. ASSUME ~raced' PROVE Accounts'
      <4>1. Accounts
        BY <1>0, <3>2, <3>4
      <4>2. \A k \in Jobs : ~Recording(k)'
        BY <2>1, <3>2 DEF Recording
      <4>3. missed[j] = 0
        BY <2>1, <2>2, <2>4, <4>1 DEF Accounts, Plan
      <4> QED BY <1>0, <2>1, <2>2, <2>3, <3>1, <3>2, <4>1, <4>2, <4>3 DEF Accounts, CatchupTypes
    <3> QED BY <3>3, <3>4 DEF CatchupInv
  <2>5. CASE ~(Policy[j] # "skip" /\ seen.last[j] = 0)
    <3> DEFINE n == C!RunsFor(Policy[j], C!MissedWindows(seen.last[j], seen.at))
    <3>1. left' = [left EXCEPT ![j] = n] /\ state' = state /\ saving' = saving /\ raced' = raced
      BY <1>5, <2>5 DEF C!Consider
    <3>2. n \in Nat
      BY ScheduleAssumption, PlanType
    <3>3. n = Plan(j)
      <4>1. CASE seen.last[j] # 0
        BY <4>1 DEF Plan
      <4>2. CASE seen.last[j] = 0
        <5>1. Policy[j] = "skip"
          BY <2>5, <4>2
        <5>2. n = 0
          BY <5>1 DEF C!RunsFor
        <5> QED BY <4>2, <5>2 DEF Plan
      <4> QED BY <4>1, <4>2
    <3> HIDE DEF n
    <3>4. CatchupTypes' /\ OneCall'
      BY <1>0, <2>1, <2>2, <3>1, <3>2 DEF CatchupTypes, OneCall
    <3>5. ASSUME ~raced' PROVE Accounts'
      <4>1. Accounts
        BY <1>0, <3>1, <3>5
      <4>2. \A k \in Jobs : ~Recording(k)'
        BY <2>3, <3>1 DEF Recording
      <4>3. missed[j] = n
        BY <2>1, <2>2, <3>3, <4>1 DEF Accounts
      <4>4. left'[j] = n /\ \A k \in Jobs : k # j => left'[k] = 0
        BY <1>0, <2>3, <3>1 DEF CatchupTypes
      <4> QED BY <1>0, <2>1, <2>2, <2>3, <3>1, <3>2, <4>1, <4>2, <4>3, <4>4 DEF Accounts, CatchupTypes
    <3> QED BY <3>4, <3>5 DEF CatchupInv
  <2> QED BY <2>4, <2>5
<1>6. ASSUME NEW j \in Jobs, C!CatchupRun(j) PROVE CatchupInv'
  <2>1. /\ left[j] > 0 /\ left' = [left EXCEPT ![j] = left[j] - 1]
        /\ \A r \in saving : r.by = "schedule"
        /\ now' = now /\ running' = running /\ due' = due /\ stateFile' = stateFile
        /\ todo' = todo /\ seen' = seen /\ lastRun' = lastRun /\ missed' = missed
        /\ C!RecordFire(j, now, "catchup")
    BY <1>6 DEF C!CatchupRun, C!Waiting
  <2>2. running
    BY <1>0, <2>1 DEF OneCall, C!Never
  <2>a. C!RecordFire(j, now, "catchup") /\ CatchupTypes
    BY <1>0, <2>1
  <2>b. now \in Nat /\ "catchup" \in C!Callers
    BY <2>a DEF CatchupTypes, C!Callers
  <2>3. PICK r \in Records :
          /\ r.job = j /\ r.by = "catchup" /\ r.at = now /\ r.snap = state' /\ r.snap[j] = now
          /\ saving' = saving \cup {r}
          /\ state' \in [Jobs -> Nat] /\ raced' \in BOOLEAN /\ saving' \in SUBSET Records
          /\ raced => raced'
    BY <2>a, <2>b, Recorded
  <2>4. left' \in [Jobs -> Nat] /\ left'[j] = left[j] - 1 /\ \A k \in Jobs : k # j => left'[k] = left[k]
    BY <1>0, <2>1 DEF CatchupTypes
  <2>5. CatchupTypes' /\ OneCall'
    BY <1>0, <2>1, <2>2, <2>3, <2>4 DEF CatchupTypes, OneCall
  <2>6. ASSUME ~raced' PROVE Accounts'
    <3>1. Accounts
      BY <1>0, <2>3, <2>6
    <3>2. \A k \in Jobs : ~Recording(k) /\ (Recording(k)' <=> k = j) /\ Plan(k)' = Plan(k)
      BY <2>1, <2>3 DEF Recording, Plan
    <3>3. j \notin todo
      BY <2>1, <2>2, <3>1 DEF Accounts
    <3> QED BY <1>0, <2>1, <2>2, <2>3, <2>4, <3>1, <3>2, <3>3 DEF Accounts, CatchupTypes
  <2> QED BY <2>5, <2>6 DEF CatchupInv
<1>7. ASSUME NEW r \in saving, C!Save(r) PROVE CatchupInv'
  <2>0. r \in Records /\ r.job \in Jobs /\ r.at \in Nat /\ r.snap \in [Jobs -> Nat]
    BY <1>0 DEF CatchupTypes, Records
  <2>1. /\ stateFile' = r.snap /\ saving' = saving \ {r}
        /\ lastRun' = [lastRun EXCEPT ![r.job] = IF r.by = "baseline" /\ lastRun[r.job] # 0 THEN lastRun[r.job] ELSE r.at]
        /\ missed' = [missed EXCEPT ![r.job] = IF r.by = "catchup" THEN C!Max({missed[r.job] - 1, 0}) ELSE missed[r.job]]
        /\ raced' = (raced \/ \E k \in Jobs : r.snap[k] < stateFile[k])
        /\ now' = now /\ running' = running /\ due' = due /\ state' = state
        /\ todo' = todo /\ seen' = seen /\ left' = left
    BY <1>7 DEF C!Save, C!Counted
  <2>2. running
    BY <1>0 DEF OneCall
  <2>3. C!Max({missed[r.job] - 1, 0}) = IF missed[r.job] = 0 THEN 0 ELSE missed[r.job] - 1
    <3> DEFINE m == missed[r.job] - 1
    <3>1. missed[r.job] \in Nat /\ m \in Int /\ (m < 0 <=> missed[r.job] = 0)
      BY <1>0, <2>0 DEF CatchupTypes
    <3>2. (0 <= m => C!Max({m, 0}) = m) /\ (m <= 0 => C!Max({m, 0}) = 0)
      <4> HIDE DEF m
      <4>1. 0 \in Int
        OBVIOUS
      <4> QED BY <3>1, <4>1, Larger
    <3> QED BY <3>1, <3>2
  <2>4. missed' \in [Jobs -> Nat] /\ lastRun' \in [Jobs -> Nat]
    BY <1>0, <2>0, <2>1, <2>3 DEF CatchupTypes
  <2>5. CatchupTypes' /\ OneCall'
    BY <1>0, <2>0, <2>1, <2>2, <2>4 DEF CatchupTypes, OneCall
  <2>6. ASSUME ~raced' PROVE Accounts'
    <3>1. ~raced /\ Accounts /\ \A k \in Jobs : stateFile[k] <= stateFile'[k]
      <4>1. ~raced /\ \A k \in Jobs : ~(r.snap[k] < stateFile[k])
        BY <2>1, <2>6
      <4>2. \A k \in Jobs : r.snap[k] \in Nat /\ stateFile[k] \in Nat /\ stateFile'[k] = r.snap[k]
        BY <1>0, <2>0, <2>1 DEF CatchupTypes
      <4> QED BY <1>0, <4>1, <4>2
    <3>2. \A k \in Jobs : lastRun'[k] <= stateFile'[k]
      BY <1>0, <2>0, <2>1, <2>4, <3>1 DEF CatchupTypes, Accounts
    <3>3. \A k \in Jobs : Plan(k)' = Plan(k)
      BY <2>1 DEF Plan
    <3>4. CASE r.by = "catchup"
      <4>1. \A k \in Jobs : (Recording(k) <=> k = r.job) /\ ~Recording(k)'
        BY <1>0, <2>1, <3>4 DEF Recording, OneCall
      <4>2. r.job \notin todo
        BY <2>0, <2>2, <3>1, <4>1 DEF Accounts
      <4>3. missed[r.job] = left[r.job] + 1
        BY <2>0, <2>2, <3>1, <4>1, <4>2 DEF Accounts
      <4>4. missed' = [missed EXCEPT ![r.job] = left[r.job]]
        <5>1. left[r.job] \in Nat
          BY <1>0, <2>0 DEF CatchupTypes
        <5>2. C!Max({missed[r.job] - 1, 0}) = left[r.job]
          BY <2>3, <4>3, <5>1
        <5> QED BY <2>1, <3>4, <5>2
      <4>5. missed'[r.job] = left[r.job] /\ \A k \in Jobs : k # r.job => missed'[k] = missed[k]
        BY <1>0, <2>0, <4>4 DEF CatchupTypes
      <4>6. \A k \in todo : left[k] = 0 /\ ~Recording(k)' /\ missed'[k] = Plan(k)
        BY <1>0, <2>2, <3>1, <4>1, <4>2, <4>5 DEF Accounts, CatchupTypes
      <4>7. \A k \in Jobs \ todo : missed'[k] = left[k]
        <5> SUFFICES ASSUME NEW k \in Jobs \ todo PROVE missed'[k] = left[k]
          OBVIOUS
        <5>1. left[k] \in Nat /\ (k # r.job => missed[k] = left[k])
          BY <1>0, <2>2, <3>1, <4>1 DEF Accounts, CatchupTypes
        <5> QED BY <4>5, <5>1
      <4>8. \A k \in Jobs : left[k] \in Nat /\ ~Recording(k)'
        BY <1>0, <4>1 DEF CatchupTypes
      <4>9. \A s \in saving' : s.snap[s.job] = s.at
        BY <2>1, <3>1 DEF Accounts
      <4>10. (\A k \in todo : left[k] = 0 /\ ~Recording(k) /\ missed[k] = Plan(k))'
        <5>1. todo' = todo /\ left' = left /\ \A k \in todo : k \in Jobs
          BY <1>0, <2>1 DEF CatchupTypes
        <5> QED BY <3>3, <4>6, <5>1
      <4>11. (\A k \in Jobs \ todo : missed[k] = left[k] + IF Recording(k) THEN 1 ELSE 0)'
        <5>1. \A k \in Jobs \ todo : missed'[k] = left[k] + 0 /\ ~Recording(k)'
          BY <4>7, <4>8
        <5>2. todo' = todo /\ left' = left
          BY <2>1
        <5> QED BY <5>1, <5>2
      <4> QED BY <3>2, <4>9, <4>10, <4>11 DEF Accounts
    <3>5. CASE r.by # "catchup"
      <4>1. \A k \in Jobs : Recording(k)' <=> Recording(k)
        BY <2>1, <3>5 DEF Recording
      <4>2. missed' = missed
        BY <1>0, <2>0, <2>1, <3>5 DEF CatchupTypes
      <4> QED BY <1>0, <2>1, <2>2, <3>1, <3>2, <3>3, <4>1, <4>2 DEF Accounts, CatchupTypes
    <3> QED BY <3>4, <3>5
  <2> QED BY <2>5, <2>6 DEF CatchupInv
<1>8. CASE UNCHANGED catchupVars
  BY <1>0, <1>8 DEF catchupVars, CatchupInv, CatchupTypes, OneCall, Accounts, Recording, Plan, C!Never
<1> QED BY <1>1, <1>2, <1>3, <1>4, <1>5, <1>6, <1>7, <1>8 DEF C!Next, catchupVars, C!vars

\* What is underway of a job is what it has left to start and what is being recorded.
LEMMA UnderwayIs ==
  ASSUME OneCall, NEW j \in Jobs, left[j] \in Nat
  PROVE  C!Underway(j) = left[j] + IF Recording(j) THEN 1 ELSE 0
<1> DEFINE S == { r \in saving : r.job = j /\ r.by = "catchup" }
<1>1. C!Underway(j) = left[j] + Cardinality(S)
  BY SameCardinality DEF C!Underway
<1>2. CASE Recording(j)
  <2>1. PICK r \in saving : r.job = j /\ r.by = "catchup"
    BY <1>2 DEF Recording
  <2>2. S = {r}
    BY <2>1 DEF OneCall
  <2> QED BY <1>1, <1>2, <2>2, FS_Singleton
<1>3. CASE ~Recording(j)
  <2>1. S = {}
    BY <1>3 DEF Recording
  <2> QED BY <1>1, <1>3, <2>1, FS_EmptySet
<1> QED BY <1>2, <1>3

\* A restart makes up for what the policies of the jobs ask for, no more and
\* no less, and for no window a job has run in, however often the process
\* dies on the way: as long as no older time replaced a newer one in the
\* state or in its file.
THEOREM MissedRunsMadeUp == MCSpec => []CaughtUp
<1>1. MCInit => CatchupInv
  BY CatchupStarts DEF MCInit
<1>2. CatchupInv /\ [MCNext]_<<part, vars, catchupVars>> => CatchupInv'
  BY CatchupStep DEF MCNext
<1>3. CatchupInv => CaughtUp
  <2> SUFFICES ASSUME CatchupInv, ~raced PROVE CaughtUp
    BY DEF CaughtUp, C!NoWindowTwice, C!PolicyCarriedOut
  <2>0. CatchupTypes /\ OneCall /\ Accounts
    BY DEF CatchupInv
  <2>1. \A j \in Jobs : C!Underway(j) = left[j] + IF Recording(j) THEN 1 ELSE 0
    BY <2>0, UnderwayIs DEF CatchupTypes
  <2>2. C!NoWindowTwice
    <3>1. CASE running
      BY <2>0, <2>1, <3>1 DEF C!NoWindowTwice, Accounts, CatchupTypes
    <3>2. CASE ~running
      BY <2>0, <2>1, <3>2 DEF C!NoWindowTwice, OneCall, CatchupTypes, C!Never, Recording
    <3> QED BY <3>1, <3>2
  <2>3. C!PolicyCarriedOut
    <3> SUFFICES ASSUME running, ~C!CatchingUp PROVE missed = C!Never
      BY DEF C!PolicyCarriedOut
    <3>1. todo = {} /\ left = C!Never /\ \A j \in Jobs : ~Recording(j)
      BY DEF C!CatchingUp, C!Waiting, Recording
    <3>2. \A j \in Jobs : missed[j] = 0
      BY <2>0, <3>1 DEF Accounts, C!Never
    <3> QED BY <2>0, <3>2 DEF CatchupTypes, C!Never
  <2> QED BY <2>2, <2>3 DEF CaughtUp
<1> QED BY <1>1, <1>2, <1>3, PTL DEF MCSpec
=============================================================================
