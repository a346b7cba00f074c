--------------------------- MODULE AgentRunsProofs ---------------------------
(***************************************************************************)
(* Proofs about AgentRuns, for every number of jobs, runs, retries and     *)
(* definition changes.                                                     *)
(***************************************************************************)
EXTENDS AgentRuns, SequenceTheorems, TLAPS

\* The messages a run builds are messages.
LEMMA MessageTypes ==
  ASSUME NEW r \in Runs
  PROVE  /\ Started(r) \in Messages
         /\ \A s \in Statuses : Finished(r, s) \in Messages
         /\ \A st \in Streams, q \in Nat, a \in 0..MaxRetries,
               w \in {"retry", "note", "line"} : Chunk(r, st, q, a, w) \in Messages
<1>1. Started(r) \in Messages
  BY DEF Messages
<1>2. \A s \in Statuses : Finished(r, s) \in Messages
  BY DEF Messages
<1>3. \A st \in Streams, q \in Nat, a \in 0..MaxRetries,
        w \in {"retry", "note", "line"} : Chunk(r, st, q, a, w) \in Messages
  BY DEF Messages, Chunk
<1> QED BY <1>1, <1>2, <1>3

\* Sequence bases are numbers.
LEMMA BaseType == ASSUME TypeOK, NEW r \in Runs PROVE Base(r) \in Nat
<1>1. attempt[r] \in Nat /\ SeqBlock \in Nat
  BY RunsAssumption DEF TypeOK
<1> QED BY <1>1 DEF Base

\* What an attempt logs first is a sequence of messages.
LEMMA PreambleType ==
  ASSUME TypeOK, NEW r \in Runs, NEW n \in NoteCounts
  PROVE  Preamble(r, n) \in Seq(Messages)
<1>1. Base(r) \in Nat
  BY BaseType
<1>2. attempt[r] \in 0..MaxRetries
  BY DEF TypeOK
<1>3. Chunk(r, "stderr", Base(r), attempt[r], "retry") \in Messages
  BY <1>1, <1>2, MessageTypes DEF Streams
<1>4. n \in {0, 1}
  BY RunsAssumption DEF NoteCounts
<1>5. \A i \in 1..n :
        Chunk(r, "stderr", Base(r) + (i - 1), attempt[r], "note") \in Messages
  <2> SUFFICES ASSUME NEW i \in 1..n
               PROVE Chunk(r, "stderr", Base(r) + (i - 1), attempt[r], "note") \in Messages
    OBVIOUS
  <2>1. Base(r) + (i - 1) \in Nat
    BY <1>1, <1>4
  <2> QED BY <2>1, <1>2, MessageTypes DEF Streams
<1>6. [i \in 1..n |-> Chunk(r, "stderr", Base(r) + (i - 1), attempt[r], "note")]
        \in Seq(Messages)
  BY <1>4, <1>5
<1> QED BY <1>3, <1>6 DEF Preamble

\* The end of an attempt keeps the types: an attempt is counted only while
\* retries are left.
LEMMA ConcludeType ==
  ASSUME TypeOK, NEW r \in Runs, NEW s \in Statuses, Conclude(r, s)
  PROVE  /\ pc' \in [Runs -> PCs]
         /\ attempt' \in [Runs -> 0..MaxRetries]
         /\ result' \in [Runs -> Statuses \cup {"none"}]
         /\ deadline' \in [Runs -> BOOLEAN]
         /\ lines' \in [Runs -> [Streams -> Nat]]
<1>1. def[r].retries \in 0..MaxRetries
  BY RunsAssumption DEF TypeOK, Defs, NoDef
<1>2. attempt[r] \in 0..MaxRetries
  BY DEF TypeOK
<1>3. attempt' \in [Runs -> 0..MaxRetries]
  <2>1. CASE s = "failed" /\ attempt[r] < def[r].retries
    <3>1. attempt' = [attempt EXCEPT ![r] = attempt[r] + 1]
      BY <2>1 DEF Conclude, RetryIf
    <3>2. attempt[r] + 1 \in 0..MaxRetries
      BY <2>1, <1>1, <1>2, RunsAssumption
    <3> QED BY <3>1, <3>2 DEF TypeOK
  <2>2. CASE ~(s = "failed" /\ attempt[r] < def[r].retries)
    BY <2>2 DEF TypeOK, Conclude, RetryIf
  <2> QED BY <2>1, <2>2
<1>4. pc' \in [Runs -> PCs]
  BY DEF TypeOK, Conclude, RetryIf, PCs
<1>5. result' \in [Runs -> Statuses \cup {"none"}]
  BY DEF TypeOK, Conclude, RetryIf
<1>6. [stdout |-> 0, stderr |-> 0] \in [Streams -> Nat]
  BY DEF Streams
<1>7. lines' \in [Runs -> [Streams -> Nat]]
  BY <1>6 DEF TypeOK, Conclude, RetryIf
<1>8. deadline' \in [Runs -> BOOLEAN]
  BY DEF TypeOK, Conclude, RetryIf
<1> QED BY <1>3, <1>4, <1>5, <1>7, <1>8

\* A run that pauses or reports has the result of an attempt.
ResultKnown ==
  \A r \in Runs : pc[r] \in {"backoff", "finish"} => result[r] \in Statuses

\* Each step keeps the type invariant; the status in RunFinished is typed
\* because a run reports only after an attempt.
LEMMA TypeStep == TypeOK /\ ResultKnown /\ [Next]_vars => TypeOK'
<1> SUFFICES ASSUME TypeOK, ResultKnown, [Next]_vars PROVE TypeOK'
  OBVIOUS
<1> USE DEF TypeOK
<1>1. ASSUME NEW r \in Runs, NEW t \in Sources, Fire(r, t) PROVE TypeOK'
  BY <1>1, RunsAssumption DEF Fire, Goto, PCs, Triggers, lockVars
<1>2. ASSUME NEW r \in Runs, Lookup(r) PROVE TypeOK'
  BY <1>2, RunsAssumption DEF Lookup, Goto, PCs, lockVars
<1>3. ASSUME NEW r \in Runs, AdmitAllow(r) PROVE TypeOK'
  BY <1>3 DEF AdmitAllow, Goto, PCs, lockVars
<1>4. ASSUME NEW r \in Runs, AdmitGate(r) PROVE TypeOK'
  BY <1>4 DEF AdmitGate, Goto, PCs
<1>5. ASSUME NEW r \in Runs, NotAdmitted(r) PROVE TypeOK'
  BY <1>5 DEF NotAdmitted, Goto, PCs, lockVars
<1>6. ASSUME NEW r \in Runs, Begin(r) PROVE TypeOK'
  <2>1. outbox' \in Seq(Messages)
    BY <1>6, MessageTypes DEF Begin
  <2>2. jobBusy' \in [Jobs -> Nat]
    BY <1>6, RunsAssumption DEF Begin
  <2> QED BY <1>6, <2>1, <2>2 DEF Begin, Goto, PCs
<1>7. ASSUME NEW r \in Runs, StartProcess(r) PROVE TypeOK'
  <2>1. PICK n \in NoteCounts :
          /\ outbox' = outbox \o Preamble(r, n)
          /\ lines' = [lines EXCEPT ![r].stderr = n]
    BY <1>7 DEF StartProcess
  <2>2. outbox' \in Seq(Messages)
    BY <2>1, PreambleType
  <2>3. n \in Nat
    BY DEF NoteCounts
  <2>4. lines' \in [Runs -> [Streams -> Nat]]
    BY <2>1, <2>3 DEF Streams
  <2> QED BY <1>7, <2>2, <2>4 DEF StartProcess, Goto, PCs, lockVars
<1>8. ASSUME NEW r \in Runs, StartFails(r) PROVE TypeOK'
  <2>1. PICK n \in NoteCounts : outbox' = outbox \o Preamble(r, n)
    BY <1>8 DEF StartFails
  <2>2. outbox' \in Seq(Messages)
    BY <2>1, PreambleType
  <2>3. Conclude(r, "failed")
    BY <1>8 DEF StartFails
  <2> QED BY <1>8, <2>2, <2>3, ConcludeType DEF StartFails, lockVars, Statuses
<1>9. ASSUME NEW r \in Runs, NEW s \in Streams, PumpLine(r, s) PROVE TypeOK'
  <2>1. Base(r) + lines[r][s] \in Nat
    BY BaseType
  <2>2. Chunk(r, s, Base(r) + lines[r][s], attempt[r], "line") \in Messages
    BY <2>1, MessageTypes
  <2>3. outbox' \in Seq(Messages)
    BY <1>9, <2>2 DEF PumpLine
  <2>4. lines' \in [Runs -> [Streams -> Nat]]
    BY <1>9 DEF PumpLine
  <2> QED BY <1>9, <2>3, <2>4 DEF PumpLine, lockVars
<1>10. ASSUME NEW r \in Runs, Deadline(r) PROVE TypeOK'
  BY <1>10 DEF Deadline, lockVars
<1>11. ASSUME NEW r \in Runs, Exit(r) PROVE TypeOK'
  <2>1. PICK s \in ExitStatus(r) : Conclude(r, s)
    BY <1>11 DEF Exit
  <2>2. s \in Statuses
    BY DEF ExitStatus, Statuses
  <2> QED BY <1>11, <2>1, <2>2, ConcludeType DEF Exit, lockVars
<1>12. ASSUME NEW r \in Runs, BackoffOver(r) PROVE TypeOK'
  BY <1>12 DEF BackoffOver, Goto, PCs, lockVars
<1>13. ASSUME NEW r \in Runs, BackoffCanceled(r) PROVE TypeOK'
  BY <1>13 DEF BackoffCanceled, Goto, PCs, lockVars
<1>14. ASSUME NEW r \in Runs, Finish(r) PROVE TypeOK'
  <2>1. result[r] \in Statuses
    BY <1>14 DEF Finish, Goto, ResultKnown
  <2>2. outbox' \in Seq(Messages)
    BY <1>14, <2>1, MessageTypes DEF Finish
  <2> QED BY <1>14, <2>2 DEF Finish, Goto, PCs, lockVars
<1>15. ASSUME NEW r \in Runs, Release(r) PROVE TypeOK'
  <2>1. jobBusy' \in [Jobs -> Nat]
    BY <1>15, RunsAssumption DEF Release, ReleaseWith, LessBusy
  <2>2. gate' \in [Jobs -> BOOLEAN]
    BY <1>15, RunsAssumption DEF Release, ReleaseWith, FreeSlot
  <2> QED BY <1>15, <2>1, <2>2 DEF Release, ReleaseWith, Goto, PCs
<1>16. ASSUME NEW r \in Runs, CancelRun(r) PROVE TypeOK'
  BY <1>16 DEF CancelRun, lockVars
<1>17. ASSUME NEW j \in Jobs, NEW d \in Defs \cup {NoDef}, ApplySync(j, d) PROVE TypeOK'
  BY <1>17, RunsAssumption DEF ApplySync, runVars, lockVars
<1>18. CASE Connect
  BY <1>18 DEF Connect, runVars, lockVars
<1>19. CASE Drop
  BY <1>19 DEF Drop, lockVars
<1>20. CASE Crash
  BY <1>20 DEF Crash, PCs, Over
<1>21. CASE UNCHANGED vars
  BY <1>21 DEF vars
<1> QED
  BY <1>1, <1>2, <1>3, <1>4, <1>5, <1>6, <1>7, <1>8, <1>9, <1>10, <1>11, <1>12,
     <1>13, <1>14, <1>15, <1>16, <1>17, <1>18, <1>19, <1>20, <1>21
  DEF Next, Step

\* The same, for ResultKnown: only an attempt's end leads to a pause or a
\* report, and it stores the result.
LEMMA ResultStep == TypeOK /\ ResultKnown /\ [Next]_vars => ResultKnown'
<1> SUFFICES ASSUME TypeOK, ResultKnown, [Next]_vars PROVE ResultKnown'
  OBVIOUS
<1> USE DEF ResultKnown
<1>1. ASSUME NEW r \in Runs, NEW s \in Statuses, Conclude(r, s) PROVE ResultKnown'
  BY <1>1 DEF Conclude, RetryIf, TypeOK
<1>2. ASSUME NEW r \in Runs, Exit(r) PROVE ResultKnown'
  <2>1. PICK s \in ExitStatus(r) : Conclude(r, s)
    BY <1>2 DEF Exit
  <2>2. s \in Statuses
    BY DEF ExitStatus, Statuses
  <2> QED BY <2>1, <2>2, <1>1
<1>3. ASSUME NEW r \in Runs, StartFails(r) PROVE ResultKnown'
  BY <1>3, <1>1 DEF StartFails, Statuses
<1>4. ASSUME NEW r \in Runs, Step(r), ~Exit(r), ~StartFails(r) PROVE ResultKnown'
  BY <1>4 DEF Step, Lookup, AdmitAllow, AdmitGate, NotAdmitted, Begin, StartProcess,
       BackoffOver, BackoffCanceled, Finish, Release, ReleaseWith, Goto, TypeOK
<1>5. ASSUME NEW r \in Runs, NEW t \in Sources, Fire(r, t) PROVE ResultKnown'
  BY <1>5 DEF Fire, Goto, TypeOK
<1>6. ASSUME NEW r \in Runs, (\E s \in Streams : PumpLine(r, s)) \/ Deadline(r) \/ CancelRun(r)
      PROVE ResultKnown'
  BY <1>6 DEF PumpLine, Deadline, CancelRun
<1>7. ASSUME NEW j \in Jobs, NEW d \in Defs \cup {NoDef}, ApplySync(j, d) PROVE ResultKnown'
  BY <1>7 DEF ApplySync, runVars
<1>8. CASE Connect \/ Drop \/ Crash
  BY <1>8 DEF Connect, Drop, Crash, runVars, Over
<1>9. CASE UNCHANGED vars
  BY <1>9 DEF vars
<1> QED BY <1>2, <1>3, <1>4, <1>5, <1>6, <1>7, <1>8, <1>9 DEF Next

LEMMA InitTyped == Init => TypeOK /\ ResultKnown
<1> SUFFICES ASSUME Init PROVE TypeOK /\ ResultKnown
  OBVIOUS
<1>1. outbox \in Seq(Messages)
  BY DEF Init
<1>2. TypeOK
  <2>1. /\ pc \in [Runs -> PCs] /\ def \in [Runs -> Defs \cup {NoDef}]
        /\ trigger \in [Runs -> Triggers \cup {"none"}]
        /\ result \in [Runs -> Statuses \cup {"none"}]
    BY DEF Init, PCs
  <2>2. /\ ctxDone \in [Runs -> BOOLEAN] /\ deadline \in [Runs -> BOOLEAN]
        /\ gate \in [Jobs -> BOOLEAN] /\ connected \in BOOLEAN
    BY DEF Init
  <2>3. /\ attempt \in [Runs -> 0..MaxRetries] /\ syncs \in 0..MaxSyncs
        /\ jobBusy \in [Jobs -> Nat] /\ lines \in [Runs -> [Streams -> Nat]]
    BY RunsAssumption DEF Init
  <2> QED BY <1>1, <2>1, <2>2, <2>3 DEF Init, TypeOK
<1>3. ResultKnown
  BY DEF Init, ResultKnown
<1> QED BY <1>2, <1>3

\* The type invariant of the agent's runs (TypeOK of the runs).
THEOREM TypeCorrect == Spec => []TypeOK
<1>1. Spec => [](TypeOK /\ ResultKnown)
  BY InitTyped, TypeStep, ResultStep, PTL DEF Spec
<1> QED BY <1>1, PTL

-----------------------------------------------------------------------------
(***************************************************************************)
(* Mutual exclusion.  Exclusive alone is not inductive: a run enters when  *)
(* it finds the slot empty, so an empty slot has to mean that nobody holds *)
(* it, which is SlotAccounted; and SlotAccounted needs Exclusive when a    *)
(* run empties the slot, which nobody else may still hold.                 *)
(***************************************************************************)
SlotInv == Exclusive /\ SlotAccounted

\* Steps that leave policies alone and move no run into or out of the held
\* region keep both parts.
LEMMA SlotFrame ==
  ASSUME TypeOK, SlotInv, gate' = gate,
         \A r \in Runs : Holds(r)' <=> Holds(r)
  PROVE  SlotInv'
BY DEF SlotInv, Exclusive, SlotAccounted

\* Each step keeps the slot invariant: only AdmitGate, Release and Crash
\* touch the slot.
LEMMA SlotStep == TypeOK /\ SlotInv /\ [Next]_vars => SlotInv'
<1> SUFFICES ASSUME TypeOK, SlotInv, [Next]_vars PROVE SlotInv'
  OBVIOUS
<1>1. ASSUME NEW r \in Runs, AdmitGate(r) PROVE SlotInv'
  <2>1. \A q \in Runs : JobOf[q] = JobOf[r] => ~Holds(q)
    BY <1>1, RunsAssumption DEF AdmitGate, SlotInv, SlotAccounted
  <2>2. \A q \in Runs : Holds(q)' <=> (q = r \/ Holds(q))
    BY <1>1 DEF AdmitGate, Goto, Holds, Gated, Admitted, TypeOK
  <2>3. gate' = [gate EXCEPT ![JobOf[r]] = TRUE]
    BY <1>1 DEF AdmitGate
  <2>4. Exclusive'
    BY <2>1, <2>2 DEF SlotInv, Exclusive
  <2>5. SlotAccounted'
    <3>1. ASSUME NEW j \in Jobs
          PROVE gate'[j] <=> \E q \in Runs : JobOf[q] = j /\ Holds(q)'
      <4>1. CASE j = JobOf[r]
        BY <4>1, <2>2, <2>3 DEF TypeOK
      <4>2. CASE j # JobOf[r]
        <5>1. gate'[j] = gate[j]
          BY <4>2, <2>3 DEF TypeOK
        <5> QED BY <5>1, <4>2, <2>2 DEF SlotInv, SlotAccounted
      <4> QED BY <4>1, <4>2
    <3> QED BY <3>1 DEF SlotAccounted
  <2> QED BY <2>4, <2>5 DEF SlotInv
<1>2. ASSUME NEW r \in Runs, Release(r) PROVE SlotInv'
  <2>1. \A q \in Runs : Holds(q)' <=> (q # r /\ Holds(q))
    BY <1>2 DEF Release, ReleaseWith, Goto, Holds, Gated, Admitted, TypeOK
  <2>2. CASE def[r].policy = "allow"
    <3>1. ~Holds(r) /\ gate' = gate
      BY <1>2, <2>2 DEF Holds, Gated, Release, ReleaseWith
    <3> QED BY <2>1, <3>1, SlotFrame
  <2>3. CASE def[r].policy # "allow"
    <3>1. Holds(r)
      BY <1>2, <2>3 DEF Release, ReleaseWith, Goto, Holds, Gated, Admitted
    <3>2. gate' = [gate EXCEPT ![JobOf[r]] = FALSE]
      BY <1>2, <2>3 DEF Release, ReleaseWith, FreeSlot
    <3> QED BY <2>1, <3>1, <3>2, RunsAssumption
            DEF SlotInv, Exclusive, SlotAccounted, TypeOK
  <2> QED BY <2>2, <2>3
<1>3. CASE Crash
  BY <1>3 DEF Crash, SlotInv, Exclusive, SlotAccounted, Holds, Gated, Admitted, Over,
       TypeOK
<1>4. ASSUME NEW r \in Runs, Step(r), ~AdmitGate(r), ~Release(r) PROVE SlotInv'
  <2>1. gate' = gate
    BY <1>4 DEF Step, Lookup, AdmitAllow, NotAdmitted, Begin, StartProcess, StartFails,
         Exit, BackoffOver, BackoffCanceled, Finish, lockVars
  <2>2. CASE Lookup(r)
    <3>1. \A q \in Runs : Holds(q)' <=> Holds(q)
      BY <2>2 DEF Lookup, Goto, Holds, Gated, Admitted, TypeOK
    <3> QED BY <2>1, <3>1, SlotFrame
  <2>3. CASE ~Lookup(r)
    <3>1. def' = def
      BY <1>4, <2>3 DEF Step, AdmitAllow, NotAdmitted, Begin, StartProcess, StartFails,
           Exit, BackoffOver, BackoffCanceled, Finish
    <3>2. \A q \in Runs : q # r => pc'[q] = pc[q]
      BY <1>4, <2>3 DEF Step, AdmitAllow, NotAdmitted, Begin, StartProcess, StartFails,
           Exit, Conclude, RetryIf, BackoffOver, BackoffCanceled, Finish, Goto, TypeOK
    <3>3. Holds(r)' <=> Holds(r)
      BY <1>4, <2>3 DEF Step, AdmitAllow, NotAdmitted, Begin, StartProcess, StartFails,
           Exit, Conclude, RetryIf, BackoffOver, BackoffCanceled, Finish, Goto, TypeOK,
           Holds, Gated, Admitted
    <3>4. \A q \in Runs : Holds(q)' <=> Holds(q)
      BY <3>1, <3>2, <3>3 DEF Holds, Gated
    <3> QED BY <2>1, <3>4, SlotFrame
  <2> QED BY <2>2, <2>3
<1>5. ASSUME NEW r \in Runs, NEW t \in Sources, Fire(r, t) PROVE SlotInv'
  <2>1. \A q \in Runs : Holds(q)' <=> Holds(q)
    BY <1>5 DEF Fire, Goto, Holds, Gated, Admitted, TypeOK
  <2> QED BY <1>5, <2>1, SlotFrame DEF Fire, lockVars
<1>6. CASE UNCHANGED <<pc, def, gate>>
  BY <1>6, SlotFrame DEF Holds, Gated
<1>7. ASSUME NEW r \in Runs,
             (\E s \in Streams : PumpLine(r, s)) \/ Deadline(r) \/ CancelRun(r)
      PROVE  UNCHANGED <<pc, def, gate>>
  BY <1>7 DEF PumpLine, Deadline, CancelRun, lockVars
<1>8. ASSUME NEW j \in Jobs, NEW d \in Defs \cup {NoDef}, ApplySync(j, d)
      PROVE  UNCHANGED <<pc, def, gate>>
  BY <1>8 DEF ApplySync, runVars, lockVars
<1>9. ASSUME Connect \/ Drop \/ UNCHANGED vars PROVE UNCHANGED <<pc, def, gate>>
  BY <1>9 DEF Connect, Drop, vars, runVars, lockVars
<1> QED BY <1>1, <1>2, <1>3, <1>4, <1>5, <1>6, <1>7, <1>8, <1>9 DEF Next

\* Gated runs of one job never overlap and the slot is never leaked, in every
\* behaviour of executeRun, for any number of runs and jobs.
THEOREM MutualExclusion == Spec => [](Exclusive /\ SlotAccounted)
<1>1. Init => SlotInv
  BY DEF Init, SlotInv, Exclusive, SlotAccounted, Holds, Gated, Admitted
<1>2. Spec => []SlotInv
  BY <1>1, SlotStep, TypeCorrect, PTL DEF Spec
<1> QED BY <1>2, PTL DEF SlotInv

-----------------------------------------------------------------------------
(***************************************************************************)
(* Why a run ended.  A run's attempts stay within its retries; its context *)
(* ends only by a cancellation or, for a manual run, with the connection;  *)
(* and only a run whose context ended is reported canceled.                *)
(***************************************************************************)
EndInv ==
  \A r \in Runs :
    /\ pc[r] = "idle" => trigger[r] = "none"
    /\ pc[r] \in {"idle", "lookup"} => attempt[r] = 0
    /\ attempt[r] <= def[r].retries
    /\ ctxDone[r] => r \in cancelled \/ trigger[r] = "manual"
    /\ result[r] = "canceled" => ctxDone[r]

\* A conclusion counts an attempt only while retries are left and stores its
\* status; a failure is final only without any left.
LEMMA ConcludeEnd ==
  ASSUME TypeOK, EndInv, FailedMeansExhausted, NEW r \in Runs, NEW s \in Statuses,
         s = "canceled" => ctxDone[r], pc[r] \in {"attempt", "running"},
         Conclude(r, s), UNCHANGED <<trigger, def, ctxDone, cancelled>>
  PROVE  EndInv' /\ FailedMeansExhausted'
<1>1. /\ attempt[r] \in Nat /\ def[r].retries \in Nat /\ MaxRetries \in Nat
  BY RunsAssumption DEF TypeOK, Defs, NoDef
<1>2. \A q \in Runs \ {r} :
        pc'[q] = pc[q] /\ attempt'[q] = attempt[q] /\ result'[q] = result[q]
  BY DEF Conclude, RetryIf, TypeOK
<1>3. result'[r] = s
  BY DEF Conclude, RetryIf, TypeOK
<1>4. CASE s = "failed" /\ attempt[r] < def[r].retries
  <2>1. pc'[r] = "backoff" /\ attempt'[r] = attempt[r] + 1
    BY <1>4 DEF Conclude, RetryIf, TypeOK
  <2>2. EndInv'
    BY <1>1, <1>2, <1>3, <1>4, <2>1 DEF EndInv
  <2>3. FailedMeansExhausted'
    BY <1>2, <2>1 DEF FailedMeansExhausted
  <2> QED BY <2>2, <2>3
<1>5. CASE ~(s = "failed" /\ attempt[r] < def[r].retries)
  <2>1. pc'[r] = "finish" /\ attempt' = attempt
    BY <1>5 DEF Conclude, RetryIf, TypeOK
  <2>2. EndInv'
    BY <1>2, <1>3, <2>1 DEF EndInv
  <2>3. s = "failed" => attempt[r] = def[r].retries
    BY <1>1, <1>5 DEF EndInv
  <2>4. FailedMeansExhausted'
    BY <1>2, <1>3, <2>1, <2>3 DEF FailedMeansExhausted
  <2> QED BY <2>2, <2>4
<1> QED BY <1>4, <1>5

LEMMA EndStep ==
  TypeOK /\ EndInv /\ FailedMeansExhausted /\ [Next]_vars => EndInv' /\ FailedMeansExhausted'
<1> SUFFICES ASSUME TypeOK, EndInv, FailedMeansExhausted, [Next]_vars
             PROVE  EndInv' /\ FailedMeansExhausted'
  OBVIOUS
<1> DEFINE Goal == EndInv' /\ FailedMeansExhausted'
<1>1. ASSUME NEW r \in Runs, NEW t \in Sources, Fire(r, t) PROVE Goal
  BY <1>1, RunsAssumption DEF Fire, Goto, TypeOK, EndInv, FailedMeansExhausted
<1>2. ASSUME NEW r \in Runs, Lookup(r) PROVE Goal
  <2>1. /\ pc[r] = "lookup" /\ pc'[r] \in {"dropped", "admit"}
        /\ def'[r] = jobs[JobOf[r]] /\ def'[r].retries \in Nat
        /\ \A q \in Runs \ {r} : pc'[q] = pc[q] /\ def'[q] = def[q]
        /\ UNCHANGED <<trigger, ctxDone, attempt, result, cancelled>>
    <3>1. jobs[JobOf[r]].retries \in Nat
      <4>1. jobs[JobOf[r]] \in Defs \cup {NoDef}
        BY RunsAssumption DEF TypeOK
      <4> QED BY <4>1, RunsAssumption DEF Defs, NoDef
    <3>2. pc[r] = "lookup" /\ pc'[r] \in {"dropped", "admit"}
          /\ \A q \in Runs \ {r} : pc'[q] = pc[q]
      BY <1>2 DEF Lookup, Goto, TypeOK
    <3>3. def'[r] = jobs[JobOf[r]] /\ \A q \in Runs \ {r} : def'[q] = def[q]
      BY <1>2 DEF Lookup, TypeOK
    <3> QED BY <1>2, <3>1, <3>2, <3>3 DEF Lookup
  <2>2. 0 <= def'[r].retries
    BY <2>1
  <2> QED BY <2>1, <2>2 DEF EndInv, FailedMeansExhausted
<1>3. ASSUME NEW r \in Runs,
             AdmitAllow(r) \/ AdmitGate(r) \/ NotAdmitted(r) \/ Begin(r) \/ BackoffOver(r)
      PROVE  Goal
  BY <1>3 DEF AdmitAllow, AdmitGate, NotAdmitted, Begin, BackoffOver, Goto, TypeOK, EndInv,
     FailedMeansExhausted
<1>4. ASSUME NEW r \in Runs, StartProcess(r) PROVE Goal
  BY <1>4 DEF StartProcess, Goto, TypeOK, EndInv, FailedMeansExhausted
<1>5. ASSUME NEW r \in Runs, StartFails(r) PROVE Goal
  <2>1. "failed" \in Statuses /\ "failed" # "canceled"
    BY DEF Statuses
  <2> QED BY <1>5, <2>1, ConcludeEnd DEF StartFails
<1>6. ASSUME NEW r \in Runs, Exit(r) PROVE Goal
  <2>1. PICK s \in ExitStatus(r) : Conclude(r, s)
    BY <1>6 DEF Exit
  <2>2. s \in Statuses /\ (s = "canceled" => ctxDone[r])
    BY DEF ExitStatus, Statuses
  <2> QED BY <1>6, <2>1, <2>2, ConcludeEnd DEF Exit
<1>7. ASSUME NEW r \in Runs, BackoffCanceled(r) PROVE Goal
  BY <1>7 DEF BackoffCanceled, Goto, TypeOK, EndInv, FailedMeansExhausted
<1>8. ASSUME NEW r \in Runs, Finish(r) \/ Release(r) PROVE Goal
  BY <1>8 DEF Finish, Release, ReleaseWith, Goto, TypeOK, EndInv, FailedMeansExhausted
<1>9. ASSUME NEW r \in Runs, (\E s \in Streams : PumpLine(r, s)) \/ Deadline(r) PROVE Goal
  BY <1>9 DEF PumpLine, Deadline, EndInv, FailedMeansExhausted
<1>10. ASSUME NEW r \in Runs, CancelRun(r) PROVE Goal
  <2>1. /\ \A q \in Runs : ctxDone'[q] = IF q = r THEN TRUE ELSE ctxDone[q]
        /\ cancelled' = cancelled \cup {r}
        /\ UNCHANGED <<pc, trigger, def, attempt, result>>
    BY <1>10 DEF CancelRun, TypeOK
  <2> QED BY <2>1 DEF EndInv, FailedMeansExhausted
<1>11. ASSUME NEW j \in Jobs, NEW d \in Defs \cup {NoDef}, ApplySync(j, d) PROVE Goal
  BY <1>11 DEF ApplySync, runVars, EndInv, FailedMeansExhausted
<1>12. CASE Connect \/ UNCHANGED vars
  BY <1>12 DEF Connect, runVars, vars, EndInv, FailedMeansExhausted
<1>13. CASE Drop
  <2>1. /\ \A q \in Runs : ctxDone'[q] <=> (ctxDone[q] \/ (trigger[q] = "manual" /\ pc[q] \notin Over))
        /\ UNCHANGED <<pc, trigger, def, attempt, result, cancelled>>
    BY <1>13 DEF Drop
  <2> QED BY <2>1 DEF EndInv, FailedMeansExhausted
<1>14. CASE Crash
  <2>1. /\ \A q \in Runs : pc'[q] = pc[q] \/ pc'[q] = "dead"
        /\ UNCHANGED <<trigger, def, ctxDone, attempt, result, cancelled>>
    BY <1>14 DEF Crash
  <2> QED BY <2>1 DEF EndInv, FailedMeansExhausted
<1> QED
  BY <1>1, <1>2, <1>3, <1>4, <1>5, <1>6, <1>7, <1>8, <1>9, <1>10, <1>11, <1>12, <1>13, <1>14
  DEF Next, Step

-----------------------------------------------------------------------------
(***************************************************************************)
(* What a run reports.  Nothing before it begins, no end while it works,   *)
(* and its result once it is through.                                      *)
(***************************************************************************)
Before   == {"idle", "lookup", "admit", "begin", "dropped"}
Working  == {"attempt", "running", "backoff", "finish"}
Through  == {"release", "done"}

Phases ==
  \A r \in Runs :
    /\ pc[r] \in Before => \A i \in 1..Len(outbox) : outbox[i].run # r
    /\ pc[r] \in Working =>
         \A i \in 1..Len(outbox) : outbox[i].run = r => outbox[i].kind # "RunFinished"
    /\ pc[r] \in Through => \E i \in 1..Len(outbox) : outbox[i] = Finished(r, result[r])

\* The first part of Envelope.
Enclosed ==
  \A i, k \in 1..Len(outbox) :
    (i # k /\ outbox[i].run = outbox[k].run) =>
      /\ outbox[i].kind = "RunStarted" => i < k
      /\ outbox[i].kind = "RunFinished" => k < i

\* SerialReports, and CanceledHasCause, over the positions of the outbox.
Serial ==
  \A i, k \in 1..Len(outbox) :
    (/\ i < k
     /\ outbox[i].kind = "RunStarted" /\ outbox[k].kind = "RunStarted"
     /\ JobOf[outbox[i].run] = JobOf[outbox[k].run]
     /\ Gated(outbox[i].run) /\ Gated(outbox[k].run)
     /\ pc[outbox[i].run] # "dead")
    => \E m \in 1..Len(outbox) :
         i < m /\ m < k /\ outbox[m] = Finished(outbox[i].run, result[outbox[i].run])

Causes ==
  \A i \in 1..Len(outbox) :
    (outbox[i].kind = "RunFinished" /\ outbox[i].status = "canceled")
      => outbox[i].run \in cancelled \/ trigger[outbox[i].run] = "manual"

ReportInv == Phases /\ Enclosed /\ Serial /\ Causes

\* How a step that reports neither a start nor an end may move the runs.
Moves ==
  /\ cancelled \subseteq cancelled'
  /\ \A r \in Runs :
       /\ pc'[r] \in Before => pc[r] \in Before
       /\ pc'[r] \in Working => pc[r] \in Working
       /\ pc'[r] \in Through => pc[r] \in Through /\ result'[r] = result[r]
       /\ pc[r] = "dead" => pc'[r] = "dead"
       /\ pc[r] # "lookup" => def'[r] = def[r]
       /\ pc[r] # "idle" => trigger'[r] = trigger[r]

\* Output and notes of a working run change nothing about starts and ends.
LEMMA LogStep ==
  ASSUME TypeOK, TypeOK', ReportInv, Moves, NEW r \in Runs, NEW es \in Seq(Messages),
         outbox' = outbox \o es,
         \A i \in 1..Len(es) : es[i].run = r /\ es[i].kind = "LogChunk" /\ pc[r] \in Working
  PROVE  ReportInv'
<1>1. outbox \in Seq(Messages)
  BY DEF TypeOK
<1>2. /\ Len(outbox) \in Nat /\ Len(es) \in Nat /\ Len(outbox') = Len(outbox) + Len(es)
      /\ \A i \in 1..Len(outbox') :
           outbox'[i] = IF i <= Len(outbox) THEN outbox[i] ELSE es[i - Len(outbox)]
  <2> HIDE DEF Messages
  <2> QED BY <1>1, ConcatProperties, LenProperties
<1>3. /\ 1..Len(outbox) \subseteq 1..Len(outbox')
      /\ \A i \in 1..Len(outbox) : outbox'[i] = outbox[i]
      /\ \A i \in 1..Len(outbox') :
           \/ i \in 1..Len(outbox)
           \/ /\ outbox'[i].run = r /\ outbox'[i].kind = "LogChunk" /\ pc[r] \in Working
              /\ \A k \in 1..Len(outbox) : k < i
  <2>1. \A i \in 1..Len(outbox') : i \in 1..Len(outbox) \/ i - Len(outbox) \in 1..Len(es)
    BY <1>2
  <2> QED BY <1>2, <2>1
<1>4. \A i \in 1..Len(outbox) : outbox[i].run \in Runs
  BY <1>1, ElementOfSeq DEF Messages, Started, Finished
<1>5. \A q \in Runs : pc'[q] \in Before \cup Working \cup Through \cup {"dead"}
  BY DEF TypeOK, PCs, Before, Working, Through
<1>6. Working \cap Before = {} /\ Working \cap Through = {} /\ Before \cap Through = {}
      /\ "idle" \in Before /\ "lookup" \in Before /\ "dead" \notin Before \cup Working \cup Through
  BY DEF Before, Working, Through
<1> HIDE DEF Before, Working, Through
<1>7. Phases'
  <2> SUFFICES ASSUME NEW q \in Runs
               PROVE  /\ pc'[q] \in Before => \A i \in 1..Len(outbox') : outbox'[i].run # q
                      /\ pc'[q] \in Working => \A i \in 1..Len(outbox') :
                           outbox'[i].run = q => outbox'[i].kind # "RunFinished"
                      /\ pc'[q] \in Through => \E i \in 1..Len(outbox') :
                           outbox'[i] = Finished(q, result'[q])
    BY DEF Phases
  <2>1. pc'[q] \in Before => \A i \in 1..Len(outbox') : outbox'[i].run # q
    BY <1>3, <1>6 DEF Moves, ReportInv, Phases
  <2>2. pc'[q] \in Working =>
          \A i \in 1..Len(outbox') : outbox'[i].run = q => outbox'[i].kind # "RunFinished"
    BY <1>3 DEF Moves, ReportInv, Phases
  <2>3. pc'[q] \in Through => \E i \in 1..Len(outbox') : outbox'[i] = Finished(q, result'[q])
    <3>1. SUFFICES ASSUME pc'[q] \in Through
                   PROVE  \E i \in 1..Len(outbox') : outbox'[i] = Finished(q, result'[q])
      OBVIOUS
    <3>2. pc[q] \in Through /\ result'[q] = result[q]
      BY <3>1 DEF Moves
    <3>3. PICK i \in 1..Len(outbox) : outbox[i] = Finished(q, result[q])
      BY <3>2 DEF ReportInv, Phases
    <3> QED BY <1>3, <3>2, <3>3
  <2> QED BY <2>1, <2>2, <2>3
<1>8. Enclosed'
  <2> SUFFICES ASSUME NEW i \in 1..Len(outbox'), NEW k \in 1..Len(outbox'),
                      i # k, outbox'[i].run = outbox'[k].run
               PROVE  /\ outbox'[i].kind = "RunStarted" => i < k
                      /\ outbox'[i].kind = "RunFinished" => k < i
    BY DEF Enclosed
  <2>1. CASE i \notin 1..Len(outbox)
    BY <1>3, <2>1
  <2>2. CASE i \in 1..Len(outbox) /\ k \in 1..Len(outbox)
    BY <1>3, <2>2 DEF ReportInv, Enclosed
  <2>3. CASE i \in 1..Len(outbox) /\ k \notin 1..Len(outbox)
    <3>1. i < k /\ outbox[i].run = r /\ pc[r] \in Working /\ outbox'[i] = outbox[i]
      BY <1>3, <2>3
    <3>2. outbox[i].kind # "RunFinished"
      BY <2>3, <3>1 DEF ReportInv, Phases
    <3> QED BY <3>1, <3>2
  <2> QED BY <2>1, <2>2, <2>3
<1>9. Serial'
  <2> SUFFICES ASSUME NEW i \in 1..Len(outbox'), NEW k \in 1..Len(outbox'), i < k,
                      outbox'[i].kind = "RunStarted", outbox'[k].kind = "RunStarted",
                      JobOf[outbox'[i].run] = JobOf[outbox'[k].run],
                      def'[outbox'[i].run].policy # "allow",
                      def'[outbox'[k].run].policy # "allow",
                      pc'[outbox'[i].run] # "dead"
               PROVE  \E m \in 1..Len(outbox') : /\ i < m /\ m < k
                        /\ outbox'[m] = Finished(outbox'[i].run, result'[outbox'[i].run])
    BY ZenonT(30) DEF Serial, Gated
  <2>1. i \in 1..Len(outbox) /\ k \in 1..Len(outbox)
        /\ outbox'[i] = outbox[i] /\ outbox'[k] = outbox[k]
    BY <1>3
  <2> DEFINE p == outbox[i].run
             q == outbox[k].run
  <2>2. p \in Runs /\ q \in Runs /\ pc[p] \notin Before /\ pc[q] \notin Before
    BY <1>4, <2>1 DEF ReportInv, Phases
  <2>3. Gated(p) /\ Gated(q) /\ pc[p] # "dead"
    <3>1. /\ def'[p].policy # "allow" /\ def'[q].policy # "allow" /\ pc'[p] # "dead"
      BY <2>1
    <3>2. pc[p] # "lookup" /\ pc[q] # "lookup"
      BY <1>6, <2>2
    <3>3. def'[p] = def[p] /\ def'[q] = def[q] /\ (pc[p] = "dead" => pc'[p] = "dead")
      BY <2>2, <3>2 DEF Moves
    <3> QED BY <3>1, <3>3 DEF Gated
  <2>4. PICK m \in 1..Len(outbox) : i < m /\ m < k /\ outbox[m] = Finished(p, result[p])
    <3>1. /\ outbox[i].kind = "RunStarted" /\ outbox[k].kind = "RunStarted"
          /\ JobOf[outbox[i].run] = JobOf[outbox[k].run]
      BY <2>1
    <3> QED BY <2>1, <2>3, <3>1 DEF ReportInv, Serial
  <2>5. outbox[m].run = p /\ outbox[m].kind = "RunFinished"
    BY <2>4 DEF Finished
  <2>6. pc[p] \notin Working
    BY <2>2, <2>5 DEF ReportInv, Phases
  <2>7. result'[p] = result[p]
    BY <1>5, <2>1, <2>2, <2>6 DEF Moves
  <2> QED BY <1>3, <2>1, <2>4, <2>7
<1>10. Causes'
  <2> SUFFICES ASSUME NEW i \in 1..Len(outbox'),
                      outbox'[i].kind = "RunFinished", outbox'[i].status = "canceled"
               PROVE  outbox'[i].run \in cancelled' \/ trigger'[outbox'[i].run] = "manual"
    BY DEF Causes
  <2>1. i \in 1..Len(outbox) /\ outbox'[i] = outbox[i]
    BY <1>3
  <2>2. outbox[i].run \in Runs /\ pc[outbox[i].run] # "idle"
    BY <1>4, <1>6, <2>1 DEF ReportInv, Phases
  <2> QED BY <2>1, <2>2 DEF ReportInv, Causes, Moves
<1> QED BY <1>7, <1>8, <1>9, <1>10 DEF ReportInv

\* The positions of the outbox after one more message.
LEMMA OneMore ==
  ASSUME TypeOK, NEW msg \in Messages, outbox' = Append(outbox, msg)
  PROVE  /\ Len(outbox) \in Nat /\ Len(outbox') = Len(outbox) + 1
         /\ \A i \in 1..Len(outbox) : outbox'[i] = outbox[i] /\ i \in 1..Len(outbox')
         /\ outbox'[Len(outbox')] = msg /\ Len(outbox') \in 1..Len(outbox')
         /\ \A i \in 1..Len(outbox') : i \in 1..Len(outbox) \/ i = Len(outbox')
         /\ \A i \in 1..Len(outbox) : outbox[i].run \in Runs /\ i < Len(outbox')
<1>1. outbox \in Seq(Messages)
  BY DEF TypeOK
<1>2. \A i \in 1..Len(outbox) : outbox[i].run \in Runs
  BY <1>1, ElementOfSeq DEF Messages, Started, Finished
<1> HIDE DEF Messages
<1>3. /\ Len(outbox) \in Nat /\ Len(outbox') = Len(outbox) + 1
      /\ \A i \in 1..Len(outbox) : outbox'[i] = outbox[i]
      /\ outbox'[Len(outbox) + 1] = msg
  BY <1>1, AppendProperties, LenProperties
<1> QED BY <1>2, <1>3

\* A run begins with its start, which nothing of it precedes.  If its job has a
\* slot, no gated run of the job is between begin and release, by Exclusive; so
\* every one that has started is through, and has reported its end.
LEMMA BeginStep ==
  ASSUME TypeOK, Exclusive, ReportInv, NEW r \in Runs, Begin(r)
  PROVE  ReportInv'
<1>1. /\ pc[r] = "begin" /\ pc'[r] = "attempt"
      /\ \A q \in Runs \ {r} : pc'[q] = pc[q]
      /\ outbox' = Append(outbox, Started(r)) /\ UNCHANGED <<trigger, def, result, cancelled>>
  BY DEF Begin, Goto, TypeOK
<1>2. /\ Len(outbox) \in Nat /\ Len(outbox') = Len(outbox) + 1
      /\ \A i \in 1..Len(outbox) : outbox'[i] = outbox[i] /\ i \in 1..Len(outbox')
      /\ outbox'[Len(outbox')] = Started(r) /\ Len(outbox') \in 1..Len(outbox')
      /\ \A i \in 1..Len(outbox') : i \in 1..Len(outbox) \/ i = Len(outbox')
      /\ \A i \in 1..Len(outbox) : outbox[i].run \in Runs /\ i < Len(outbox')
  BY <1>1, MessageTypes, OneMore
<1>3. Started(r).run = r /\ Started(r).kind = "RunStarted"
  BY DEF Started
<1>4. \A i \in 1..Len(outbox) : outbox[i].run # r
  BY <1>1 DEF ReportInv, Phases, Before
<1>5. Phases'
  <2> SUFFICES ASSUME NEW q \in Runs
               PROVE  /\ pc'[q] \in Before => \A i \in 1..Len(outbox') : outbox'[i].run # q
                      /\ pc'[q] \in Working => \A i \in 1..Len(outbox') :
                           outbox'[i].run = q => outbox'[i].kind # "RunFinished"
                      /\ pc'[q] \in Through => \E i \in 1..Len(outbox') :
                           outbox'[i] = Finished(q, result'[q])
    BY DEF Phases
  <2>1. CASE q = r
    BY <1>1, <1>2, <1>3, <1>4, <2>1 DEF Before, Through
  <2>2. CASE q # r
    BY <1>1, <1>2, <1>3, <2>2 DEF ReportInv, Phases
  <2> QED BY <2>1, <2>2
<1>6. Enclosed'
  BY <1>2, <1>3, <1>4 DEF ReportInv, Enclosed
<1>7. Serial'
  <2> SUFFICES ASSUME NEW i \in 1..Len(outbox'), NEW k \in 1..Len(outbox'), i < k,
                      outbox'[i].kind = "RunStarted", outbox'[k].kind = "RunStarted",
                      JobOf[outbox'[i].run] = JobOf[outbox'[k].run],
                      def[outbox'[i].run].policy # "allow",
                      def[outbox'[k].run].policy # "allow",
                      pc'[outbox'[i].run] # "dead"
               PROVE  \E m \in 1..Len(outbox') : /\ i < m /\ m < k
                        /\ outbox'[m] = Finished(outbox'[i].run, result[outbox'[i].run])
    BY <1>1 DEF Serial, Gated
  <2>1. i \in 1..Len(outbox) /\ outbox'[i] = outbox[i]
    BY <1>2
  <2> DEFINE p == outbox[i].run
  <2>2. p \in Runs \ {r} /\ pc'[p] = pc[p] /\ pc[p] # "dead"
    BY <1>1, <1>2, <1>4, <2>1
  <2>3. CASE k \in 1..Len(outbox)
    <3>1. outbox'[k] = outbox[k] /\ outbox[k].run \in Runs
      BY <1>2, <2>3
    <3>2. PICK m \in 1..Len(outbox) : i < m /\ m < k /\ outbox[m] = Finished(p, result[p])
      BY <2>1, <2>2, <2>3, <3>1 DEF ReportInv, Serial, Gated
    <3> QED BY <1>2, <2>1, <3>2
  <2>4. CASE k = Len(outbox')
    <3>1. outbox'[k].run = r
      BY <1>2, <1>3, <2>4
    <3>2. Holds(r) /\ JobOf[p] = JobOf[r] /\ def[p].policy # "allow"
      BY <1>1, <2>1, <3>1 DEF Holds, Gated, Admitted
    <3>3. pc[p] \notin Admitted
      BY <2>2, <3>2 DEF Exclusive, Holds, Gated
    <3>4. pc[p] \notin Before
      BY <2>1, <2>2 DEF ReportInv, Phases
    <3>5. pc[p] = "done"
      BY <2>2, <3>3, <3>4 DEF TypeOK, PCs, Admitted, Before
    <3>6. PICK m \in 1..Len(outbox) : outbox[m] = Finished(p, result[p])
      BY <2>2, <3>5 DEF ReportInv, Phases, Through
    <3>7. outbox[m].run = p /\ m # i
      BY <2>1, <3>6 DEF Finished
    <3>8. i < m /\ m < k
      BY <1>2, <2>1, <2>4, <3>6, <3>7 DEF ReportInv, Enclosed
    <3> QED BY <1>2, <2>1, <3>6, <3>8
  <2> QED BY <1>2, <2>3, <2>4
<1>8. Causes'
  BY <1>1, <1>2, <1>3 DEF ReportInv, Causes
<1> QED BY <1>5, <1>6, <1>7, <1>8 DEF ReportInv

\* A run ends with its report, which nothing of it follows.
LEMMA FinishStep ==
  ASSUME TypeOK, ResultKnown, EndInv, ReportInv, NEW r \in Runs, Finish(r)
  PROVE  ReportInv'
<1>1. /\ pc[r] = "finish" /\ pc'[r] = "release"
      /\ \A q \in Runs \ {r} : pc'[q] = pc[q]
      /\ outbox' = Append(outbox, Finished(r, result[r]))
      /\ UNCHANGED <<trigger, def, result, cancelled>>
  BY DEF Finish, Goto, TypeOK
<1>2. /\ Len(outbox) \in Nat /\ Len(outbox') = Len(outbox) + 1
      /\ \A i \in 1..Len(outbox) : outbox'[i] = outbox[i] /\ i \in 1..Len(outbox')
      /\ outbox'[Len(outbox')] = Finished(r, result[r]) /\ Len(outbox') \in 1..Len(outbox')
      /\ \A i \in 1..Len(outbox') : i \in 1..Len(outbox) \/ i = Len(outbox')
      /\ \A i \in 1..Len(outbox) : outbox[i].run \in Runs /\ i < Len(outbox')
  <2>1. Finished(r, result[r]) \in Messages
    BY <1>1, MessageTypes DEF ResultKnown
  <2> QED BY <1>1, <2>1, OneMore
<1>3. /\ Finished(r, result[r]).run = r /\ Finished(r, result[r]).kind = "RunFinished"
      /\ Finished(r, result[r]).status = result[r]
  BY DEF Finished
<1>4. \A i \in 1..Len(outbox) : outbox[i].run = r => outbox[i].kind # "RunFinished"
  BY <1>1 DEF ReportInv, Phases, Working
<1>5. Phases'
  <2> SUFFICES ASSUME NEW q \in Runs
               PROVE  /\ pc'[q] \in Before => \A i \in 1..Len(outbox') : outbox'[i].run # q
                      /\ pc'[q] \in Working => \A i \in 1..Len(outbox') :
                           outbox'[i].run = q => outbox'[i].kind # "RunFinished"
                      /\ pc'[q] \in Through => \E i \in 1..Len(outbox') :
                           outbox'[i] = Finished(q, result'[q])
    BY DEF Phases
  <2>1. CASE q = r
    BY <1>1, <1>2, <2>1 DEF Before, Working
  <2>2. CASE q # r
    BY <1>1, <1>2, <1>3, <2>2 DEF ReportInv, Phases
  <2> QED BY <2>1, <2>2
<1>6. Enclosed'
  BY <1>2, <1>3, <1>4 DEF ReportInv, Enclosed
<1>7. Serial'
  <2> SUFFICES ASSUME NEW i \in 1..Len(outbox'), NEW k \in 1..Len(outbox'), i < k,
                      outbox'[i].kind = "RunStarted", outbox'[k].kind = "RunStarted",
                      JobOf[outbox'[i].run] = JobOf[outbox'[k].run],
                      def[outbox'[i].run].policy # "allow",
                      def[outbox'[k].run].policy # "allow",
                      pc'[outbox'[i].run] # "dead"
               PROVE  \E m \in 1..Len(outbox') : /\ i < m /\ m < k
                        /\ outbox'[m] = Finished(outbox'[i].run, result[outbox'[i].run])
    BY <1>1 DEF Serial, Gated
  <2>1. i \in 1..Len(outbox) /\ k \in 1..Len(outbox)
        /\ outbox'[i] = outbox[i] /\ outbox'[k] = outbox[k]
    BY <1>2, <1>3
  <2> DEFINE p == outbox[i].run
  <2>2. p \in Runs /\ pc[p] # "dead"
    BY <1>1, <1>2, <2>1
  <2>3. PICK m \in 1..Len(outbox) : i < m /\ m < k /\ outbox[m] = Finished(p, result[p])
    BY <2>1, <2>2 DEF ReportInv, Serial, Gated
  <2> QED BY <1>2, <2>1, <2>3
<1>8. Causes'
  <2>1. result[r] = "canceled" => r \in cancelled \/ trigger[r] = "manual"
    BY DEF EndInv
  <2> QED BY <1>1, <1>2, <1>3, <2>1 DEF ReportInv, Causes
<1> QED BY <1>5, <1>6, <1>7, <1>8 DEF ReportInv

\* What a run logs before its process starts is notes.
LEMMA PreambleLogs ==
  ASSUME TypeOK, NEW r \in Runs, NEW n \in NoteCounts
  PROVE  /\ Preamble(r, n) \in Seq(Messages)
         /\ \A i \in 1..Len(Preamble(r, n)) :
              Preamble(r, n)[i].run = r /\ Preamble(r, n)[i].kind = "LogChunk"
<1> DEFINE Logs == { m \in Messages : m.run = r /\ m.kind = "LogChunk" }
<1>1. Preamble(r, n) \in Seq(Messages)
  BY PreambleType
<1>2. n \in {0, 1} /\ attempt[r] \in 0..MaxRetries /\ Base(r) \in Nat
  BY RunsAssumption, BaseType DEF NoteCounts, TypeOK
<1>3. \A q \in Nat, w \in {"retry", "note"} : Chunk(r, "stderr", q, attempt[r], w) \in Logs
  <2>1. \A q \in Nat, w \in {"retry", "note"} :
          Chunk(r, "stderr", q, attempt[r], w) \in Messages
    BY <1>2, MessageTypes DEF Streams
  <2> QED BY <2>1 DEF Chunk
<1>4. \A i \in 1..n : Base(r) + (i - 1) \in Nat
  BY <1>2
<1> DEFINE notes == [i \in 1..n |-> Chunk(r, "stderr", Base(r) + (i - 1), attempt[r], "note")]
           retry == IF attempt[r] > 0
                    THEN << Chunk(r, "stderr", Base(r), attempt[r], "retry") >> ELSE << >>
<1> HIDE DEF Logs
<1>5. notes \in Seq(Logs)
  BY <1>2, <1>3, <1>4
<1>6. retry \in Seq(Logs)
  BY <1>2, <1>3
<1>7. Preamble(r, n) = retry \o notes
  BY DEF Preamble
<1>8. Preamble(r, n) \in Seq(Logs)
  BY <1>5, <1>6, <1>7, ConcatProperties
<1>9. \A i \in 1..Len(Preamble(r, n)) : Preamble(r, n)[i] \in Logs
  BY <1>8, ElementOfSeq
<1> QED BY <1>1, <1>9 DEF Logs

\* An attempt that ends goes to its pause or to its report.
LEMMA ConcludeMoves ==
  ASSUME TypeOK, NEW r \in Runs, NEW s, Conclude(r, s), pc[r] \in Working,
         UNCHANGED <<trigger, def, cancelled>>
  PROVE  Moves
<1>1. pc'[r] \in Working /\ \A q \in Runs \ {r} : pc'[q] = pc[q] /\ result'[q] = result[q]
  BY DEF Conclude, RetryIf, TypeOK, Working
<1> QED BY <1>1 DEF Moves, Before, Working, Through

\* Every step keeps what is known of the reports.
LEMMA ReportStep ==
  TypeOK /\ ResultKnown /\ EndInv /\ Exclusive /\ ReportInv /\ [Next]_vars => ReportInv'
<1> SUFFICES ASSUME TypeOK, ResultKnown, EndInv, Exclusive, ReportInv, [Next]_vars
             PROVE  ReportInv'
  OBVIOUS
<1>0. TypeOK'
  BY TypeStep
<1>1. ASSUME NEW r \in Runs, Begin(r) PROVE ReportInv'
  BY <1>1, BeginStep
<1>2. ASSUME NEW r \in Runs, Finish(r) PROVE ReportInv'
  BY <1>2, FinishStep
<1>3. ASSUME NEW r \in Runs, StartProcess(r) PROVE ReportInv'
  <2>1. PICK n \in NoteCounts : outbox' = outbox \o Preamble(r, n)
    BY <1>3 DEF StartProcess
  <2>2. Moves /\ pc[r] \in Working
    BY <1>3 DEF StartProcess, Goto, Moves, Before, Working, Through, TypeOK
  <2> QED BY <1>0, <2>1, <2>2, PreambleLogs, LogStep
<1>4. ASSUME NEW r \in Runs, StartFails(r) PROVE ReportInv'
  <2>1. PICK n \in NoteCounts : outbox' = outbox \o Preamble(r, n)
    BY <1>4 DEF StartFails
  <2>2. Moves /\ pc[r] \in Working
    BY <1>4, ConcludeMoves DEF StartFails, Working
  <2> QED BY <1>0, <2>1, <2>2, PreambleLogs, LogStep, SMTT(30)
<1>5. ASSUME NEW r \in Runs, NEW s \in Streams, PumpLine(r, s) PROVE ReportInv'
  <2> DEFINE msg == Chunk(r, s, Base(r) + lines[r][s], attempt[r], "line")
  <2>1. msg \in Messages /\ msg.run = r /\ msg.kind = "LogChunk"
    <3>1. Base(r) + lines[r][s] \in Nat /\ attempt[r] \in 0..MaxRetries
      BY BaseType DEF TypeOK
    <3>2. msg \in Messages
      BY <3>1, MessageTypes
    <3> QED BY <3>2 DEF Chunk
  <2>2. outbox' = Append(outbox, msg)
    BY <1>5 DEF PumpLine
  <2> HIDE DEF msg
  <2>3. outbox' = outbox \o <<msg>>
    <3>1. outbox \in Seq(Messages)
      BY DEF TypeOK
    <3> HIDE DEF Messages
    <3> QED BY <2>1, <2>2, <3>1, AppendIsConcat
  <2>4. Moves /\ pc[r] \in Working
    BY <1>5 DEF PumpLine, Moves, Working
  <2>5. /\ <<msg>> \in Seq(Messages)
        /\ \A i \in 1..Len(<<msg>>) : <<msg>>[i].run = r /\ <<msg>>[i].kind = "LogChunk"
    <3> HIDE DEF Messages
    <3> QED BY <2>1
  <2> QED BY <1>0, <2>3, <2>4, <2>5, LogStep
<1>6. ASSUME Moves, outbox' = outbox PROVE ReportInv'
  <2>1. outbox \in Seq(Messages)
    BY DEF TypeOK
  <2> DEFINE es == << >>
  <2>2. outbox' = outbox \o es /\ es \in Seq(Messages) /\ \A i \in 1..Len(es) : FALSE
    <3> HIDE DEF Messages
    <3> QED BY <1>6, <2>1, ConcatEmptySeq
  <2> HIDE DEF es
  <2>3. CASE Runs = {}
    <3>1. \A i \in 1..Len(outbox) : outbox[i].run \in Runs
      BY <2>1, ElementOfSeq DEF Messages, Started, Finished
    <3>2. \A i \in 1..Len(outbox') : FALSE
      BY <1>6, <2>3, <3>1
    <3> QED BY <2>3, <3>2 DEF ReportInv, Phases, Enclosed, Serial, Causes
  <2>4. ASSUME NEW r \in Runs PROVE ReportInv'
    BY <1>0, <1>6, <2>2, LogStep
  <2> QED BY <2>3, <2>4
<1>7. ASSUME NEW r \in Runs, NEW t \in Sources, Fire(r, t) PROVE ReportInv'
  BY <1>6, <1>7 DEF Fire, Goto, Moves, Before, Working, Through, TypeOK
<1>8. ASSUME NEW r \in Runs,
             Lookup(r) \/ AdmitAllow(r) \/ AdmitGate(r) \/ NotAdmitted(r)
      PROVE  ReportInv'
  BY <1>6, <1>8 DEF Lookup, AdmitAllow, AdmitGate, NotAdmitted, Goto, Moves, Before,
     Working, Through, TypeOK
<1>9. ASSUME NEW r \in Runs, Exit(r) PROVE ReportInv'
  <2>1. PICK s \in ExitStatus(r) : Conclude(r, s)
    BY <1>9 DEF Exit
  <2>2. Moves /\ outbox' = outbox
    BY <1>9, <2>1, ConcludeMoves DEF Exit, Working
  <2> QED BY <1>6, <2>2
<1>10. ASSUME NEW r \in Runs, BackoffOver(r) \/ BackoffCanceled(r) \/ Release(r)
       PROVE  ReportInv'
  BY <1>6, <1>10 DEF BackoffOver, BackoffCanceled, Release, ReleaseWith, Goto, Moves, Before,
     Working, Through, TypeOK
<1>11. ASSUME NEW r \in Runs, Deadline(r) \/ CancelRun(r) PROVE ReportInv'
  BY <1>6, <1>11 DEF Deadline, CancelRun, Moves
<1>12. ASSUME NEW j \in Jobs, NEW d \in Defs \cup {NoDef}, ApplySync(j, d) PROVE ReportInv'
  BY <1>6, <1>12 DEF ApplySync, runVars, Moves
<1>13. CASE Connect \/ Drop \/ UNCHANGED vars
  BY <1>6, <1>13 DEF Connect, Drop, runVars, vars, Moves
<1>14. CASE Crash
  BY <1>6, <1>14 DEF Crash, Moves, Before, Working, Through, Over, TypeOK
<1> QED
  BY <1>1, <1>2, <1>3, <1>4, <1>5, <1>7, <1>8, <1>9, <1>10, <1>11, <1>12, <1>13, <1>14
  DEF Next, Step

LEMMA InitReports == Init => EndInv /\ FailedMeansExhausted /\ ReportInv
<1> SUFFICES ASSUME Init PROVE EndInv /\ FailedMeansExhausted /\ ReportInv
  OBVIOUS
<1>1. EndInv /\ FailedMeansExhausted
  BY DEF Init, EndInv, FailedMeansExhausted, NoDef
<1>2. outbox = << >> /\ \A r \in Runs : pc[r] = "idle"
  BY DEF Init
<1>3. ReportInv
  BY <1>2 DEF ReportInv, Phases, Enclosed, Serial, Causes, Before, Working, Through
<1> QED BY <1>1, <1>3

\* The properties over the domain of the outbox follow from those over its positions.
LEMMA ReportsRight == TypeOK /\ ReportInv => Envelope /\ SerialReports /\ CanceledHasCause
<1> SUFFICES ASSUME TypeOK, ReportInv PROVE Envelope /\ SerialReports /\ CanceledHasCause
  OBVIOUS
<1>1. DOMAIN outbox = 1..Len(outbox) /\ Len(outbox) \in Nat
  <2>1. outbox \in Seq(Messages)
    BY DEF TypeOK
  <2> HIDE DEF Messages
  <2> QED BY <2>1, LenProperties
<1>2. Envelope
  BY <1>1 DEF Envelope, ReportInv, Enclosed, Phases, Through
<1>3. SerialReports
  <2> SUFFICES ASSUME NEW i \in 1..Len(outbox), NEW k \in 1..Len(outbox), i < k,
                      outbox[i].kind = "RunStarted", outbox[k].kind = "RunStarted",
                      JobOf[outbox[i].run] = JobOf[outbox[k].run],
                      Gated(outbox[i].run), Gated(outbox[k].run),
                      pc[outbox[i].run] # "dead"
               PROVE  \E m \in (i+1)..(k-1) :
                        outbox[m] = Finished(outbox[i].run, result[outbox[i].run])
    BY <1>1 DEF SerialReports
  <2>1. PICK m \in 1..Len(outbox) :
          i < m /\ m < k /\ outbox[m] = Finished(outbox[i].run, result[outbox[i].run])
    BY DEF ReportInv, Serial
  <2>2. m \in (i+1)..(k-1)
    BY <1>1, <2>1
  <2> QED BY <2>1, <2>2
<1>4. CanceledHasCause
  BY <1>1 DEF CanceledHasCause, ReportInv, Causes
<1> QED BY <1>2, <1>3, <1>4

\* The slot is never leaked, every run is one envelope in the outbox, gated runs
\* are reported one after the other, "failed" means that no retry is left, and
\* a scheduled run is reported canceled only because it was canceled.
THEOREM Accounted == Spec => []RunsAccounted
<1>1. Spec => [](TypeOK /\ ResultKnown)
  BY InitTyped, TypeStep, ResultStep, PTL DEF Spec
<1>2. Spec => []Exclusive /\ []SlotAccounted
  BY MutualExclusion, PTL
<1>3. Spec => [](EndInv /\ FailedMeansExhausted)
  BY <1>1, InitReports, EndStep, PTL DEF Spec
<1>4. Spec => []ReportInv
  BY <1>1, <1>2, <1>3, InitReports, ReportStep, PTL DEF Spec
<1>5. TypeOK /\ ReportInv /\ SlotAccounted /\ FailedMeansExhausted => RunsAccounted
  BY ReportsRight DEF RunsAccounted
<1> QED BY <1>1, <1>2, <1>3, <1>4, <1>5, PTL
=============================================================================
