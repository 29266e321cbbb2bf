------------------------ MODULE ScheduleLedgerProofs ------------------------
(***************************************************************************)
(* The safety properties of ScheduleLedger, for any invocations, schedules *)
(* and processes.  The inductive invariant says what a goroutine at each   *)
(* place of Run and drive may rely on: only its starter fills the run      *)
(* directory, and what it is about to record was true when it looked and   *)
(* has stayed true.                                                        *)
(***************************************************************************)
EXTENDS ScheduleLedger, TLAPS

\* A goroutine at work belongs to a process and to an invocation.
WorkerOK ==
  \A w \in Worker : pc[w] # "off" => by[w] \in Host \cup Cli /\ on[w] \in Run

\* The invocation is admitted once, and by then nobody else works on it; the
\* directory is filled by the one goroutine that was admitted.
StarterOK ==
  /\ \A w \in Worker :
       /\ pc[w] = "insert" =>
            row[on[w]] = "none" /\ \A v \in Worker : v # w => on[v] # on[w]
       /\ pc[w] \notin {"off", "insert"} => row[on[w]] # "none"
       /\ pc[w] = "mkdir" => wf[on[w]] \in {"absent", "missing"}
       /\ pc[w] = "snapshot" => wf[on[w]] = "partial"
  /\ \A v, w \in Worker :
       v # w /\ {pc[v], pc[w]} \subseteq {"mkdir", "snapshot"} => on[v] # on[w]
  /\ \A r \in Run : row[r] = "none" => wf[r] = "absent"

\* What is about to be recorded.
GoalOK ==
  \A w \in Worker :
    /\ pc[w] = "finish" => goal[w] # "none"
    /\ goal[w] = "done" => wf[on[w]] = "completed" /\ on[w] \in receipt
    /\ goal[w] # "none" => pc[w] = "finish"

\* beat.lock of a run is held by a goroutine exactly while it beats that run:
\* no two beats of a run overlap, and no return, stop or crash forgets a lock.
LockOK ==
  \A w \in Worker :
    /\ pc[w] \in {"beating", "confirming"} => held[on[w]] = w
    /\ \A r \in Run : held[r] = w => pc[w] \in {"beating", "confirming"} /\ on[w] = r

LedgerInductive ==
  /\ TypeOK /\ WorkerOK /\ StarterOK /\ GoalOK /\ LockOK
  /\ SkipAlone /\ ClockOwned /\ DoneIsDelivered

\* What every end of a beat does to the files of its run.
LEMMA EndsTypes ==
  ASSUME TypeOK, NEW q \in Run, Ends(q)
  PROVE  /\ receipt' \subseteq Run /\ receipt \subseteq receipt' /\ wf' = wf
         /\ held' \in [Run -> Worker \cup {Other, Helper, NoOne}]
         /\ faults' \in 0..MaxFaults
  <1>1. held' \in [Run -> Worker \cup {Other, Helper, NoOne}] /\ wf' = wf
    BY DEF Ends, TypeOK
  <1>2. receipt' \subseteq Run /\ receipt \subseteq receipt'
    BY DEF Ends, TypeOK
  <1>3. faults' = faults \/ (faults < MaxFaults /\ faults' = faults + 1)
    BY Zenon DEF Ends, Fault
  <1>4. faults' \in 0..MaxFaults
    BY <1>3, ScheduleAssumption DEF TypeOK
  <1>5. QED
    BY <1>1, <1>2, <1>4

\* Every step preserves the types.
LEMMA NextTypeOK ==
  ASSUME TypeOK, WorkerOK, [Next]_vars
  PROVE  TypeOK'
  <1>1. CASE UNCHANGED vars
    BY <1>1, ScheduleAssumption DEF TypeOK, WorkPc, Stage, Live, Ended,
       WorkerOK, vars, runVars, hostVars, workVars
  <1>2. ASSUME NEW w \in Worker, StartScheduleRun(w)
       PROVE  TypeOK'
    BY <1>2, ScheduleAssumption DEF TypeOK, WorkPc, Stage, Live, Ended,
       WorkerOK, StartScheduleRun, Busy, Go, Return, runVars, hostVars
  <1>3. ASSUME NEW w \in Worker, StartRun(w)
       PROVE  TypeOK'
    BY <1>3, ScheduleAssumption DEF TypeOK, WorkPc, Stage, Live, Ended,
       WorkerOK, StartRun, Go, hostVars
  <1>4. ASSUME NEW w \in Worker, Look(w)
       PROVE  TypeOK'
    BY <1>4, ScheduleAssumption DEF TypeOK, WorkPc, Stage, Live, Ended,
       WorkerOK, Look, Go, Return, Finish, runVars, hostVars
  <1>5. ASSUME NEW w \in Worker, BeatTakes(w)
       PROVE  TypeOK'
    BY <1>5, ScheduleAssumption DEF TypeOK, WorkPc, Stage, Live, Ended,
       WorkerOK, BeatTakes, Go, Begins, hostVars
  <1>6. ASSUME NEW w \in Worker, BeatRefused(w)
       PROVE  TypeOK'
    BY <1>6, ScheduleAssumption DEF TypeOK, WorkPc, Stage, Live, Ended,
       WorkerOK, BeatRefused, Return, Finish, IfNotified, runVars, hostVars
  <1>7. ASSUME NEW w \in Worker, BeatReturns(w)
       PROVE  TypeOK'
    <2>0. Ends(on[w]) /\ on[w] \in Run
      BY <1>7 DEF BeatReturns, WorkerOK
    <2>1. /\ receipt' \subseteq Run /\ wf' = wf /\ faults' \in 0..MaxFaults
          /\ held' \in [Run -> Worker \cup {Other, Helper, NoOne}]
      BY <2>0, EndsTypes
    <2>2. /\ by' \in [Worker -> Host \cup Cli \cup {NoOne}]
          /\ on' \in [Worker -> Run \cup {NoOne}]
          /\ pc' \in [Worker -> WorkPc]
          /\ goal' \in [Worker -> {"none", "done", "failed"}]
      BY <1>7 DEF BeatReturns, Go, Return, TypeOK, WorkPc
    <2>3. UNCHANGED <<row, hostVars>>
      BY <1>7 DEF BeatReturns
    <2>4. QED
      BY <2>1, <2>2, <2>3 DEF TypeOK, hostVars
  <1>8. ASSUME NEW w \in Worker, Confirms(w)
       PROVE  TypeOK'
    <2>0. Ends(on[w]) /\ on[w] \in Run
      BY <1>8 DEF Confirms, WorkerOK
    <2>1. /\ receipt' \subseteq Run /\ wf' = wf /\ faults' \in 0..MaxFaults
          /\ held' \in [Run -> Worker \cup {Other, Helper, NoOne}]
      BY <2>0, EndsTypes
    <2>2. /\ by' \in [Worker -> Host \cup Cli \cup {NoOne}]
          /\ on' \in [Worker -> Run \cup {NoOne}]
          /\ pc' \in [Worker -> WorkPc]
          /\ goal' \in [Worker -> {"none", "done", "failed"}]
      BY <1>8 DEF Confirms, IfNotified, Finish, Return, TypeOK, WorkPc
    <2>3. UNCHANGED <<row, hostVars>>
      BY <1>8 DEF Confirms
    <2>4. QED
      BY <2>1, <2>2, <2>3 DEF TypeOK, hostVars
  <1>9. ASSUME NEW w \in Worker, FinishScheduleRun(w)
       PROVE  TypeOK'
    BY <1>9, ScheduleAssumption DEF TypeOK, WorkPc, Stage, Live, Ended,
       WorkerOK, FinishScheduleRun, Return, runVars, hostVars
  <1>10. ASSUME NEW w \in Worker, StartFails(w)
       PROVE  TypeOK'
    BY <1>10, ScheduleAssumption DEF TypeOK, WorkPc, Stage, Live, Ended,
       WorkerOK, StartFails, Finish, Fault, hostVars
  <1>11. ASSUME NEW w \in Worker, FinishFails(w)
       PROVE  TypeOK'
    BY <1>11, ScheduleAssumption DEF TypeOK, WorkPc, Stage, Live, Ended,
       WorkerOK, FinishFails, Return, Fault, runVars, hostVars
  <1>12. ASSUME NEW h \in Host, NEW w \in Worker, NEW r \in Run,
     Launch(h, w, r)
       PROVE  TypeOK'
    BY <1>12, ScheduleAssumption DEF TypeOK, WorkPc, Stage, Live, Ended,
       WorkerOK, Launch, Spawn, Unused, runVars, hostVars
  <1>13. ASSUME NEW h \in Host, NEW w \in Worker, NEW r \in Run,
     Reconcile(h, w, r)
       PROVE  TypeOK'
    BY <1>13, ScheduleAssumption DEF TypeOK, WorkPc, Stage, Live, Ended,
       WorkerOK, Reconcile, Spawn, runVars, hostVars
  <1>14. ASSUME NEW c \in Cli, NEW w \in Worker, NEW r \in Run,
     RunByHand(c, w, r)
       PROVE  TypeOK'
    BY <1>14, ScheduleAssumption DEF TypeOK, WorkPc, Stage, Live, Ended,
       WorkerOK, RunByHand, Spawn, Unused, runVars, hostVars
  <1>15. ASSUME NEW h \in Host, NEW declared \in {{}, Schedule},
     HostStart(h, declared)
       PROVE  TypeOK'
    BY <1>15, ScheduleAssumption DEF TypeOK, WorkPc, Stage, Live, Ended,
       WorkerOK, HostStart, runVars, workVars
  <1>16. ASSUME NEW h \in Host, HostStop(h)
       PROVE  TypeOK'
    BY <1>16, ScheduleAssumption DEF TypeOK, WorkPc, Stage, Live, Ended,
       WorkerOK, HostStop, Fault, runVars, workVars
  <1>17. ASSUME NEW h \in Host, ManagerClose(h)
       PROVE  TypeOK'
    BY <1>17, ScheduleAssumption DEF TypeOK, WorkPc, Stage, Live, Ended,
       WorkerOK, ManagerClose, runVars, workVars
  <1>18. ASSUME NEW w \in Worker, BeatMisleads(w)
       PROVE  TypeOK'
    BY <1>18, ScheduleAssumption DEF TypeOK, WorkPc, Stage, Live, Ended,
       WorkerOK, BeatMisleads, Go, Fault, runVars, hostVars
  <1>19. ASSUME NEW p \in Host \cup Cli, Crash(p)
       PROVE  TypeOK'
    <2>1. /\ host' \in [Host -> {"down", "up", "closing"}]
          /\ armed' \in [Host -> SUBSET Schedule]
          /\ clockLock' \in Host \cup {NoOne}
      BY <1>19 DEF TypeOK, Crash
    <2>2. /\ by' \in [Worker -> Host \cup Cli \cup {NoOne}]
          /\ on' \in [Worker -> Run \cup {NoOne}]
          /\ pc' \in [Worker -> WorkPc]
          /\ goal' \in [Worker -> {"none", "done", "failed"}]
      BY <1>19 DEF TypeOK, Crash, WorkPc
    <2>3. held' \in [Run -> Worker \cup {Other, Helper, NoOne}]
      BY <1>19 DEF TypeOK, Crash
    <2>4. faults' \in 0..MaxFaults
      BY <1>19, ScheduleAssumption DEF TypeOK, Crash, Fault
    <2>5. UNCHANGED <<row, wf, receipt>>
      BY <1>19 DEF Crash
    <2>6. QED
      BY <2>1, <2>2, <2>3, <2>4, <2>5 DEF TypeOK
  <1>20. ASSUME NEW r \in Run, OtherBeat(r)
       PROVE  TypeOK'
    BY <1>20, ScheduleAssumption DEF TypeOK, WorkPc, Stage, Live, Ended,
       WorkerOK, OtherBeat, Begins, hostVars, workVars
  <1>21. ASSUME NEW r \in Run, OtherBeatEnds(r)
       PROVE  TypeOK'
    <2>1. Ends(r)
      BY <1>21 DEF OtherBeatEnds
    <2>2. UNCHANGED <<row, hostVars, workVars>>
      BY <1>21 DEF OtherBeatEnds
    <2>3. QED
      BY <2>1, <2>2, EndsTypes DEF TypeOK, hostVars, workVars
  <1>22. ASSUME NEW r \in Run, OtherBeatDies(r)
       PROVE  TypeOK'
    BY <1>22, ScheduleAssumption DEF TypeOK, WorkPc, Stage, Live, Ended,
       WorkerOK, OtherBeatDies, Fault, hostVars, workVars
  <1>23. ASSUME NEW r \in Run, HelperExits(r)
       PROVE  TypeOK'
    BY <1>23, ScheduleAssumption DEF TypeOK, WorkPc, Stage, Live, Ended,
       WorkerOK, HelperExits, hostVars, workVars
  <1>24. ASSUME NEW r \in Run, Settles(r)
       PROVE  TypeOK'
    BY <1>24, ScheduleAssumption DEF TypeOK, WorkPc, Stage, Live, Ended,
       WorkerOK, Settles, hostVars, workVars
  <1>25. ASSUME NEW r \in Run, Age(r)
       PROVE  TypeOK'
    BY <1>25, ScheduleAssumption DEF TypeOK, WorkPc, Stage, Live, Ended,
       WorkerOK, Age, hostVars, workVars
  <1>26. ASSUME NEW r \in Run, Expire(r)
       PROVE  TypeOK'
    BY <1>26, ScheduleAssumption DEF TypeOK, WorkPc, Stage, Live, Ended,
       WorkerOK, Expire, hostVars, workVars
  <1>27. QED
    BY <1>1, <1>2, <1>3, <1>4, <1>5, <1>6, <1>7, <1>8, <1>9, <1>10, <1>11,
       <1>12, <1>13, <1>14, <1>15, <1>16, <1>17, <1>18, <1>19, <1>20, <1>21,
       <1>22, <1>23, <1>24, <1>25, <1>26 DEF Next, WorkStep

\* Goroutines and their processes.
LEMMA NextWorkerOK ==
  ASSUME TypeOK, WorkerOK, [Next]_vars
  PROVE  WorkerOK'
  <1>1. CASE UNCHANGED vars
    BY <1>1, ScheduleAssumption DEF TypeOK, WorkerOK, vars, runVars,
       hostVars, workVars
  <1>2. ASSUME NEW h \in Host, NEW declared \in {{}, Schedule},
     HostStart(h, declared)
       PROVE  WorkerOK'
    BY <1>2, ScheduleAssumption DEF TypeOK, WorkerOK, HostStart, runVars,
       hostVars, workVars
  <1>3. ASSUME NEW h \in Host, HostStop(h) \/ ManagerClose(h)
       PROVE  WorkerOK'
    BY <1>3, ScheduleAssumption DEF TypeOK, WorkerOK, HostStop, Fault,
       ManagerClose, runVars, hostVars, workVars
  <1>4. ASSUME NEW r \in Run, OtherBeat(r) \/ OtherBeatEnds(r) \/
     OtherBeatDies(r) \/ HelperExits(r) \/ Settles(r) \/ Age(r) \/ Expire(r)
       PROVE  WorkerOK'
    BY <1>4, ScheduleAssumption DEF TypeOK, WorkerOK, OtherBeat, Begins,
       OtherBeatEnds, Ends, Fault, OtherBeatDies, HelperExits, Settles, Age,
       Expire, runVars, hostVars, workVars
  <1>5. ASSUME NEW w \in Worker, StartScheduleRun(w)
       PROVE  WorkerOK'
    BY <1>5, ScheduleAssumption DEF TypeOK, WorkerOK, StartScheduleRun, Busy,
       Go, Return, runVars, hostVars
  <1>6. ASSUME NEW w \in Worker, StartRun(w)
       PROVE  WorkerOK'
    BY <1>6, ScheduleAssumption DEF TypeOK, WorkerOK, StartRun, Go, hostVars
  <1>7. ASSUME NEW w \in Worker, Look(w)
       PROVE  WorkerOK'
    BY <1>7, ScheduleAssumption DEF TypeOK, WorkerOK, Look, Go, Return,
       Finish, runVars, hostVars
  <1>8. ASSUME NEW w \in Worker, BeatTakes(w)
       PROVE  WorkerOK'
    BY <1>8, ScheduleAssumption DEF TypeOK, WorkerOK, BeatTakes, Go, Begins,
       hostVars
  <1>9. ASSUME NEW w \in Worker, BeatRefused(w)
       PROVE  WorkerOK'
    BY <1>9, ScheduleAssumption DEF TypeOK, WorkerOK, BeatRefused, Return,
       Finish, IfNotified, runVars, hostVars
  <1>10. ASSUME NEW w \in Worker, BeatReturns(w)
       PROVE  WorkerOK'
    BY <1>10, ScheduleAssumption DEF TypeOK, WorkerOK, BeatReturns, Go,
       Return, Ends, Fault, hostVars
  <1>11. ASSUME NEW w \in Worker, Confirms(w)
       PROVE  WorkerOK'
    BY <1>11, ScheduleAssumption DEF TypeOK, WorkerOK, Confirms, IfNotified,
       Finish, Return, Ends, Fault, hostVars
  <1>12. ASSUME NEW w \in Worker, FinishScheduleRun(w)
       PROVE  WorkerOK'
    BY <1>12, ScheduleAssumption DEF TypeOK, WorkerOK, FinishScheduleRun,
       Return, runVars, hostVars
  <1>13. ASSUME NEW w \in Worker, StartFails(w)
       PROVE  WorkerOK'
    BY <1>13, ScheduleAssumption DEF TypeOK, WorkerOK, StartFails, Finish,
       Fault, hostVars
  <1>14. ASSUME NEW w \in Worker, FinishFails(w)
       PROVE  WorkerOK'
    BY <1>14, ScheduleAssumption DEF TypeOK, WorkerOK, FinishFails, Return,
       Fault, runVars, hostVars
  <1>15. ASSUME NEW h \in Host, NEW w \in Worker, NEW r \in Run,
     Launch(h, w, r)
       PROVE  WorkerOK'
    BY <1>15, ScheduleAssumption DEF TypeOK, WorkerOK, Launch, Spawn, Unused,
       runVars, hostVars
  <1>16. ASSUME NEW h \in Host, NEW w \in Worker, NEW r \in Run,
     Reconcile(h, w, r)
       PROVE  WorkerOK'
    BY <1>16, ScheduleAssumption DEF TypeOK, WorkerOK, Reconcile, Spawn,
       runVars, hostVars
  <1>17. ASSUME NEW c \in Cli, NEW w \in Worker, NEW r \in Run,
     RunByHand(c, w, r)
       PROVE  WorkerOK'
    BY <1>17, ScheduleAssumption DEF TypeOK, WorkerOK, RunByHand, Spawn,
       Unused, runVars, hostVars
  <1>18. ASSUME NEW w \in Worker, BeatMisleads(w)
       PROVE  WorkerOK'
    BY <1>18, ScheduleAssumption DEF TypeOK, WorkerOK, BeatMisleads, Go,
       Fault, runVars, hostVars
  <1>19. ASSUME NEW p \in Host \cup Cli, Crash(p)
       PROVE  WorkerOK'
    BY <1>19, ScheduleAssumption DEF TypeOK, WorkerOK, Crash, Fault
  <1>20. QED
    BY <1>1, <1>2, <1>3, <1>4, <1>5, <1>6, <1>7, <1>8, <1>9, <1>10, <1>11,
       <1>12, <1>13, <1>14, <1>15, <1>16, <1>17, <1>18, <1>19 DEF Next,
       WorkStep

\* A run that has ended stays as it ended, a persisted notice stays.
LEMMA StepWf ==
  ASSUME TypeOK, WorkerOK, StarterOK, [Next]_vars
  PROVE  receipt \subseteq receipt' /\ \A q \in Run : wf[q] \in Ended => wf'[q] = wf[q]
  <1>1. CASE UNCHANGED vars
    BY <1>1, ScheduleAssumption DEF TypeOK, WorkerOK, StarterOK, Live, Ended,
       vars, runVars, hostVars, workVars
  <1>2. ASSUME NEW w \in Worker, StartScheduleRun(w) \/ Look(w) \/
     BeatRefused(w) \/ FinishScheduleRun(w) \/ FinishFails(w) \/
     BeatMisleads(w)
       PROVE  receipt \subseteq receipt' /\ \A q \in Run : wf[q] \in Ended => wf'[q] = wf[q]
    BY <1>2, ScheduleAssumption DEF TypeOK, WorkerOK, StarterOK, Live, Ended,
       StartScheduleRun, Busy, Go, Return, Look, Finish, BeatRefused,
       IfNotified, FinishScheduleRun, FinishFails, Fault, BeatMisleads,
       runVars, hostVars, workVars
  <1>3. ASSUME NEW h \in Host, NEW w \in Worker, NEW r \in Run,
     Launch(h, w, r) \/ Reconcile(h, w, r)
       PROVE  receipt \subseteq receipt' /\ \A q \in Run : wf[q] \in Ended => wf'[q] = wf[q]
    BY <1>3, ScheduleAssumption DEF TypeOK, WorkerOK, StarterOK, Live, Ended,
       Launch, Spawn, Unused, Reconcile, runVars, hostVars, workVars
  <1>4. ASSUME NEW c \in Cli, NEW w \in Worker, NEW r \in Run,
     RunByHand(c, w, r)
       PROVE  receipt \subseteq receipt' /\ \A q \in Run : wf[q] \in Ended => wf'[q] = wf[q]
    BY <1>4, ScheduleAssumption DEF TypeOK, WorkerOK, StarterOK, Live, Ended,
       RunByHand, Spawn, Unused, runVars, hostVars, workVars
  <1>5. ASSUME NEW h \in Host, NEW declared \in {{}, Schedule},
     HostStart(h, declared)
       PROVE  receipt \subseteq receipt' /\ \A q \in Run : wf[q] \in Ended => wf'[q] = wf[q]
    BY <1>5, ScheduleAssumption DEF TypeOK, WorkerOK, StarterOK, Live, Ended,
       HostStart, runVars, hostVars, workVars
  <1>6. ASSUME NEW h \in Host, HostStop(h) \/ ManagerClose(h)
       PROVE  receipt \subseteq receipt' /\ \A q \in Run : wf[q] \in Ended => wf'[q] = wf[q]
    BY <1>6, ScheduleAssumption DEF TypeOK, WorkerOK, StarterOK, Live, Ended,
       HostStop, Fault, ManagerClose, runVars, hostVars, workVars
  <1>7. ASSUME NEW p \in Host \cup Cli, Crash(p)
       PROVE  receipt \subseteq receipt' /\ \A q \in Run : wf[q] \in Ended => wf'[q] = wf[q]
    BY <1>7, ScheduleAssumption DEF TypeOK, WorkerOK, StarterOK, Live, Ended,
       Crash, Fault, runVars, hostVars, workVars
  <1>8. ASSUME NEW r \in Run, OtherBeatDies(r) \/ HelperExits(r)
       PROVE  receipt \subseteq receipt' /\ \A q \in Run : wf[q] \in Ended => wf'[q] = wf[q]
    BY <1>8, ScheduleAssumption DEF TypeOK, WorkerOK, StarterOK, Live, Ended,
       OtherBeatDies, Fault, HelperExits, runVars, hostVars, workVars
  <1>9. ASSUME NEW w \in Worker, StartRun(w)
       PROVE  receipt \subseteq receipt' /\ \A q \in Run : wf[q] \in Ended => wf'[q] = wf[q]
    BY <1>9, ScheduleAssumption DEF TypeOK, WorkerOK, StarterOK, Live, Ended,
       StartRun, Go, hostVars
  <1>10. ASSUME NEW w \in Worker, BeatTakes(w)
       PROVE  receipt \subseteq receipt' /\ \A q \in Run : wf[q] \in Ended => wf'[q] = wf[q]
    BY <1>10, ScheduleAssumption DEF TypeOK, WorkerOK, StarterOK, Live,
       Ended, BeatTakes, Go, Begins, hostVars
  <1>11. ASSUME NEW w \in Worker, BeatReturns(w)
       PROVE  receipt \subseteq receipt' /\ \A q \in Run : wf[q] \in Ended => wf'[q] = wf[q]
    BY <1>11, ScheduleAssumption DEF TypeOK, WorkerOK, StarterOK, Live,
       Ended, BeatReturns, Go, Return, Ends, Fault, hostVars
  <1>12. ASSUME NEW w \in Worker, Confirms(w)
       PROVE  receipt \subseteq receipt' /\ \A q \in Run : wf[q] \in Ended => wf'[q] = wf[q]
    BY <1>12, ScheduleAssumption DEF TypeOK, WorkerOK, StarterOK, Live,
       Ended, Confirms, IfNotified, Finish, Return, Ends, Fault, hostVars
  <1>13. ASSUME NEW w \in Worker, StartFails(w)
       PROVE  receipt \subseteq receipt' /\ \A q \in Run : wf[q] \in Ended => wf'[q] = wf[q]
    BY <1>13, ScheduleAssumption DEF TypeOK, WorkerOK, StarterOK, Live,
       Ended, StartFails, Finish, Fault, hostVars
  <1>14. ASSUME NEW r \in Run, OtherBeat(r)
       PROVE  receipt \subseteq receipt' /\ \A q \in Run : wf[q] \in Ended => wf'[q] = wf[q]
    BY <1>14, ScheduleAssumption DEF TypeOK, WorkerOK, StarterOK, Live,
       Ended, OtherBeat, Begins, hostVars, workVars
  <1>15. ASSUME NEW r \in Run, OtherBeatEnds(r)
       PROVE  receipt \subseteq receipt' /\ \A q \in Run : wf[q] \in Ended => wf'[q] = wf[q]
    BY <1>15, ScheduleAssumption DEF TypeOK, WorkerOK, StarterOK, Live,
       Ended, OtherBeatEnds, Ends, Fault, hostVars, workVars
  <1>16. ASSUME NEW r \in Run, Settles(r)
       PROVE  receipt \subseteq receipt' /\ \A q \in Run : wf[q] \in Ended => wf'[q] = wf[q]
    BY <1>16, ScheduleAssumption DEF TypeOK, WorkerOK, StarterOK, Live,
       Ended, Settles, hostVars, workVars
  <1>17. ASSUME NEW r \in Run, Age(r)
       PROVE  receipt \subseteq receipt' /\ \A q \in Run : wf[q] \in Ended => wf'[q] = wf[q]
    BY <1>17, ScheduleAssumption DEF TypeOK, WorkerOK, StarterOK, Live,
       Ended, Age, hostVars, workVars
  <1>18. ASSUME NEW r \in Run, Expire(r)
       PROVE  receipt \subseteq receipt' /\ \A q \in Run : wf[q] \in Ended => wf'[q] = wf[q]
    BY <1>18, ScheduleAssumption DEF TypeOK, WorkerOK, StarterOK, Live,
       Ended, Expire, hostVars, workVars
  <1>19. QED
    BY <1>1, <1>2, <1>3, <1>4, <1>5, <1>6, <1>7, <1>8, <1>9, <1>10, <1>11,
       <1>12, <1>13, <1>14, <1>15, <1>16, <1>17, <1>18 DEF Next, WorkStep

\* A goroutine that returns leaves the others where they are.
LEMMA ReturnStarterOK ==
  ASSUME TypeOK, WorkerOK, StarterOK, NEW w \in Worker, pc[w] # "off", Return(w),
         wf' = wf, \A r \in Run : row'[r] = "none" <=> row[r] = "none"
  PROVE  StarterOK'
  <1>1. /\ \A v \in Worker : v # w => pc'[v] = pc[v] /\ on'[v] = on[v]
        /\ pc'[w] = "off" /\ on'[w] = NoOne
    BY DEF Return, TypeOK
  <1>2. ASSUME NEW x \in Worker
        PROVE  /\ pc'[x] = "insert" =>
                    row'[on'[x]] = "none" /\ \A v \in Worker : v # x => on'[v] # on'[x]
               /\ pc'[x] \notin {"off", "insert"} => row'[on'[x]] # "none"
               /\ pc'[x] = "mkdir" => wf'[on'[x]] \in {"absent", "missing"}
               /\ pc'[x] = "snapshot" => wf'[on'[x]] = "partial"
    <2>1. CASE x = w
      BY <1>1, <2>1
    <2>2. CASE x # w
      <3>1. pc'[x] = pc[x] /\ on'[x] = on[x] /\ (pc[x] # "off" => on[x] \in Run)
        BY <1>1, <2>2 DEF WorkerOK
      <3>2. pc[x] = "insert" => \A v \in Worker : v # x => on'[v] # on[x]
        BY <1>1, <3>1, ScheduleAssumption DEF StarterOK
      <3>3. QED
        BY <3>1, <3>2 DEF StarterOK
    <2>3. QED
      BY <2>1, <2>2
  <1>3. \A u, v \in Worker :
          u # v /\ {pc'[u], pc'[v]} \subseteq {"mkdir", "snapshot"} => on'[u] # on'[v]
    BY <1>1 DEF StarterOK
  <1>4. QED
    BY <1>2, <1>3 DEF StarterOK
\* Who starts an invocation.
LEMMA NextStarterOK ==
  ASSUME TypeOK, WorkerOK, StarterOK, GoalOK, [Next]_vars
  PROVE  StarterOK'
  <1>1. CASE UNCHANGED vars
    BY <1>1, ScheduleAssumption DEF TypeOK, WorkerOK, StarterOK, GoalOK,
       Live, Ended, vars, runVars, hostVars, workVars
  <1>2. ASSUME NEW h \in Host, NEW declared \in {{}, Schedule},
     HostStart(h, declared)
       PROVE  StarterOK'
    BY <1>2, ScheduleAssumption DEF TypeOK, WorkerOK, StarterOK, GoalOK,
       Live, Ended, HostStart, runVars, hostVars, workVars
  <1>3. ASSUME NEW h \in Host, HostStop(h) \/ ManagerClose(h)
       PROVE  StarterOK'
    BY <1>3, ScheduleAssumption DEF TypeOK, WorkerOK, StarterOK, GoalOK,
       Live, Ended, HostStop, Fault, ManagerClose, runVars, hostVars,
       workVars
  <1>4. ASSUME NEW r \in Run, OtherBeatEnds(r) \/ OtherBeatDies(r) \/
     HelperExits(r)
       PROVE  StarterOK'
    BY <1>4, ScheduleAssumption DEF TypeOK, WorkerOK, StarterOK, GoalOK,
       Live, Ended, OtherBeatEnds, Ends, Fault, OtherBeatDies, HelperExits,
       runVars, hostVars, workVars
  <1>5. ASSUME NEW w \in Worker, StartScheduleRun(w)
       PROVE  StarterOK'
    <2>1. on[w] \in Run /\ pc[w] = "insert"
      BY <1>5 DEF StartScheduleRun, WorkerOK
    <2>2. UNCHANGED <<wf, goal>>
      BY <1>5, <2>1 DEF StartScheduleRun, runVars, Return, Go, GoalOK, TypeOK
    <2>3. CASE /\ Return(w) /\ UNCHANGED row
      BY <2>1, <2>2, <2>3, ReturnStarterOK
    <2>4. CASE /\ row' = [row EXCEPT ![on[w]] = "running"] /\ Go(w, "mkdir")
      <3>1. wf[on[w]] = "absent" /\ \A v \in Worker : v # w => on[v] # on[w]
        BY <2>1 DEF StarterOK
      <3>2. /\ on' = on /\ pc' = [pc EXCEPT ![w] = "mkdir"]
        BY <2>4 DEF Go
      <3>3. \A v \in Worker :
              /\ pc'[v] = "insert" => row'[on[v]] = "none"
              /\ pc'[v] \notin {"off", "insert"} => row'[on[v]] # "none"
              /\ pc'[v] = "mkdir" => wf[on[v]] \in {"absent", "missing"}
              /\ pc'[v] = "snapshot" => wf[on[v]] = "partial"
        BY <2>1, <2>4, <3>1, <3>2 DEF StarterOK, TypeOK, WorkerOK
      <3>4. QED
        BY <2>1, <2>2, <2>4, <3>1, <3>2, <3>3 DEF StarterOK, TypeOK, WorkerOK
    <2>5. QED
      BY <1>5, <2>3, <2>4 DEF StartScheduleRun
  <1>6. ASSUME NEW w \in Worker, StartRun(w)
       PROVE  StarterOK'
    <2>1. on[w] \in Run /\ pc[w] \in {"mkdir", "snapshot"} /\ row' = row /\ on' = on
      BY <1>6 DEF StartRun, WorkerOK, Go
    <2>2. \A v \in Worker :
            v # w /\ pc[v] \in {"mkdir", "snapshot"} => on[v] # on[w]
      BY <2>1 DEF StarterOK
    <2>3. row[on[w]] # "none"
      BY <2>1 DEF StarterOK
    <2>4. \A v \in Worker : v # w => pc'[v] = pc[v]
      BY <1>6 DEF StartRun, Go, TypeOK
    <2>5. \A r \in Run : r # on[w] => wf'[r] = wf[r]
      BY <1>6 DEF StartRun, TypeOK
    <2>6. \/ pc'[w] = "snapshot" /\ wf'[on[w]] = "partial"
          \/ pc'[w] = "look"
      BY <1>6, <2>1 DEF StartRun, Go, TypeOK
    <2>7. QED
      BY <2>1, <2>2, <2>3, <2>4, <2>5, <2>6 DEF StarterOK, WorkerOK, TypeOK
  <1>7. ASSUME NEW w \in Worker, Look(w)
       PROVE  StarterOK'
    BY <1>7, ScheduleAssumption DEF TypeOK, WorkerOK, StarterOK, GoalOK,
       Live, Ended, Look, Go, Return, Finish, runVars, hostVars
  <1>8. ASSUME NEW w \in Worker, BeatTakes(w)
       PROVE  StarterOK'
    <2>1. /\ on[w] \in Run /\ pc[w] \in {"beat", "confirm"}
          /\ UNCHANGED <<row, on>> /\ wf[on[w]] \in Live \cup Ended
      BY <1>8 DEF BeatTakes, Begins, Go, WorkerOK
    <2>2. /\ \A v \in Worker : v # w => pc'[v] = pc[v]
          /\ pc'[w] \in {"beating", "confirming"}
      BY <1>8 DEF BeatTakes, Go, TypeOK
    <2>3. \A r \in Run : wf'[r] = wf[r] \/ wf[r] \in Live \cup Ended
      BY <1>8 DEF BeatTakes, Begins, TypeOK
    <2>4. row[on[w]] # "none"
      BY <2>1 DEF StarterOK
    <2>5. QED
      BY <2>1, <2>2, <2>3, <2>4 DEF StarterOK, WorkerOK, Live, Ended
  <1>9. ASSUME NEW w \in Worker, BeatRefused(w)
       PROVE  StarterOK'
    BY <1>9, ScheduleAssumption DEF TypeOK, WorkerOK, StarterOK, GoalOK,
       Live, Ended, BeatRefused, Return, Finish, IfNotified, runVars,
       hostVars
  <1>10. ASSUME NEW w \in Worker, BeatReturns(w)
       PROVE  StarterOK'
    BY <1>10, ScheduleAssumption DEF TypeOK, WorkerOK, StarterOK, GoalOK,
       Live, Ended, BeatReturns, Go, Return, Ends, Fault, hostVars
  <1>11. ASSUME NEW w \in Worker, Confirms(w)
       PROVE  StarterOK'
    BY <1>11, ScheduleAssumption DEF TypeOK, WorkerOK, StarterOK, GoalOK,
       Live, Ended, Confirms, IfNotified, Finish, Return, Ends, Fault,
       hostVars
  <1>12. ASSUME NEW w \in Worker, FinishScheduleRun(w)
       PROVE  StarterOK'
    <2>1. on[w] \in Run /\ pc[w] = "finish" /\ goal[w] # "none" /\ wf' = wf
      BY <1>12 DEF FinishScheduleRun, WorkerOK, GoalOK, runVars
    <2>2. \A r \in Run : row'[r] = "none" <=> row[r] = "none"
      BY <1>12, <2>1 DEF FinishScheduleRun, TypeOK
    <2>3. Return(w)
      BY <1>12 DEF FinishScheduleRun
    <2>4. QED
      BY <2>1, <2>2, <2>3, ReturnStarterOK
  <1>13. ASSUME NEW w \in Worker, StartFails(w)
       PROVE  StarterOK'
    <2>1. on[w] \in Run /\ pc[w] \in {"mkdir", "snapshot"} /\ row' = row /\ on' = on
      BY <1>13 DEF StartFails, WorkerOK, Finish
    <2>2. \A v \in Worker :
            v # w /\ pc[v] \in {"mkdir", "snapshot"} => on[v] # on[w]
      BY <2>1 DEF StarterOK
    <2>3. row[on[w]] # "none"
      BY <2>1 DEF StarterOK
    <2>4. \A v \in Worker : v # w => pc'[v] = pc[v]
      BY <1>13 DEF StartFails, Finish, TypeOK
    <2>5. \A r \in Run : r # on[w] => wf'[r] = wf[r]
      BY <1>13 DEF StartFails, TypeOK
    <2>6. pc'[w] = "finish"
      BY <1>13, <2>1 DEF StartFails, Finish, TypeOK
    <2>7. QED
      BY <2>1, <2>2, <2>3, <2>4, <2>5, <2>6 DEF StarterOK, WorkerOK, TypeOK
  <1>14. ASSUME NEW w \in Worker, FinishFails(w)
       PROVE  StarterOK'
    BY <1>14, ScheduleAssumption DEF TypeOK, WorkerOK, StarterOK, GoalOK,
       Live, Ended, FinishFails, Return, Fault, runVars, hostVars
  <1>15. ASSUME NEW h \in Host, NEW w \in Worker, NEW r \in Run,
     Launch(h, w, r)
       PROVE  StarterOK'
    BY <1>15, ScheduleAssumption DEF TypeOK, WorkerOK, StarterOK, GoalOK,
       Live, Ended, Launch, Spawn, Unused, runVars, hostVars
  <1>16. ASSUME NEW h \in Host, NEW w \in Worker, NEW r \in Run,
     Reconcile(h, w, r)
       PROVE  StarterOK'
    BY <1>16, ScheduleAssumption DEF TypeOK, WorkerOK, StarterOK, GoalOK,
       Live, Ended, Reconcile, Spawn, runVars, hostVars
  <1>17. ASSUME NEW c \in Cli, NEW w \in Worker, NEW r \in Run,
     RunByHand(c, w, r)
       PROVE  StarterOK'
    BY <1>17, ScheduleAssumption DEF TypeOK, WorkerOK, StarterOK, GoalOK,
       Live, Ended, RunByHand, Spawn, Unused, runVars, hostVars
  <1>18. ASSUME NEW w \in Worker, BeatMisleads(w)
       PROVE  StarterOK'
    BY <1>18, ScheduleAssumption DEF TypeOK, WorkerOK, StarterOK, GoalOK,
       Live, Ended, BeatMisleads, Go, Fault, runVars, hostVars
  <1>19. ASSUME NEW p \in Host \cup Cli, Crash(p)
       PROVE  StarterOK'
    BY <1>19, ScheduleAssumption DEF TypeOK, WorkerOK, StarterOK, GoalOK,
       Live, Ended, Crash, Fault
  <1>20. ASSUME NEW r \in Run, OtherBeat(r)
       PROVE  StarterOK'
    <2>1. UNCHANGED <<row, pc, on>>
      BY <1>20 DEF OtherBeat, workVars
    <2>2. \A q \in Run : wf'[q] = wf[q] \/ wf[q] \in Live \cup Ended
      BY <1>20 DEF OtherBeat, Begins, TypeOK
    <2>3. QED
      BY <2>1, <2>2 DEF StarterOK, WorkerOK, Live, Ended
  <1>21. ASSUME NEW r \in Run, Settles(r)
       PROVE  StarterOK'
    BY <1>21, ScheduleAssumption DEF TypeOK, WorkerOK, StarterOK, GoalOK,
       Live, Ended, Settles, hostVars, workVars
  <1>22. ASSUME NEW r \in Run, Age(r)
       PROVE  StarterOK'
    BY <1>22, ScheduleAssumption DEF TypeOK, WorkerOK, StarterOK, GoalOK,
       Live, Ended, Age, hostVars, workVars
  <1>23. ASSUME NEW r \in Run, Expire(r)
       PROVE  StarterOK'
    BY <1>23, ScheduleAssumption DEF TypeOK, WorkerOK, StarterOK, GoalOK,
       Live, Ended, Expire, hostVars, workVars
  <1>24. QED
    BY <1>1, <1>2, <1>3, <1>4, <1>5, <1>6, <1>7, <1>8, <1>9, <1>10, <1>11,
       <1>12, <1>13, <1>14, <1>15, <1>16, <1>17, <1>18, <1>19, <1>20, <1>21,
       <1>22, <1>23 DEF Next, WorkStep

\* What is recorded is true.
LEMMA NextGoalOK ==
  ASSUME TypeOK, WorkerOK, StarterOK, GoalOK, [Next]_vars
  PROVE  GoalOK'
  <1>1. CASE UNCHANGED vars
    BY <1>1, ScheduleAssumption, StepWf DEF TypeOK, WorkerOK, GoalOK, Ended,
       vars, runVars, hostVars, workVars
  <1>2. ASSUME NEW h \in Host, NEW declared \in {{}, Schedule},
     HostStart(h, declared)
       PROVE  GoalOK'
    BY <1>2, ScheduleAssumption, StepWf DEF TypeOK, WorkerOK, GoalOK, Ended,
       HostStart, runVars, hostVars, workVars
  <1>3. ASSUME NEW h \in Host, HostStop(h) \/ ManagerClose(h)
       PROVE  GoalOK'
    BY <1>3, ScheduleAssumption, StepWf DEF TypeOK, WorkerOK, GoalOK, Ended,
       HostStop, Fault, ManagerClose, runVars, hostVars, workVars
  <1>4. ASSUME NEW r \in Run, OtherBeatDies(r) \/ HelperExits(r)
       PROVE  GoalOK'
    BY <1>4, ScheduleAssumption, StepWf DEF TypeOK, WorkerOK, GoalOK, Ended,
       OtherBeatDies, Fault, HelperExits, runVars, hostVars, workVars
  <1>5. ASSUME NEW w \in Worker, StartScheduleRun(w)
       PROVE  GoalOK'
    BY <1>5, ScheduleAssumption, StepWf DEF TypeOK, WorkerOK, GoalOK, Ended,
       StartScheduleRun, Busy, Go, Return, runVars, hostVars
  <1>6. ASSUME NEW w \in Worker, StartRun(w)
       PROVE  GoalOK'
    <2>1. UNCHANGED <<goal, on>> /\ \A v \in Worker : goal[v] # "none" => pc'[v] = pc[v]
      BY <1>6 DEF StartRun, Go, GoalOK, TypeOK
    <2>2. \A v \in Worker : pc'[v] = "finish" => pc[v] = "finish"
      BY <1>6 DEF StartRun, Go, TypeOK
    <2>3. QED
      BY <2>1, <2>2, StepWf DEF GoalOK, WorkerOK, Ended
  <1>7. ASSUME NEW w \in Worker, Look(w)
       PROVE  GoalOK'
    BY <1>7, ScheduleAssumption, StepWf DEF TypeOK, WorkerOK, GoalOK, Ended,
       Look, Go, Return, Finish, runVars, hostVars
  <1>8. ASSUME NEW w \in Worker, BeatTakes(w)
       PROVE  GoalOK'
    <2>1. on[w] \in Run /\ pc[w] \in {"beat", "confirm"} /\ goal' = goal /\ on' = on
      BY <1>8 DEF BeatTakes, WorkerOK, Go
    <2>2. pc'[w] \in {"beating", "confirming"} /\ \A v \in Worker : v # w => pc'[v] = pc[v]
      BY <1>8 DEF BeatTakes, Go, TypeOK
    <2>3. goal[w] = "none"
      BY <2>1 DEF GoalOK, TypeOK
    <2>4. QED
      BY <2>1, <2>2, <2>3, StepWf DEF GoalOK, WorkerOK, Ended
  <1>9. ASSUME NEW w \in Worker, BeatRefused(w)
       PROVE  GoalOK'
    BY <1>9, ScheduleAssumption, StepWf DEF TypeOK, WorkerOK, GoalOK, Ended,
       BeatRefused, Return, Finish, IfNotified, runVars, hostVars
  <1>10. ASSUME NEW w \in Worker, BeatReturns(w)
       PROVE  GoalOK'
    BY <1>10, ScheduleAssumption, StepWf DEF TypeOK, WorkerOK, GoalOK, Ended,
       BeatReturns, Go, Return, Ends, Fault, hostVars
  <1>11. ASSUME NEW w \in Worker, Confirms(w)
       PROVE  GoalOK'
    BY <1>11, ScheduleAssumption, StepWf DEF TypeOK, WorkerOK, GoalOK, Ended,
       Confirms, IfNotified, Finish, Return, Ends, Fault, hostVars
  <1>12. ASSUME NEW w \in Worker, FinishScheduleRun(w)
       PROVE  GoalOK'
    BY <1>12, ScheduleAssumption, StepWf DEF TypeOK, WorkerOK, GoalOK, Ended,
       FinishScheduleRun, Return, runVars, hostVars
  <1>13. ASSUME NEW w \in Worker, StartFails(w)
       PROVE  GoalOK'
    <2>1. UNCHANGED on /\ \A v \in Worker : v # w => pc'[v] = pc[v] /\ goal'[v] = goal[v]
      BY <1>13 DEF StartFails, Finish, TypeOK
    <2>2. pc'[w] = "finish" /\ goal'[w] = "failed"
      BY <1>13 DEF StartFails, Finish, TypeOK
    <2>3. QED
      BY <2>1, <2>2, StepWf DEF GoalOK, WorkerOK, Ended
  <1>14. ASSUME NEW w \in Worker, FinishFails(w)
       PROVE  GoalOK'
    BY <1>14, ScheduleAssumption, StepWf DEF TypeOK, WorkerOK, GoalOK, Ended,
       FinishFails, Return, Fault, runVars, hostVars
  <1>15. ASSUME NEW h \in Host, NEW w \in Worker, NEW r \in Run,
     Launch(h, w, r)
       PROVE  GoalOK'
    BY <1>15, ScheduleAssumption, StepWf DEF TypeOK, WorkerOK, GoalOK, Ended,
       Launch, Spawn, Unused, runVars, hostVars
  <1>16. ASSUME NEW h \in Host, NEW w \in Worker, NEW r \in Run,
     Reconcile(h, w, r)
       PROVE  GoalOK'
    <2>1. pc[w] = "off" /\ goal' = goal /\ on' = [on EXCEPT ![w] = r] /\ pc' = [pc EXCEPT ![w] = "look"]
      BY <1>16 DEF Reconcile, Spawn
    <2>2. UNCHANGED <<wf, receipt>>
      BY <1>16 DEF Reconcile, runVars
    <2>3. goal[w] = "none"
      BY <2>1 DEF GoalOK, TypeOK
    <2>4. QED
      BY <2>1, <2>2, <2>3 DEF GoalOK, TypeOK
  <1>17. ASSUME NEW c \in Cli, NEW w \in Worker, NEW r \in Run,
     RunByHand(c, w, r)
       PROVE  GoalOK'
    BY <1>17, ScheduleAssumption, StepWf DEF TypeOK, WorkerOK, GoalOK, Ended,
       RunByHand, Spawn, Unused, runVars, hostVars
  <1>18. ASSUME NEW w \in Worker, BeatMisleads(w)
       PROVE  GoalOK'
    BY <1>18, ScheduleAssumption, StepWf DEF TypeOK, WorkerOK, GoalOK, Ended,
       BeatMisleads, Go, Fault, runVars, hostVars
  <1>19. ASSUME NEW p \in Host \cup Cli, Crash(p)
       PROVE  GoalOK'
    BY <1>19, ScheduleAssumption, StepWf DEF TypeOK, WorkerOK, GoalOK, Ended,
       Crash, Fault
  <1>20. ASSUME NEW r \in Run, OtherBeat(r)
       PROVE  GoalOK'
    BY <1>20, ScheduleAssumption, StepWf DEF TypeOK, WorkerOK, GoalOK, Ended,
       OtherBeat, Begins, hostVars, workVars
  <1>21. ASSUME NEW r \in Run, OtherBeatEnds(r)
       PROVE  GoalOK'
    BY <1>21, ScheduleAssumption, StepWf DEF TypeOK, WorkerOK, GoalOK, Ended,
       OtherBeatEnds, Ends, Fault, hostVars, workVars
  <1>22. ASSUME NEW r \in Run, Settles(r)
       PROVE  GoalOK'
    BY <1>22, ScheduleAssumption, StepWf DEF TypeOK, WorkerOK, GoalOK, Ended,
       Settles, hostVars, workVars
  <1>23. ASSUME NEW r \in Run, Age(r)
       PROVE  GoalOK'
    BY <1>23, ScheduleAssumption, StepWf DEF TypeOK, WorkerOK, GoalOK, Ended,
       Age, hostVars, workVars
  <1>24. ASSUME NEW r \in Run, Expire(r)
       PROVE  GoalOK'
    BY <1>24, ScheduleAssumption, StepWf DEF TypeOK, WorkerOK, GoalOK, Ended,
       Expire, hostVars, workVars
  <1>25. QED
    BY <1>1, <1>2, <1>3, <1>4, <1>5, <1>6, <1>7, <1>8, <1>9, <1>10, <1>11,
       <1>12, <1>13, <1>14, <1>15, <1>16, <1>17, <1>18, <1>19, <1>20, <1>21,
       <1>22, <1>23, <1>24 DEF Next, WorkStep

\* Who holds the lock of a run.
LEMMA NextLockOK ==
  ASSUME TypeOK, WorkerOK, LockOK, [Next]_vars
  PROVE  LockOK'
  <1>1. CASE UNCHANGED vars
    BY <1>1, ScheduleAssumption DEF TypeOK, WorkerOK, LockOK, vars, runVars,
       hostVars, workVars
  <1>2. ASSUME NEW h \in Host, NEW declared \in {{}, Schedule},
     HostStart(h, declared)
       PROVE  LockOK'
    BY <1>2, ScheduleAssumption DEF TypeOK, WorkerOK, LockOK, HostStart,
       runVars, hostVars, workVars
  <1>3. ASSUME NEW h \in Host, HostStop(h) \/ ManagerClose(h)
       PROVE  LockOK'
    BY <1>3, ScheduleAssumption DEF TypeOK, WorkerOK, LockOK, HostStop,
       Fault, ManagerClose, runVars, hostVars, workVars
  <1>4. ASSUME NEW r \in Run, Settles(r) \/ Age(r) \/ Expire(r)
       PROVE  LockOK'
    BY <1>4, ScheduleAssumption DEF TypeOK, WorkerOK, LockOK, Settles, Age,
       Expire, runVars, hostVars, workVars
  <1>5. ASSUME NEW w \in Worker, StartScheduleRun(w)
       PROVE  LockOK'
    <2>1. /\ pc[w] = "insert" /\ held' = held
          /\ \A v \in Worker : v # w => pc'[v] = pc[v] /\ on'[v] = on[v]
          /\ pc'[w] \in {"off", "mkdir"}
      BY <1>5 DEF StartScheduleRun, Return, Go, TypeOK, runVars
    <2>2. QED
      BY <2>1 DEF LockOK
  <1>6. ASSUME NEW w \in Worker, StartRun(w)
       PROVE  LockOK'
    BY <1>6, ScheduleAssumption DEF TypeOK, WorkerOK, LockOK, StartRun, Go,
       hostVars
  <1>7. ASSUME NEW w \in Worker, Look(w)
       PROVE  LockOK'
    BY <1>7, ScheduleAssumption DEF TypeOK, WorkerOK, LockOK, Look, Go,
       Return, Finish, runVars, hostVars
  <1>8. ASSUME NEW w \in Worker, BeatTakes(w)
       PROVE  LockOK'
    BY <1>8, ScheduleAssumption DEF TypeOK, WorkerOK, LockOK, BeatTakes, Go,
       Begins, hostVars
  <1>9. ASSUME NEW w \in Worker, BeatRefused(w)
       PROVE  LockOK'
    BY <1>9, ScheduleAssumption DEF TypeOK, WorkerOK, LockOK, BeatRefused,
       Return, Finish, IfNotified, runVars, hostVars
  <1>10. ASSUME NEW w \in Worker, BeatReturns(w)
       PROVE  LockOK'
    <2>1. /\ on[w] \in Run /\ held[on[w]] = w
          /\ held' = [held EXCEPT ![on[w]] = NoOne]
      BY <1>10 DEF BeatReturns, Ends, WorkerOK, LockOK
    <2>2. \A v \in Worker : v # w => pc'[v] = pc[v] /\ on'[v] = on[v]
      BY <1>10 DEF BeatReturns, Go, Return, TypeOK
    <2>3. pc'[w] \notin {"beating", "confirming"}
      BY <1>10 DEF BeatReturns, Go, Return, TypeOK
    <2>4. QED
      BY <2>1, <2>2, <2>3, ScheduleAssumption DEF LockOK, TypeOK, WorkerOK
  <1>11. ASSUME NEW w \in Worker, Confirms(w)
       PROVE  LockOK'
    <2>1. /\ on[w] \in Run /\ held[on[w]] = w
          /\ held' = [held EXCEPT ![on[w]] = NoOne]
      BY <1>11 DEF Confirms, Ends, WorkerOK, LockOK
    <2>2. \A v \in Worker : v # w => pc'[v] = pc[v] /\ on'[v] = on[v]
      BY <1>11 DEF Confirms, IfNotified, Finish, Return, TypeOK
    <2>3. pc'[w] \notin {"beating", "confirming"}
      BY <1>11 DEF Confirms, IfNotified, Finish, Return, TypeOK
    <2>4. QED
      BY <2>1, <2>2, <2>3, ScheduleAssumption DEF LockOK, TypeOK, WorkerOK
  <1>12. ASSUME NEW w \in Worker, FinishScheduleRun(w)
       PROVE  LockOK'
    BY <1>12, ScheduleAssumption DEF TypeOK, WorkerOK, LockOK,
       FinishScheduleRun, Return, runVars, hostVars
  <1>13. ASSUME NEW w \in Worker, StartFails(w)
       PROVE  LockOK'
    BY <1>13, ScheduleAssumption DEF TypeOK, WorkerOK, LockOK, StartFails,
       Finish, Fault, hostVars
  <1>14. ASSUME NEW w \in Worker, FinishFails(w)
       PROVE  LockOK'
    BY <1>14, ScheduleAssumption DEF TypeOK, WorkerOK, LockOK, FinishFails,
       Return, Fault, runVars, hostVars
  <1>15. ASSUME NEW h \in Host, NEW w \in Worker, NEW r \in Run,
     Launch(h, w, r)
       PROVE  LockOK'
    BY <1>15, ScheduleAssumption DEF TypeOK, WorkerOK, LockOK, Launch, Spawn,
       Unused, runVars, hostVars
  <1>16. ASSUME NEW h \in Host, NEW w \in Worker, NEW r \in Run,
     Reconcile(h, w, r)
       PROVE  LockOK'
    BY <1>16, ScheduleAssumption DEF TypeOK, WorkerOK, LockOK, Reconcile,
       Spawn, runVars, hostVars
  <1>17. ASSUME NEW c \in Cli, NEW w \in Worker, NEW r \in Run,
     RunByHand(c, w, r)
       PROVE  LockOK'
    <2>1. /\ pc[w] = "off" /\ held' = held
          /\ \A v \in Worker : v # w => pc'[v] = pc[v] /\ on'[v] = on[v]
          /\ pc'[w] = "insert"
      BY <1>17 DEF RunByHand, Spawn, TypeOK, runVars
    <2>2. QED
      BY <2>1 DEF LockOK
  <1>18. ASSUME NEW w \in Worker, BeatMisleads(w)
       PROVE  LockOK'
    BY <1>18, ScheduleAssumption DEF TypeOK, WorkerOK, LockOK, BeatMisleads,
       Go, Fault, runVars, hostVars
  <1>19. ASSUME NEW p \in Host \cup Cli, Crash(p)
       PROVE  LockOK'
    <2>1. ASSUME NEW v \in Worker, by[v] = p
          PROVE  pc'[v] = "off" /\ \A r \in Run : held'[r] # v
      BY <1>19, <2>1, ScheduleAssumption DEF Crash, TypeOK
    <2>2. ASSUME NEW v \in Worker, by[v] # p
          PROVE  /\ pc'[v] = pc[v] /\ on'[v] = on[v]
                 /\ \A r \in Run : held'[r] = v <=> held[r] = v
      BY <1>19, <2>2, ScheduleAssumption DEF Crash, TypeOK
    <2>3. QED
      BY <2>1, <2>2 DEF LockOK, WorkerOK
  <1>20. ASSUME NEW r \in Run, OtherBeat(r)
       PROVE  LockOK'
    BY <1>20, ScheduleAssumption DEF TypeOK, WorkerOK, LockOK, OtherBeat,
       Begins, hostVars, workVars
  <1>21. ASSUME NEW r \in Run, OtherBeatEnds(r)
       PROVE  LockOK'
    BY <1>21, ScheduleAssumption DEF TypeOK, WorkerOK, LockOK, OtherBeatEnds,
       Ends, Fault, hostVars, workVars
  <1>22. ASSUME NEW r \in Run, OtherBeatDies(r)
       PROVE  LockOK'
    BY <1>22, ScheduleAssumption DEF TypeOK, WorkerOK, LockOK, OtherBeatDies,
       Fault, hostVars, workVars
  <1>23. ASSUME NEW r \in Run, HelperExits(r)
       PROVE  LockOK'
    BY <1>23, ScheduleAssumption DEF TypeOK, WorkerOK, LockOK, HelperExits,
       hostVars, workVars
  <1>24. QED
    BY <1>1, <1>2, <1>3, <1>4, <1>5, <1>6, <1>7, <1>8, <1>9, <1>10, <1>11,
       <1>12, <1>13, <1>14, <1>15, <1>16, <1>17, <1>18, <1>19, <1>20, <1>21,
       <1>22, <1>23 DEF Next, WorkStep

\* Admission.
LEMMA NextSkipAlone ==
  ASSUME TypeOK, WorkerOK, SkipAlone, [Next]_vars
  PROVE  SkipAlone'
  <1>1. CASE UNCHANGED vars
    BY <1>1, ScheduleAssumption DEF TypeOK, WorkerOK, SkipAlone, vars,
       runVars, hostVars, workVars
  <1>2. ASSUME NEW w \in Worker, StartRun(w) \/ Look(w) \/ BeatTakes(w) \/
     BeatRefused(w) \/ BeatReturns(w) \/ Confirms(w) \/ StartFails(w) \/
     FinishFails(w) \/ BeatMisleads(w)
       PROVE  SkipAlone'
    BY <1>2, ScheduleAssumption DEF TypeOK, WorkerOK, SkipAlone, StartRun,
       Go, Look, Return, Finish, BeatTakes, Begins, BeatRefused, IfNotified,
       BeatReturns, Ends, Fault, Confirms, StartFails, FinishFails,
       BeatMisleads, runVars, hostVars, workVars
  <1>3. ASSUME NEW h \in Host, NEW w \in Worker, NEW r \in Run,
     Reconcile(h, w, r)
       PROVE  SkipAlone'
    BY <1>3, ScheduleAssumption DEF TypeOK, WorkerOK, SkipAlone, Reconcile,
       Spawn, runVars, hostVars, workVars
  <1>4. ASSUME NEW c \in Cli, NEW w \in Worker, NEW r \in Run,
     RunByHand(c, w, r)
       PROVE  SkipAlone'
    BY <1>4, ScheduleAssumption DEF TypeOK, WorkerOK, SkipAlone, RunByHand,
       Spawn, Unused, runVars, hostVars, workVars
  <1>5. ASSUME NEW h \in Host, NEW declared \in {{}, Schedule},
     HostStart(h, declared)
       PROVE  SkipAlone'
    BY <1>5, ScheduleAssumption DEF TypeOK, WorkerOK, SkipAlone, HostStart,
       runVars, hostVars, workVars
  <1>6. ASSUME NEW h \in Host, HostStop(h) \/ ManagerClose(h)
       PROVE  SkipAlone'
    BY <1>6, ScheduleAssumption DEF TypeOK, WorkerOK, SkipAlone, HostStop,
       Fault, ManagerClose, runVars, hostVars, workVars
  <1>7. ASSUME NEW p \in Host \cup Cli, Crash(p)
       PROVE  SkipAlone'
    BY <1>7, ScheduleAssumption DEF TypeOK, WorkerOK, SkipAlone, Crash,
       Fault, runVars, hostVars, workVars
  <1>8. ASSUME NEW r \in Run, OtherBeat(r) \/ OtherBeatEnds(r) \/
     OtherBeatDies(r) \/ HelperExits(r) \/ Settles(r) \/ Age(r) \/ Expire(r)
       PROVE  SkipAlone'
    BY <1>8, ScheduleAssumption DEF TypeOK, WorkerOK, SkipAlone, OtherBeat,
       Begins, OtherBeatEnds, Ends, Fault, OtherBeatDies, HelperExits,
       Settles, Age, Expire, runVars, hostVars, workVars
  <1>9. ASSUME NEW w \in Worker, StartScheduleRun(w)
       PROVE  SkipAlone'
    <2>1. on[w] \in Run
      BY <1>9 DEF StartScheduleRun, WorkerOK
    <2>2. CASE UNCHANGED row
      BY <2>2 DEF SkipAlone
    <2>3. CASE /\ row' = [row EXCEPT ![on[w]] = "running"]
               /\ ~(For[on[w]] \in Skip /\ Busy(For[on[w]]))
      <3>1. \A r \in Run : r # on[w] => row'[r] = row[r]
        BY <2>3 DEF TypeOK
      <3>2. For[on[w]] \in Skip => \A r \in Run : For[r] = For[on[w]] => row[r] # "running"
        BY <2>3 DEF Busy
      <3>3. SUFFICES ASSUME NEW q \in Run, NEW r \in Run, q # r, For[q] = For[r],
                            For[q] \in Skip
                     PROVE  row'[q] # "running" \/ row'[r] # "running"
        BY DEF SkipAlone
      <3>4. CASE q = on[w]
        BY <3>1, <3>2, <3>3, <3>4
      <3>5. CASE r = on[w]
        BY <3>1, <3>2, <3>3, <3>5
      <3>6. CASE q # on[w] /\ r # on[w]
        <4>1. {row[q], row[r]} # {"running"}
          BY <3>3 DEF SkipAlone
        <4>2. QED
          BY <4>1, <3>1, <3>6
      <3>7. QED
        BY <3>4, <3>5, <3>6
    <2>4. QED
      BY <1>9, <2>2, <2>3 DEF StartScheduleRun
  <1>10. ASSUME NEW w \in Worker, FinishScheduleRun(w)
       PROVE  SkipAlone'
    BY <1>10, ScheduleAssumption DEF TypeOK, WorkerOK, SkipAlone,
       FinishScheduleRun, Return, runVars, hostVars
  <1>11. ASSUME NEW h \in Host, NEW w \in Worker, NEW r \in Run,
     Launch(h, w, r)
       PROVE  SkipAlone'
    <2>1. row' = row
      BY <1>11 DEF Launch
    <2>2. QED
      BY <2>1 DEF SkipAlone
  <1>12. QED
    BY <1>1, <1>2, <1>3, <1>4, <1>5, <1>6, <1>7, <1>8, <1>9, <1>10, <1>11 DEF
       Next, WorkStep

\* The lock of the clock.
LEMMA NextClockOwned ==
  ASSUME TypeOK, WorkerOK, ClockOwned, [Next]_vars
  PROVE  ClockOwned'
  <1>1. CASE UNCHANGED vars
    BY <1>1, ScheduleAssumption DEF TypeOK, WorkerOK, ClockOwned, vars,
       runVars, hostVars, workVars
  <1>2. ASSUME NEW w \in Worker, StartRun(w) \/ BeatTakes(w) \/ StartFails(w)
     \/ BeatMisleads(w)
       PROVE  ClockOwned'
    BY <1>2, ScheduleAssumption DEF TypeOK, WorkerOK, ClockOwned, StartRun,
       Go, BeatTakes, Begins, StartFails, Finish, Fault, BeatMisleads,
       runVars, hostVars, workVars
  <1>3. ASSUME NEW h \in Host, HostStop(h)
       PROVE  ClockOwned'
    BY <1>3, ScheduleAssumption DEF TypeOK, WorkerOK, ClockOwned, HostStop,
       Fault, runVars, hostVars, workVars
  <1>4. ASSUME NEW r \in Run, OtherBeat(r) \/ OtherBeatEnds(r) \/
     OtherBeatDies(r) \/ HelperExits(r) \/ Settles(r) \/ Age(r) \/ Expire(r)
       PROVE  ClockOwned'
    BY <1>4, ScheduleAssumption DEF TypeOK, WorkerOK, ClockOwned, OtherBeat,
       Begins, OtherBeatEnds, Ends, Fault, OtherBeatDies, HelperExits,
       Settles, Age, Expire, runVars, hostVars, workVars
  <1>5. ASSUME NEW w \in Worker, StartScheduleRun(w)
       PROVE  ClockOwned'
    BY <1>5, ScheduleAssumption DEF TypeOK, WorkerOK, ClockOwned,
       StartScheduleRun, Busy, Go, Return, runVars, hostVars
  <1>6. ASSUME NEW w \in Worker, Look(w)
       PROVE  ClockOwned'
    BY <1>6, ScheduleAssumption DEF TypeOK, WorkerOK, ClockOwned, Look, Go,
       Return, Finish, runVars, hostVars
  <1>7. ASSUME NEW w \in Worker, BeatRefused(w)
       PROVE  ClockOwned'
    BY <1>7, ScheduleAssumption DEF TypeOK, WorkerOK, ClockOwned,
       BeatRefused, Return, Finish, IfNotified, runVars, hostVars
  <1>8. ASSUME NEW w \in Worker, BeatReturns(w)
       PROVE  ClockOwned'
    BY <1>8, ScheduleAssumption DEF TypeOK, WorkerOK, ClockOwned,
       BeatReturns, Go, Return, Ends, Fault, hostVars
  <1>9. ASSUME NEW w \in Worker, Confirms(w)
       PROVE  ClockOwned'
    BY <1>9, ScheduleAssumption DEF TypeOK, WorkerOK, ClockOwned, Confirms,
       IfNotified, Finish, Return, Ends, Fault, hostVars
  <1>10. ASSUME NEW w \in Worker, FinishScheduleRun(w)
       PROVE  ClockOwned'
    BY <1>10, ScheduleAssumption DEF TypeOK, WorkerOK, ClockOwned,
       FinishScheduleRun, Return, runVars, hostVars
  <1>11. ASSUME NEW w \in Worker, FinishFails(w)
       PROVE  ClockOwned'
    BY <1>11, ScheduleAssumption DEF TypeOK, WorkerOK, ClockOwned,
       FinishFails, Return, Fault, runVars, hostVars
  <1>12. ASSUME NEW h \in Host, NEW w \in Worker, NEW r \in Run,
     Launch(h, w, r)
       PROVE  ClockOwned'
    BY <1>12, ScheduleAssumption DEF TypeOK, WorkerOK, ClockOwned, Launch,
       Spawn, Unused, runVars, hostVars
  <1>13. ASSUME NEW h \in Host, NEW w \in Worker, NEW r \in Run,
     Reconcile(h, w, r)
       PROVE  ClockOwned'
    BY <1>13, ScheduleAssumption DEF TypeOK, WorkerOK, ClockOwned, Reconcile,
       Spawn, runVars, hostVars
  <1>14. ASSUME NEW c \in Cli, NEW w \in Worker, NEW r \in Run,
     RunByHand(c, w, r)
       PROVE  ClockOwned'
    BY <1>14, ScheduleAssumption DEF TypeOK, WorkerOK, ClockOwned, RunByHand,
       Spawn, Unused, runVars, hostVars
  <1>15. ASSUME NEW h \in Host, NEW declared \in {{}, Schedule},
     HostStart(h, declared)
       PROVE  ClockOwned'
    BY <1>15, ScheduleAssumption DEF TypeOK, WorkerOK, ClockOwned, HostStart,
       runVars, workVars
  <1>16. ASSUME NEW h \in Host, ManagerClose(h)
       PROVE  ClockOwned'
    BY <1>16, ScheduleAssumption DEF TypeOK, WorkerOK, ClockOwned,
       ManagerClose, runVars, workVars
  <1>17. ASSUME NEW p \in Host \cup Cli, Crash(p)
       PROVE  ClockOwned'
    BY <1>17, ScheduleAssumption DEF TypeOK, WorkerOK, ClockOwned, Crash,
       Fault
  <1>18. QED
    BY <1>1, <1>2, <1>3, <1>4, <1>5, <1>6, <1>7, <1>8, <1>9, <1>10, <1>11,
       <1>12, <1>13, <1>14, <1>15, <1>16, <1>17 DEF Next, WorkStep

\* What done stands for.
LEMMA NextDoneIsDelivered ==
  ASSUME TypeOK, WorkerOK, StarterOK, GoalOK, DoneIsDelivered, [Next]_vars
  PROVE  DoneIsDelivered'
  <1>1. CASE UNCHANGED vars
    BY <1>1, ScheduleAssumption, StepWf DEF TypeOK, WorkerOK, GoalOK,
       DoneIsDelivered, Ended, vars, runVars, hostVars, workVars
  <1>2. ASSUME NEW w \in Worker, Look(w) \/ BeatRefused(w) \/ FinishFails(w)
     \/ BeatMisleads(w)
       PROVE  DoneIsDelivered'
    BY <1>2, ScheduleAssumption, StepWf DEF TypeOK, WorkerOK, GoalOK,
       DoneIsDelivered, Ended, Look, Go, Return, Finish, BeatRefused,
       IfNotified, FinishFails, Fault, BeatMisleads, runVars, hostVars,
       workVars
  <1>3. ASSUME NEW h \in Host, NEW w \in Worker, NEW r \in Run,
     Launch(h, w, r) \/ Reconcile(h, w, r)
       PROVE  DoneIsDelivered'
    BY <1>3, ScheduleAssumption, StepWf DEF TypeOK, WorkerOK, GoalOK,
       DoneIsDelivered, Ended, Launch, Spawn, Unused, Reconcile, runVars,
       hostVars, workVars
  <1>4. ASSUME NEW c \in Cli, NEW w \in Worker, NEW r \in Run,
     RunByHand(c, w, r)
       PROVE  DoneIsDelivered'
    BY <1>4, ScheduleAssumption, StepWf DEF TypeOK, WorkerOK, GoalOK,
       DoneIsDelivered, Ended, RunByHand, Spawn, Unused, runVars, hostVars,
       workVars
  <1>5. ASSUME NEW h \in Host, NEW declared \in {{}, Schedule},
     HostStart(h, declared)
       PROVE  DoneIsDelivered'
    BY <1>5, ScheduleAssumption, StepWf DEF TypeOK, WorkerOK, GoalOK,
       DoneIsDelivered, Ended, HostStart, runVars, hostVars, workVars
  <1>6. ASSUME NEW h \in Host, HostStop(h) \/ ManagerClose(h)
       PROVE  DoneIsDelivered'
    BY <1>6, ScheduleAssumption, StepWf DEF TypeOK, WorkerOK, GoalOK,
       DoneIsDelivered, Ended, HostStop, Fault, ManagerClose, runVars,
       hostVars, workVars
  <1>7. ASSUME NEW p \in Host \cup Cli, Crash(p)
       PROVE  DoneIsDelivered'
    BY <1>7, ScheduleAssumption, StepWf DEF TypeOK, WorkerOK, GoalOK,
       DoneIsDelivered, Ended, Crash, Fault, runVars, hostVars, workVars
  <1>8. ASSUME NEW r \in Run, OtherBeatDies(r) \/ HelperExits(r)
       PROVE  DoneIsDelivered'
    BY <1>8, ScheduleAssumption, StepWf DEF TypeOK, WorkerOK, GoalOK,
       DoneIsDelivered, Ended, OtherBeatDies, Fault, HelperExits, runVars,
       hostVars, workVars
  <1>9. ASSUME NEW w \in Worker, StartScheduleRun(w)
       PROVE  DoneIsDelivered'
    BY <1>9, ScheduleAssumption, StepWf DEF TypeOK, WorkerOK, GoalOK,
       DoneIsDelivered, Ended, StartScheduleRun, Busy, Go, Return, runVars,
       hostVars
  <1>10. ASSUME NEW w \in Worker, StartRun(w)
       PROVE  DoneIsDelivered'
    BY <1>10, ScheduleAssumption, StepWf DEF TypeOK, WorkerOK, GoalOK,
       DoneIsDelivered, Ended, StartRun, Go, hostVars
  <1>11. ASSUME NEW w \in Worker, BeatTakes(w)
       PROVE  DoneIsDelivered'
    BY <1>11, ScheduleAssumption, StepWf DEF TypeOK, WorkerOK, GoalOK,
       DoneIsDelivered, Ended, BeatTakes, Go, Begins, hostVars
  <1>12. ASSUME NEW w \in Worker, BeatReturns(w)
       PROVE  DoneIsDelivered'
    BY <1>12, ScheduleAssumption, StepWf DEF TypeOK, WorkerOK, GoalOK,
       DoneIsDelivered, Ended, BeatReturns, Go, Return, Ends, Fault, hostVars
  <1>13. ASSUME NEW w \in Worker, Confirms(w)
       PROVE  DoneIsDelivered'
    BY <1>13, ScheduleAssumption, StepWf DEF TypeOK, WorkerOK, GoalOK,
       DoneIsDelivered, Ended, Confirms, IfNotified, Finish, Return, Ends,
       Fault, hostVars
  <1>14. ASSUME NEW w \in Worker, FinishScheduleRun(w)
       PROVE  DoneIsDelivered'
    BY <1>14, ScheduleAssumption, StepWf DEF TypeOK, WorkerOK, GoalOK,
       DoneIsDelivered, Ended, FinishScheduleRun, Return, runVars, hostVars
  <1>15. ASSUME NEW w \in Worker, StartFails(w)
       PROVE  DoneIsDelivered'
    BY <1>15, ScheduleAssumption, StepWf DEF TypeOK, WorkerOK, GoalOK,
       DoneIsDelivered, Ended, StartFails, Finish, Fault, hostVars
  <1>16. ASSUME NEW r \in Run, OtherBeat(r)
       PROVE  DoneIsDelivered'
    BY <1>16, ScheduleAssumption, StepWf DEF TypeOK, WorkerOK, GoalOK,
       DoneIsDelivered, Ended, OtherBeat, Begins, hostVars, workVars
  <1>17. ASSUME NEW r \in Run, OtherBeatEnds(r)
       PROVE  DoneIsDelivered'
    BY <1>17, ScheduleAssumption, StepWf DEF TypeOK, WorkerOK, GoalOK,
       DoneIsDelivered, Ended, OtherBeatEnds, Ends, Fault, hostVars, workVars
  <1>18. ASSUME NEW r \in Run, Settles(r)
       PROVE  DoneIsDelivered'
    BY <1>18, ScheduleAssumption, StepWf DEF TypeOK, WorkerOK, GoalOK,
       DoneIsDelivered, Ended, Settles, hostVars, workVars
  <1>19. ASSUME NEW r \in Run, Age(r)
       PROVE  DoneIsDelivered'
    BY <1>19, ScheduleAssumption, StepWf DEF TypeOK, WorkerOK, GoalOK,
       DoneIsDelivered, Ended, Age, hostVars, workVars
  <1>20. ASSUME NEW r \in Run, Expire(r)
       PROVE  DoneIsDelivered'
    BY <1>20, ScheduleAssumption, StepWf DEF TypeOK, WorkerOK, GoalOK,
       DoneIsDelivered, Ended, Expire, hostVars, workVars
  <1>21. QED
    BY <1>1, <1>2, <1>3, <1>4, <1>5, <1>6, <1>7, <1>8, <1>9, <1>10, <1>11,
       <1>12, <1>13, <1>14, <1>15, <1>16, <1>17, <1>18, <1>19, <1>20 DEF
       Next, WorkStep

\* Finished rows.
LEMMA StepRowFinal ==
  ASSUME TypeOK, WorkerOK, StarterOK, [Next]_vars
  PROVE  \A q \in Run : row[q] \in {"done", "failed"} => row'[q] = row[q]
  <1>1. CASE UNCHANGED vars
    BY <1>1, ScheduleAssumption DEF TypeOK, WorkerOK, StarterOK, vars,
       runVars, hostVars, workVars
  <1>2. ASSUME NEW w \in Worker, StartRun(w) \/ Look(w) \/ BeatTakes(w) \/
     BeatRefused(w) \/ BeatReturns(w) \/ Confirms(w) \/ StartFails(w) \/
     FinishFails(w) \/ BeatMisleads(w)
       PROVE  \A q \in Run : row[q] \in {"done", "failed"} => row'[q] = row[q]
    BY <1>2, ScheduleAssumption DEF TypeOK, WorkerOK, StarterOK, StartRun,
       Go, Look, Return, Finish, BeatTakes, Begins, BeatRefused, IfNotified,
       BeatReturns, Ends, Fault, Confirms, StartFails, FinishFails,
       BeatMisleads, runVars, hostVars, workVars
  <1>3. ASSUME NEW h \in Host, NEW w \in Worker, NEW r \in Run,
     Launch(h, w, r) \/ Reconcile(h, w, r)
       PROVE  \A q \in Run : row[q] \in {"done", "failed"} => row'[q] = row[q]
    BY <1>3, ScheduleAssumption DEF TypeOK, WorkerOK, StarterOK, Launch,
       Spawn, Unused, Reconcile, runVars, hostVars, workVars
  <1>4. ASSUME NEW c \in Cli, NEW w \in Worker, NEW r \in Run,
     RunByHand(c, w, r)
       PROVE  \A q \in Run : row[q] \in {"done", "failed"} => row'[q] = row[q]
    BY <1>4, ScheduleAssumption DEF TypeOK, WorkerOK, StarterOK, RunByHand,
       Spawn, Unused, runVars, hostVars, workVars
  <1>5. ASSUME NEW h \in Host, NEW declared \in {{}, Schedule},
     HostStart(h, declared)
       PROVE  \A q \in Run : row[q] \in {"done", "failed"} => row'[q] = row[q]
    BY <1>5, ScheduleAssumption DEF TypeOK, WorkerOK, StarterOK, HostStart,
       runVars, hostVars, workVars
  <1>6. ASSUME NEW h \in Host, HostStop(h) \/ ManagerClose(h)
       PROVE  \A q \in Run : row[q] \in {"done", "failed"} => row'[q] = row[q]
    BY <1>6, ScheduleAssumption DEF TypeOK, WorkerOK, StarterOK, HostStop,
       Fault, ManagerClose, runVars, hostVars, workVars
  <1>7. ASSUME NEW p \in Host \cup Cli, Crash(p)
       PROVE  \A q \in Run : row[q] \in {"done", "failed"} => row'[q] = row[q]
    BY <1>7, ScheduleAssumption DEF TypeOK, WorkerOK, StarterOK, Crash,
       Fault, runVars, hostVars, workVars
  <1>8. ASSUME NEW r \in Run, OtherBeat(r) \/ OtherBeatEnds(r) \/
     OtherBeatDies(r) \/ HelperExits(r) \/ Settles(r) \/ Age(r) \/ Expire(r)
       PROVE  \A q \in Run : row[q] \in {"done", "failed"} => row'[q] = row[q]
    BY <1>8, ScheduleAssumption DEF TypeOK, WorkerOK, StarterOK, OtherBeat,
       Begins, OtherBeatEnds, Ends, Fault, OtherBeatDies, HelperExits,
       Settles, Age, Expire, runVars, hostVars, workVars
  <1>9. ASSUME NEW w \in Worker, StartScheduleRun(w)
       PROVE  \A q \in Run : row[q] \in {"done", "failed"} => row'[q] = row[q]
    BY <1>9, ScheduleAssumption DEF TypeOK, WorkerOK, StarterOK,
       StartScheduleRun, Busy, Go, Return, runVars, hostVars
  <1>10. ASSUME NEW w \in Worker, FinishScheduleRun(w)
       PROVE  \A q \in Run : row[q] \in {"done", "failed"} => row'[q] = row[q]
    BY <1>10, ScheduleAssumption DEF TypeOK, WorkerOK, StarterOK,
       FinishScheduleRun, Return, runVars, hostVars
  <1>11. QED
    BY <1>1, <1>2, <1>3, <1>4, <1>5, <1>6, <1>7, <1>8, <1>9, <1>10 DEF Next,
       WorkStep

\* The invariant holds at first,
LEMMA InitInductive == Init => LedgerInductive
  BY ScheduleAssumption DEF Init, LedgerInductive, TypeOK, WorkPc, Stage, Live, Ended, WorkerOK,
     StarterOK, GoalOK, LockOK, SkipAlone, ClockOwned, DoneIsDelivered

\* is kept by every step,
LEMMA NextInductive == LedgerInductive /\ [Next]_vars => LedgerInductive'
  BY NextTypeOK, NextWorkerOK, NextStarterOK, NextGoalOK, NextLockOK, NextSkipAlone,
     NextClockOwned, NextDoneIsDelivered DEF LedgerInductive

\* and so holds always.
LEMMA Inductive == Spec => []LedgerInductive
  BY InitInductive, NextInductive, PTL DEF Spec

-----------------------------------------------------------------------------
(* The theorems.                                                           *)

\* Types: no row ever gets the status of a workflow run.
THEOREM TypesOK == Spec => []TypeOK
  <1>1. LedgerInductive => TypeOK
    BY DEF LedgerInductive
  <1>2. QED
    BY <1>1, Inductive, PTL

\* A schedule with (overlap skip) has one running row at most, whichever
\* processes fire it.
THEOREM NoOverlap == Spec => []SkipAlone
  <1>1. LedgerInductive => SkipAlone
    BY DEF LedgerInductive
  <1>2. QED
    BY <1>1, Inductive, PTL

\* No goroutine of a manager outlives the schedule.lock of its host.
THEOREM OneClock == Spec => []ClockOwned
  <1>1. LedgerInductive => ClockOwned
    BY DEF LedgerInductive
  <1>2. QED
    BY <1>1, Inductive, PTL

\* done means completed, with the notice on disk.
THEOREM DoneDelivered == Spec => []DoneIsDelivered
  <1>1. LedgerInductive => DoneIsDelivered
    BY DEF LedgerInductive
  <1>2. QED
    BY <1>1, Inductive, PTL

\* A finished row is final, whoever finishes it again.
THEOREM RowsFinal == Spec => RowFinal
  <1>1. LedgerInductive /\ [Next]_vars
          => [\A r \in Run : row[r] \in {"done", "failed"} => row'[r] = row[r]]_vars
    BY StepRowFinal DEF LedgerInductive
  <1>2. QED
    BY <1>1, Inductive, PTL DEF RowFinal, Spec

\* A beat holds the lock of its run from its start to its end, and nobody else
\* of this ledger does: no return, stop or crash forgets a lock or takes one.
THEOREM BeatsExclusive == Spec => []LockOK
  <1>1. LedgerInductive => LockOK
    BY DEF LedgerInductive
  <1>2. QED
    BY <1>1, Inductive, PTL

-----------------------------------------------------------------------------
(* The runs of the ledger are runs as BeatenRun has them.                  *)

\* What a step of the ledger may do to run q.
BeatenStep(q) == Beaten(q)!BNext \/ UNCHANGED Beaten(q)!bVars

\* A step that leaves the files of a run alone is no step of that run.
LEMMA SameFiles ==
  ASSUME NEW q \in Run, wf'[q] = wf[q], q \in receipt' <=> q \in receipt, held'[q] = held[q]
  PROVE  UNCHANGED Beaten(q)!bVars
  BY DEF Beaten!bVars, StageOf

\* The start of a beat takes the lock, and ends a run only as BeatenRun allows.
LEMMA BeginsTakes ==
  ASSUME TypeOK, NEW q \in Run, NEW r \in Run, NEW d \in Worker \cup {Other},
         Begins(r, d), receipt' = receipt
  PROVE  BeatenStep(q)
  <1>1. CASE q = r
    <2>1. /\ held[q] = NoOne /\ held'[q] = d
          /\ wf[q] \in Live \cup Ended
          /\ \/ wf[q] # "overdue" /\ wf'[q] = wf[q]
             \/ wf[q] \in Live /\ wf'[q] = "failed"
      BY <1>1 DEF Begins, TypeOK
    <2>2. /\ StageOf(q) # "none" /\ StageOf(q) = wf[q] /\ StageOf(q)' = wf'[q]
      BY <2>1 DEF StageOf, Live, Ended
    <2>3. wf'[q] \in Beaten(q)!AtTake(wf[q])
      BY <2>1 DEF Beaten!AtTake, Live, Ended
    <2>4. Beaten(q)!Take(d)
      BY <2>1, <2>2, <2>3 DEF Beaten!Take
    <2>5. QED
      BY <2>4 DEF BeatenStep, Beaten!BNext
  <1>2. CASE q # r
    BY <1>2, SameFiles DEF BeatenStep, Begins, TypeOK
  <1>3. QED
    BY <1>1, <1>2

\* Its end gives the lock back and announces only an end.
LEMMA EndsGivesUp ==
  ASSUME TypeOK, NEW q \in Run, NEW r \in Run, held[r] \in Worker \cup {Other}, Ends(r)
  PROVE  BeatenStep(q)
  <1>1. CASE q = r
    <2>1. held'[q] = NoOne /\ StageOf(q)' = StageOf(q)
      BY <1>1 DEF Ends, TypeOK, StageOf
    <2>2. \/ q \in receipt' <=> q \in receipt
          \/ StageOf(q) \in Beaten(q)!Ended /\ q \in receipt'
      BY <1>1 DEF Ends, StageOf, Beaten!Ended, Ended
    <2>3. Beaten(q)!GiveUp(held[q])
      BY <2>1, <2>2 DEF Beaten!GiveUp
    <2>4. QED
      BY <1>1, <2>3 DEF BeatenStep, Beaten!BNext
  <1>2. CASE q # r
    BY <1>2, SameFiles DEF BeatenStep, Ends, TypeOK
  <1>3. QED
    BY <1>1, <1>2

\* The run ends in the middle of the beat that holds its lock.
LEMMA SettlesIsSettle ==
  ASSUME TypeOK, NEW q \in Run, NEW r \in Run, Settles(r)
  PROVE  BeatenStep(q)
  <1>1. CASE q = r
    <2>1. /\ held[q] \in Worker \cup {Other} /\ held'[q] = held[q]
          /\ wf[q] \in Live /\ wf'[q] \in Ended /\ receipt' = receipt
      BY <1>1 DEF Settles, TypeOK
    <2>2. StageOf(q) \in Beaten(q)!Live /\ StageOf(q)' \in Beaten(q)!Ended
      BY <2>1 DEF StageOf, Live, Ended, Beaten!Live, Beaten!Ended
    <2>3. Beaten(q)!Settle(held[q])
      BY <2>1, <2>2 DEF Beaten!Settle
    <2>4. QED
      BY <2>1, <2>3 DEF BeatenStep, Beaten!BNext
  <1>2. CASE q # r
    BY <1>2, SameFiles DEF BeatenStep, Settles, TypeOK
  <1>3. QED
    BY <1>1, <1>2

\* Until the status file is there nobody sees a run.
LEMMA WritesDirectory ==
  ASSUME TypeOK, NEW q \in Run, NEW r \in Run, wf[r] \in {"absent", "missing", "partial"},
         \E s \in {"missing", "partial", "open"} : wf' = [wf EXCEPT ![r] = s],
         UNCHANGED <<receipt, held>>
  PROVE  BeatenStep(q)
  <1>1. CASE q = r /\ wf'[r] = "open"
    <2>1. StageOf(q) = "none" /\ StageOf(q)' = "open"
      BY <1>1 DEF StageOf, Live, Ended
    <2>2. Beaten(q)!Create
      BY <2>1 DEF Beaten!Create
    <2>3. QED
      BY <2>2 DEF BeatenStep, Beaten!BNext
  <1>2. CASE q = r /\ wf'[r] # "open"
    <2>1. wf'[q] \in {"missing", "partial"}
      BY <1>2 DEF TypeOK
    <2>2. StageOf(q) = "none" /\ StageOf(q)' = "none"
      BY <1>2, <2>1 DEF StageOf, Live, Ended
    <2>3. QED
      BY <2>2 DEF BeatenStep, Beaten!bVars
  <1>3. CASE q # r
    BY <1>3, SameFiles DEF BeatenStep, TypeOK
  <1>4. QED
    BY <1>1, <1>2, <1>3

\* A dead process leaves a lock to nobody, or to the agent it had at work.
LEMMA CrashGivesUp ==
  ASSUME TypeOK, NEW q \in Run, NEW p \in Host \cup Cli, Crash(p)
  PROVE  BeatenStep(q)
  <1>1. UNCHANGED <<wf, receipt>>
    BY DEF Crash
  <1> DEFINE freed == {r \in Run : held[r] \in {w \in Worker : by[w] = p}}
  <1>2. /\ held'[q] = held[q] \/ held[q] \in Worker
        /\ \/ held'[q] \in {held[q], NoOne}
           \/ held'[q] = Helper /\ wf[q] \in Live
    <2>1. PICK kept \in SUBSET {r \in freed : wf[r] \in Live} :
            held' = [r \in Run |-> IF r \in kept THEN Helper
                                  ELSE IF r \in freed THEN NoOne ELSE held[r]]
      BY Zenon DEF Crash
    <2>2. held'[q] = IF q \in kept THEN Helper ELSE IF q \in freed THEN NoOne ELSE held[q]
      BY <2>1
    <2>3. q \in kept => wf[q] \in Live /\ q \in freed
      BY <2>1
    <2>4. q \in freed => held[q] \in Worker
      OBVIOUS
    <2>5. QED
      BY <2>2, <2>3, <2>4
  <1> HIDE DEF freed
  <1>3. CASE held'[q] = held[q]
    BY <1>1, <1>3, SameFiles DEF BeatenStep
  <1>4. CASE held'[q] # held[q]
    <2>1. Beaten(q)!GiveUp(held[q])
      BY <1>1, <1>2, <1>4 DEF Beaten!GiveUp, StageOf, Beaten!Live, Live
    <2>2. QED
      BY <1>2, <1>4, <2>1 DEF BeatenStep, Beaten!BNext
  <1>5. QED
    BY <1>3, <1>4

\* No step of any process does more: needs that a worker beats only the run whose
\* lock it holds, and that only the starter writes the directory.
LEMMA StepBeaten ==
  ASSUME TypeOK, WorkerOK, StarterOK, LockOK, [Next]_vars, NEW q \in Run
  PROVE  BeatenStep(q)
  <1>1. CASE runVars' = runVars
    BY <1>1, SameFiles DEF runVars, BeatenStep
  <1>2. ASSUME NEW w \in Worker, StartRun(w) \/ StartFails(w)
        PROVE  BeatenStep(q)
    <2>1. /\ on[w] \in Run /\ wf[on[w]] \in {"absent", "missing", "partial"}
          /\ UNCHANGED <<receipt, held>>
          /\ wf' = wf \/ \E s \in {"missing", "partial", "open"} : wf' = [wf EXCEPT ![on[w]] = s]
      BY <1>2 DEF StartRun, StartFails, StarterOK, WorkerOK
    <2>2. QED
      BY <1>1, <2>1, WritesDirectory DEF runVars
  <1>3. ASSUME NEW w \in Worker, BeatTakes(w)
        PROVE  BeatenStep(q)
    <2>1. on[w] \in Run /\ Begins(on[w], w) /\ receipt' = receipt
      BY <1>3 DEF BeatTakes, WorkerOK
    <2>2. QED
      BY <2>1, BeginsTakes
  <1>4. ASSUME NEW w \in Worker, BeatReturns(w) \/ Confirms(w)
        PROVE  BeatenStep(q)
    <2>1. on[w] \in Run /\ held[on[w]] = w /\ Ends(on[w])
      BY <1>4 DEF BeatReturns, Confirms, WorkerOK, LockOK
    <2>2. QED
      BY <2>1, EndsGivesUp
  <1>5. ASSUME NEW p \in Host \cup Cli, Crash(p)
        PROVE  BeatenStep(q)
    BY <1>5, CrashGivesUp
  <1>6. ASSUME NEW r \in Run, OtherBeat(r)
        PROVE  BeatenStep(q)
    BY <1>6, BeginsTakes DEF OtherBeat
  <1>7. ASSUME NEW r \in Run, OtherBeatEnds(r)
        PROVE  BeatenStep(q)
    BY <1>7, EndsGivesUp DEF OtherBeatEnds
  <1>8. ASSUME NEW r \in Run, OtherBeatDies(r)
        PROVE  BeatenStep(q)
    <2>1. CASE q = r
      <3>1. /\ held[q] = Other /\ held'[q] = Helper /\ wf[q] \in Live
            /\ UNCHANGED <<wf, receipt>>
        BY <1>8, <2>1 DEF OtherBeatDies, TypeOK
      <3>2. Beaten(q)!GiveUp(Other)
        BY <3>1 DEF Beaten!GiveUp, StageOf, Beaten!Live, Live
      <3>3. QED
        BY <3>2 DEF BeatenStep, Beaten!BNext
    <2>2. CASE q # r
      BY <1>8, <2>2, SameFiles DEF BeatenStep, OtherBeatDies, TypeOK
    <2>3. QED
      BY <2>1, <2>2
  <1>9. ASSUME NEW r \in Run, HelperExits(r)
        PROVE  BeatenStep(q)
    <2>1. CASE q = r
      <3>1. /\ held[q] = Helper /\ held'[q] = NoOne
            /\ UNCHANGED <<wf, receipt>>
        BY <1>9, <2>1 DEF HelperExits, TypeOK
      <3>2. Beaten(q)!HelperExits
        BY <3>1 DEF Beaten!HelperExits, StageOf
      <3>3. QED
        BY <3>2 DEF BeatenStep, Beaten!BNext
    <2>2. CASE q # r
      BY <1>9, <2>2, SameFiles DEF BeatenStep, HelperExits, TypeOK
    <2>3. QED
      BY <2>1, <2>2
  <1>10. ASSUME NEW r \in Run, Age(r)
         PROVE  BeatenStep(q)
    BY <1>10, WritesDirectory DEF Age
  <1>11. ASSUME NEW r \in Run, Expire(r)
         PROVE  BeatenStep(q)
    <2>1. CASE q = r
      <3>1. wf[q] = "open" /\ wf'[q] = "overdue" /\ UNCHANGED <<receipt, held>>
        BY <1>11, <2>1 DEF Expire, TypeOK
      <3>2. Beaten(q)!Expire
        BY <3>1 DEF Beaten!Expire, StageOf, Live
      <3>3. QED
        BY <3>2 DEF BeatenStep, Beaten!BNext
    <2>2. CASE q # r
      BY <1>11, <2>2, SameFiles DEF BeatenStep, Expire, TypeOK
    <2>3. QED
      BY <2>1, <2>2
  <1>12. ASSUME NEW w \in Worker,
                \/ StartScheduleRun(w) \/ Look(w) \/ BeatRefused(w)
                \/ FinishScheduleRun(w) \/ BeatMisleads(w) \/ FinishFails(w)
         PROVE  runVars' = runVars
    BY <1>12 DEF StartScheduleRun, Look, BeatRefused, FinishScheduleRun,
       BeatMisleads, FinishFails, runVars
  <1>13. ASSUME NEW w \in Worker, NEW r \in Run,
                \/ \E h \in Host : Launch(h, w, r) \/ Reconcile(h, w, r)
                \/ \E c \in Cli : RunByHand(c, w, r)
         PROVE  runVars' = runVars
    BY <1>13 DEF Launch, Reconcile, RunByHand, runVars
  <1>14. ASSUME NEW h \in Host,
                \/ \E declared \in {{}, Schedule} : HostStart(h, declared)
                \/ HostStop(h) \/ ManagerClose(h)
         PROVE  runVars' = runVars
    BY <1>14 DEF HostStart, HostStop, ManagerClose, runVars
  <1>15. CASE UNCHANGED vars
    BY <1>1, <1>15 DEF vars, runVars
  <1>16. QED
    BY SettlesIsSettle, <1>1, <1>2, <1>3, <1>4, <1>5, <1>6, <1>7, <1>8, <1>9,
       <1>10, <1>11, <1>12, <1>13, <1>14, <1>15 DEF Next, WorkStep

\* Each run by itself implements BeatenRun, whatever the other runs, the hosts,
\* `schedule run` and the drivers outside do.
THEOREM RunIsBeaten ==
  ASSUME NEW r \in Run
  PROVE  Spec => Beaten(r)!BSpec
  <1>1. Init => Beaten(r)!BInit
    BY DEF Init, Beaten!BInit, StageOf, Live, Ended
  <1>2. LedgerInductive /\ [Next]_vars => [Beaten(r)!BNext]_(Beaten(r)!bVars)
    BY StepBeaten DEF LedgerInductive, BeatenStep
  <1>3. QED
    BY <1>1, <1>2, Inductive, PTL DEF Spec, Beaten!BSpec

\* The same for all runs at once, as TLC checks it.
THEOREM RunsBeaten == Spec => RunsAreBeaten
  <1>1. Init => \A r \in Run : Beaten(r)!BInit
    BY DEF Init, Beaten!BInit, StageOf, Live, Ended
  <1>2. LedgerInductive /\ [Next]_vars
          => [\A r \in Run : [Beaten(r)!BNext]_(Beaten(r)!bVars)]_runVars
    BY StepBeaten DEF LedgerInductive, BeatenStep
  <1>3. QED
    BY <1>1, <1>2, Inductive, PTL DEF Spec, RunsAreBeaten

-----------------------------------------------------------------------------
(* And BeatenRun says all that the ledger must expect of other drivers.    *)

\* A driver outside takes a step of BeatenRun on run r: it beats it, dies at it,
\* its helper exits, or the deadline passes.  Nothing else changes, nor what
\* BeatenRun does not see of r.  Beats of an announced run are left out: they
\* change no file, and BeatRefused has what a worker sees of them.
Outside(r) ==
  /\ \/ Beaten(r)!Take(Other) /\ (wf[r] \in Live \/ r \notin receipt)
     \/ Beaten(r)!Settle(Other) \/ Beaten(r)!GiveUp(Other)
     \/ Beaten(r)!HelperExits \/ Beaten(r)!Expire
  /\ StageOf(r) # "none"
  /\ StageOf(r)' = StageOf(r) => wf'[r] = wf[r]
  /\ \A q \in Run \ {r} :
       wf'[q] = wf[q] /\ held'[q] = held[q] /\ (q \in receipt' <=> q \in receipt)
  /\ UNCHANGED <<row, hostVars, workVars>>

\* What counts as a fault: a death under an agent, a notice that is not written.
Costly(r) ==
  /\ held[r] = Other
  /\ \/ held'[r] = Helper
     \/ held'[r] = NoOne /\ wf[r] \in Ended /\ r \notin receipt'

\* Only the files of r are touched.
LEMMA FilesOf ==
  ASSUME TypeOK, TypeOK', NEW r \in Run, Outside(r)
  PROVE  /\ wf' = [wf EXCEPT ![r] = wf'[r]]
         /\ held' = [held EXCEPT ![r] = held'[r]]
         /\ (r \in receipt' <=> r \in receipt) => receipt' = receipt
         /\ r \in receipt' => receipt' = receipt \cup {r}
  <1>1. \A q \in Run : q # r =>
          wf'[q] = wf[q] /\ held'[q] = held[q] /\ (q \in receipt' <=> q \in receipt)
    BY DEF Outside
  <1>2. wf' = [wf EXCEPT ![r] = wf'[r]]
    BY <1>1 DEF TypeOK
  <1>3. held' = [held EXCEPT ![r] = held'[r]]
    BY <1>1 DEF TypeOK
  <1>4. receipt' \subseteq Run /\ receipt \subseteq Run
    BY DEF TypeOK
  <1>5. (r \in receipt' <=> r \in receipt) => receipt' = receipt
    BY <1>1, <1>4
  <1>6. r \in receipt' => receipt' = receipt \cup {r}
    BY <1>1, <1>4
  <1>7. QED
    BY <1>2, <1>3, <1>5, <1>6

\* The ledger has an action for it.  WrkRun implements BeatenRun, so nothing the
\* workflow runtime does to a run in another process is missing here.
THEOREM OutsidersCovered ==
  ASSUME TypeOK, TypeOK', NEW r \in Run, Outside(r),
         faults' = IF Costly(r) THEN faults + 1 ELSE faults
  PROVE  Next
  <1>1. UNCHANGED <<row, hostVars, workVars>>
    BY DEF Outside
  <1>2. /\ wf' = [wf EXCEPT ![r] = wf'[r]]
        /\ held' = [held EXCEPT ![r] = held'[r]]
    BY FilesOf
  <1>3. /\ (r \in receipt' <=> r \in receipt) => receipt' = receipt
        /\ r \in receipt' => receipt' = receipt \cup {r}
    BY FilesOf
  <1>4. /\ wf[r] \in Live \cup Ended <=> StageOf(r) # "none"
        /\ wf[r] \in Live <=> StageOf(r) \in Beaten(r)!Live
        /\ wf[r] \in Ended <=> StageOf(r) \in Beaten(r)!Ended
        /\ StageOf(r) # "none" => StageOf(r) = wf[r]
        /\ StageOf(r)' # "none" => StageOf(r)' = wf'[r]
    BY DEF StageOf, Live, Ended, Beaten!Live, Beaten!Ended
  <1>5. /\ Other # Helper /\ Other # NoOne /\ Helper # NoOne
        /\ Fault <=> Costly(r)
        /\ ~Costly(r) => faults' = faults
    BY ScheduleAssumption DEF Fault, TypeOK
  <1>6. CASE Beaten(r)!Take(Other) /\ (wf[r] \in Live \/ r \notin receipt)
    <2>1. /\ held[r] = NoOne /\ held'[r] = Other /\ wf[r] \in Live \cup Ended
          /\ StageOf(r)' \in Beaten(r)!AtTake(wf[r]) /\ receipt' = receipt
      BY <1>3, <1>4, <1>6 DEF Beaten!Take
    <2>2. \/ wf'[r] = wf[r] /\ wf[r] # "overdue"
          \/ wf'[r] = "failed" /\ wf[r] \in Live
      BY <1>4, <2>1 DEF Beaten!AtTake, Live, Ended
    <2>3. wf'[r] = wf[r] => wf' = wf
      BY <1>2 DEF TypeOK
    <2>4. Begins(r, Other)
      BY <1>2, <2>1, <2>2, <2>3 DEF Begins
    <2>5. ~Costly(r)
      BY <1>5, <2>1 DEF Costly
    <2>6. OtherBeat(r)
      BY <1>1, <1>5, <1>6, <2>1, <2>4, <2>5 DEF OtherBeat
    <2>7. QED
      BY <2>6 DEF Next
  <1>7. CASE Beaten(r)!Settle(Other)
    <2>1. /\ held[r] = Other /\ held'[r] = held[r] /\ wf[r] \in Live
          /\ wf'[r] \in Ended /\ receipt' = receipt
      BY <1>3, <1>4, <1>7 DEF Beaten!Settle, Beaten!Ended, Ended
    <2>2. held' = held
      BY <1>2, <2>1 DEF TypeOK
    <2>3. ~Costly(r)
      BY <1>5, <2>1 DEF Costly
    <2>4. Settles(r)
      BY <1>1, <1>2, <1>5, <2>1, <2>2, <2>3 DEF Settles
    <2>5. QED
      BY <2>4 DEF Next
  <1>8. CASE Beaten(r)!GiveUp(Other)
    <2>1. /\ held[r] = Other /\ StageOf(r)' = StageOf(r)
          /\ held'[r] = NoOne \/ held'[r] = Helper
          /\ held'[r] = Helper => StageOf(r) \in Beaten(r)!Live
          /\ \/ r \in receipt' <=> r \in receipt
             \/ StageOf(r) \in Beaten(r)!Ended /\ r \in receipt'
      BY <1>5, <1>8 DEF Beaten!GiveUp
    <2>2. wf' = wf /\ (r \notin receipt' => r \notin receipt)
      BY <1>2, <2>1 DEF Outside, TypeOK
    <2>3. CASE held'[r] = Helper
      <3>1. Costly(r) /\ receipt' = receipt /\ wf[r] \in Live
        BY <1>3, <1>4, <2>1, <2>3 DEF Costly, Live, Ended, Beaten!Live, Beaten!Ended
      <3>2. OtherBeatDies(r)
        BY <1>1, <1>2, <1>5, <2>1, <2>2, <2>3, <3>1 DEF OtherBeatDies
      <3>3. QED
        BY <3>2 DEF Next
    <2>4. CASE held'[r] = NoOne /\ wf[r] \in Ended /\ r \in receipt'
      <3>1. ~Costly(r) /\ receipt' = receipt \cup {r}
        BY <1>3, <1>5, <2>4 DEF Costly
      <3>2. Ends(r)
        BY <1>2, <1>5, <2>2, <2>4, <3>1 DEF Ends
      <3>3. OtherBeatEnds(r)
        BY <1>1, <2>1, <3>2 DEF OtherBeatEnds
      <3>4. QED
        BY <3>3 DEF Next
    <2>5. CASE held'[r] = NoOne /\ wf[r] \in Ended /\ r \notin receipt'
      <3>1. Costly(r) /\ receipt' = receipt /\ r \notin receipt
        BY <1>3, <2>1, <2>2, <2>5 DEF Costly
      <3>2. Ends(r)
        BY <1>2, <1>5, <2>2, <2>5, <3>1 DEF Ends
      <3>3. OtherBeatEnds(r)
        BY <1>1, <2>1, <3>2 DEF OtherBeatEnds
      <3>4. QED
        BY <3>3 DEF Next
    <2>6. CASE held'[r] = NoOne /\ wf[r] \in Live
      <3>1. ~Costly(r) /\ receipt' = receipt
        BY <1>3, <1>4, <1>5, <2>1, <2>6 DEF Costly, Live, Ended, Beaten!Ended
      <3>2. Ends(r)
        BY <1>2, <1>5, <2>2, <2>6, <3>1 DEF Ends
      <3>3. OtherBeatEnds(r)
        BY <1>1, <2>1, <3>2 DEF OtherBeatEnds
      <3>4. QED
        BY <3>3 DEF Next
    <2>7. wf[r] \in Live \cup Ended
      BY <1>4 DEF Outside
    <2>8. QED
      BY <2>1, <2>3, <2>4, <2>5, <2>6, <2>7
  <1>9. CASE Beaten(r)!HelperExits
    <2>1. /\ held[r] = Helper /\ held'[r] = NoOne /\ StageOf(r)' = StageOf(r)
          /\ receipt' = receipt
      BY <1>3, <1>9 DEF Beaten!HelperExits
    <2>2. wf' = wf
      BY <1>2, <2>1 DEF Outside, TypeOK
    <2>3. ~Costly(r)
      BY <1>5, <2>1 DEF Costly
    <2>4. HelperExits(r)
      BY <1>1, <1>2, <1>5, <2>1, <2>2, <2>3 DEF HelperExits
    <2>5. QED
      BY <2>4 DEF Next
  <1>10. CASE Beaten(r)!Expire
    <2>1. /\ wf[r] = "open" /\ wf'[r] = "overdue" /\ held'[r] = held[r]
          /\ receipt' = receipt
      BY <1>3, <1>4, <1>10 DEF Beaten!Expire
    <2>2. held' = held
      BY <1>2, <2>1 DEF TypeOK
    <2>3. ~Costly(r)
      BY <1>5, <2>1 DEF Costly
    <2>4. Expire(r)
      BY <1>1, <1>2, <1>5, <2>1, <2>2, <2>3 DEF Expire
    <2>5. QED
      BY <2>4 DEF Next
  <1>11. QED
    BY <1>6, <1>7, <1>8, <1>9, <1>10 DEF Outside
=============================================================================
