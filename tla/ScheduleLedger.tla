---------------------------- MODULE ScheduleLedger ----------------------------
(***************************************************************************)
(* Scheduled invocations: the rows of schedule_runs, the workflow runs     *)
(* they start, and everything that drives them.                            *)
(*                                                                         *)
(* A resident host (`shell3 service` or the Telegram host) owns            *)
(* schedule.lock and runs a manager with a cron clock and a reconcile      *)
(* loop; `schedule run` is a process of its own that takes no lock.  Every *)
(* firing and every reconciled row is a goroutine (a Worker) in            *)
(* Executor.Run or Executor.Resume.  The workflow router, `wrk run`, `wrk  *)
(* beat` and `wrk cancel` drive the same runs; beat.lock lets one of them  *)
(* through.                                                                *)
(*                                                                         *)
(* A beat is what BeatenRun says of it: the lock, perhaps the end of the   *)
(* run, and the release with its notice.  WrkRun has the detail.           *)
(***************************************************************************)
EXTENDS Integers, FiniteSets

CONSTANTS
  Run,        \* run ids in the order newRunID draws them: a time comes first
  Schedule,   \* schedules that may be declared
  For,        \* For[r]: the schedule a firing with id r is of
  Skip,       \* schedules declared (overlap skip)
  Host,       \* resident processes: service, Telegram
  Cli,        \* `schedule run` processes
  Worker,     \* bound on the goroutines that are in Run or Resume at a time,
              \* numbered: a new one takes the lowest free number
  Other,      \* the router, `wrk run`, `wrk beat` and `wrk cancel`
  Helper,     \* the agents that outlive a killed driver and keep its lock
  NoOne,      \* the holder of a free lock, the work of an idle goroutine
  MaxFaults   \* bound on crashes, stops and failed writes

ASSUME ScheduleAssumption ==
  /\ Run \subseteq Nat /\ Worker \subseteq Nat
  /\ For \in [Run -> Schedule] /\ Skip \subseteq Schedule
  /\ Host \cap Cli = {} /\ {Other, Helper} \cap Worker = {} /\ Other # Helper
  /\ NoOne \notin Host \cup Cli \cup Worker \cup Run \cup {Other, Helper}
  /\ MaxFaults \in Nat

VARIABLES
  row,       \* row[r]: schedule_runs.status, "none" before the insert
  wf,        \* wf[r]: the run directory, see Stage
  receipt,   \* runs whose terminal notice is persisted (notify.json)
  held,      \* held[r]: who holds the run's beat.lock
  host,      \* host[h]: life of resident process h
  armed,     \* armed[h]: the schedules its configuration declares
  clockLock, \* holder of schedule.lock
  by,        \* by[w]: the process goroutine w runs in
  on,        \* on[w]: the invocation it works on
  pc,        \* pc[w]: where it is in Run, Resume, drive or finishTerminal
  goal,      \* goal[w]: the status it is about to record
  faults     \* faults so far

runVars == <<wf, receipt, held>>
hostVars == <<host, armed, clockLock>>
workVars == <<by, on, pc, goal>>
vars == <<row, runVars, hostVars, workVars, faults>>

\* missing: no directory, and its row is older than startingGrace.
\* partial: a directory without the status file.
\* overdue: not ended, and its deadline has passed.
\* failed: also a cancelled run, which ends its row in the same way.
Live == {"open", "overdue"}
Ended == {"completed", "failed"}
Stage == {"absent", "missing", "partial"} \cup Live \cup Ended
WorkPc == {"off", "insert", "mkdir", "snapshot", "look", "beat",
           "beating", "confirm", "confirming", "finish"}

Init ==
  /\ row = [r \in Run |-> "none"]
  /\ wf = [r \in Run |-> "absent"]
  /\ receipt = {}
  /\ held = [r \in Run |-> NoOne]
  /\ host = [h \in Host |-> "down"] /\ armed = [h \in Host |-> {}]
  /\ clockLock = NoOne
  /\ by = [w \in Worker |-> NoOne] /\ on = [w \in Worker |-> NoOne]
  /\ pc = [w \in Worker |-> "off"] /\ goal = [w \in Worker |-> "none"]
  /\ faults = 0

Fault == faults < MaxFaults /\ faults' = faults + 1

Go(w, where) ==
  /\ pc' = [pc EXCEPT ![w] = where]
  /\ UNCHANGED <<by, on, goal>>

\* Run or Resume returns: the goroutine ends, and with it a `schedule run`.
Return(w) ==
  /\ pc' = [pc EXCEPT ![w] = "off"]
  /\ by' = [by EXCEPT ![w] = NoOne]
  /\ on' = [on EXCEPT ![w] = NoOne]
  /\ goal' = [goal EXCEPT ![w] = "none"]

\* complete and fail: what is left is the update of the row.
Finish(w, status) ==
  /\ goal' = [goal EXCEPT ![w] = status]
  /\ pc' = [pc EXCEPT ![w] = "finish"]
  /\ UNCHANGED <<by, on>>

Spawn(p, w, r, where) ==
  /\ pc[w] = "off" /\ \A v \in Worker : v < w => pc[v] # "off"
  /\ by' = [by EXCEPT ![w] = p]
  /\ on' = [on EXCEPT ![w] = r]
  /\ pc' = [pc EXCEPT ![w] = where]
  /\ UNCHANGED goal

\* The context of the goroutine's process is cancelled.
Cancelled(w) == by[w] \in Host /\ host[by[w]] # "up"

-----------------------------------------------------------------------------
(* Executor.Run: the row, then the run directory, then the route.          *)

Unused(r) ==
  /\ row[r] = "none" /\ \A w \in Worker : on[w] # r
  /\ \A q \in Run : q < r => row[q] # "none" \/ \E w \in Worker : on[w] = q

\* A cron entry fires.  The clock runs while the manager is up.
Launch(h, w, r) ==
  /\ host[h] = "up" /\ clockLock = h /\ For[r] \in armed[h]
  /\ Unused(r)
  /\ Spawn(h, w, r, "insert")
  /\ UNCHANGED <<row, runVars, hostVars, faults>>

\* `schedule run NAME`.
RunByHand(c, w, r) ==
  /\ \A v \in Worker : by[v] # c
  /\ Unused(r)
  /\ Spawn(c, w, r, "insert")
  /\ UNCHANGED <<row, runVars, hostVars, faults>>

Busy(s) == \E r \in Run : For[r] = s /\ row[r] = "running"

\* Bug: the statement does not look for a running row.
StartUnchecked(w) ==
  /\ pc[w] = "insert"
  /\ row' = [row EXCEPT ![on[w]] = "running"] /\ Go(w, "mkdir")
  /\ UNCHANGED <<runVars, hostVars, faults>>

\* One INSERT ... WHERE: checks the overlap and admits, or admits nothing.
StartScheduleRun(w) ==
  LET r == on[w] IN
  /\ pc[w] = "insert"
  /\ IF For[r] \in Skip /\ Busy(For[r])
       THEN Return(w) /\ UNCHANGED row
       ELSE row' = [row EXCEPT ![r] = "running"] /\ Go(w, "mkdir")
  /\ UNCHANGED <<runVars, hostVars, faults>>

\* wrk.Start makes the directory, fills it, writes status and the route.
StartRun(w) ==
  LET r == on[w] IN
  /\ \/ pc[w] = "mkdir" /\ Go(w, "snapshot") /\ wf' = [wf EXCEPT ![r] = "partial"]
     \/ pc[w] = "snapshot" /\ Go(w, "look") /\ wf' = [wf EXCEPT ![r] = "open"]
  /\ UNCHANGED <<row, receipt, held, hostVars, faults>>

\* It fails: a changed task, a full disk, or a route it cannot write, which
\* leaves a complete run behind.
StartFails(w) ==
  /\ pc[w] \in {"mkdir", "snapshot"}
  /\ Fault
  /\ \/ UNCHANGED wf
     \/ pc[w] = "snapshot" /\ wf' = [wf EXCEPT ![on[w]] = "open"]
  /\ Finish(w, "failed")
  /\ UNCHANGED <<row, receipt, held, hostVars>>

-----------------------------------------------------------------------------
(* The beats of run r.                                                     *)

\* Bug: a beat of a run that has ended starts it over.
BeginsAgain(r, p) ==
  /\ held[r] = NoOne /\ wf[r] \in Live \cup Ended
  /\ held' = [held EXCEPT ![r] = p]
  /\ \/ wf[r] = "overdue" /\ wf' = [wf EXCEPT ![r] = "failed"]
     \/ wf[r] # "overdue" /\ wf' = [wf EXCEPT ![r] = "open"]

\* The lock, and the end of a run whose deadline has passed or, perhaps, that
\* is marked cancelled.
Begins(r, p) ==
  /\ held[r] = NoOne /\ wf[r] \in Live \cup Ended
  /\ held' = [held EXCEPT ![r] = p]
  /\ \/ wf[r] # "overdue" /\ UNCHANGED wf
     \/ wf[r] \in Live /\ wf' = [wf EXCEPT ![r] = "failed"]

\* The beat finds all nodes passed, one failed, or the deadline passed while
\* its wave ran.  The status file says so while the lock is still held.
Settles(r) ==
  /\ held[r] \in Worker \cup {Other} /\ wf[r] \in Live
  /\ \E s \in Ended : wf' = [wf EXCEPT ![r] = s]
  /\ UNCHANGED <<row, receipt, held, hostVars, workVars, faults>>

\* The end of the beat; that of an ended run posts its notice if it can.
Ends(r) ==
  /\ held' = [held EXCEPT ![r] = NoOne]
  /\ \/ wf[r] \in Ended /\ receipt' = receipt \cup {r} /\ UNCHANGED faults
     \/ wf[r] \in Ended /\ r \notin receipt /\ Fault /\ UNCHANGED receipt
     \/ wf[r] \in Live /\ UNCHANGED <<receipt, faults>>
  /\ UNCHANGED wf

\* A beat of a run that has ended and was announced does nothing that anybody
\* looks at, but for the lock: see BeatRefused.
OtherBeat(r) ==
  /\ Begins(r, Other)
  /\ wf[r] \in Live \/ r \notin receipt
  /\ UNCHANGED <<row, receipt, hostVars, workVars, faults>>

OtherBeatEnds(r) ==
  /\ held[r] = Other
  /\ Ends(r)
  /\ UNCHANGED <<row, hostVars, workVars>>

\* Its process is killed under an agent, whose helper keeps the lock.
OtherBeatDies(r) ==
  /\ held[r] = Other /\ wf[r] \in Live
  /\ Fault
  /\ held' = [held EXCEPT ![r] = Helper]
  /\ UNCHANGED <<row, wf, receipt, hostVars, workVars>>

HelperExits(r) ==
  /\ held[r] = Helper
  /\ held' = [held EXCEPT ![r] = NoOne]
  /\ UNCHANGED <<row, wf, receipt, hostVars, workVars, faults>>

-----------------------------------------------------------------------------
(* Executor.drive and finishTerminal.                                      *)

\* Bug: a missing directory is excused for ever.
LookPatient(w) ==
  LET r == on[w] IN
  /\ pc[w] = "look"
  /\ \/ wf[r] \in {"absent", "missing"} /\ Return(w)
     \/ wf[r] = "partial" /\ Finish(w, "failed")
     \/ wf[r] \in Live /\ Go(w, "beat")
     \/ wf[r] \in Ended /\ Go(w, "confirm")
  /\ UNCHANGED <<row, runVars, hostVars, faults>>

\* Stat and Inspect.  A directory without its status file is an error, and a
\* missing one is only excused while the row is young.
Look(w) ==
  LET r == on[w] IN
  /\ pc[w] = "look"
  /\ \/ wf[r] = "absent" /\ Return(w)
     \/ wf[r] \in {"missing", "partial"} /\ Finish(w, "failed")
     \/ wf[r] \in Live /\ Go(w, "beat")
     \/ wf[r] \in Ended /\ Go(w, "confirm")
  /\ UNCHANGED <<row, runVars, hostVars, faults>>

\* Bugs: the row gets the status of the workflow; the notice is not awaited.
IfNotifiedRaw(w, notified) ==
  IF on[w] \in notified THEN Finish(w, wf[on[w]]) ELSE Return(w)
IfNotifiedOrNot(w, notified) ==
  Finish(w, IF wf[on[w]] = "completed" THEN "done" ELSE "failed")

\* TerminalNoticePersisted, after the confirming beat: without the notice the
\* row stays running.
IfNotified(w, notified) ==
  IF on[w] \in notified
    THEN Finish(w, IF wf[on[w]] = "completed" THEN "done" ELSE "failed")
    ELSE Return(w)

\* wrk.Beat gets the lock.  A stopped process does not go on with a run that
\* is unfinished and not marked cancelled.
BeatTakes(w) ==
  LET r == on[w] IN
  /\ \/ pc[w] = "beat" /\ Go(w, "beating")
     \/ pc[w] = "confirm" /\ Go(w, "confirming")
  /\ Begins(r, w)
  /\ Cancelled(w) => wf'[r] \notin Live
  /\ UNCHANGED <<row, receipt, hostVars, faults>>

\* ErrBeatOwned, or the stopped context.  Whether another process beats a run
\* that was announced is not recorded in held.
BeatRefused(w) ==
  LET r == on[w] IN
  /\ pc[w] \in {"beat", "confirm"}
  /\ held[r] # NoOne \/ r \in receipt \/ (Cancelled(w) /\ wf[r] \in Live)
  /\ \/ pc[w] = "beat" /\ Return(w)
     \/ pc[w] = "confirm" /\ IfNotified(w, receipt)
  /\ UNCHANGED <<row, runVars, hostVars, faults>>

\* The end of an overdue or cancelled run cannot be written; the result of
\* the beat names it all the same.
BeatMisleads(w) ==
  LET r == on[w] IN
  /\ pc[w] = "beat" /\ held[r] = NoOne /\ wf[r] \in Live
  /\ Fault
  /\ Go(w, "confirm")
  /\ UNCHANGED <<row, runVars, hostVars>>

\* The beat of drive returns.  An open run is driven on, or left: it waits,
\* or the beat failed or was stopped.
BeatReturns(w) ==
  LET r == on[w] IN
  /\ pc[w] = "beating"
  /\ Ends(r)
  /\ IF wf[r] \in Ended THEN Go(w, "confirm") ELSE Go(w, "look") \/ Return(w)
  /\ UNCHANGED <<row, hostVars>>

\* The confirming beat of finishTerminal posts a notice that is missing.
Confirms(w) ==
  /\ pc[w] = "confirming"
  /\ Ends(on[w])
  /\ IfNotified(w, receipt')
  /\ UNCHANGED <<row, hostVars>>

\* Bug: the update does not ask for a running row.
FinishAny(w) ==
  /\ pc[w] = "finish"
  /\ row' = [row EXCEPT ![on[w]] = goal[w]]
  /\ Return(w)
  /\ UNCHANGED <<runVars, hostVars, faults>>

\* UPDATE ... WHERE status='running': an ended row is left alone.
FinishScheduleRun(w) ==
  LET r == on[w] IN
  /\ pc[w] = "finish"
  /\ row' = IF row[r] = "running" THEN [row EXCEPT ![r] = goal[w]] ELSE row
  /\ Return(w)
  /\ UNCHANGED <<runVars, hostVars, faults>>

\* The update fails: the row stays as it is.
FinishFails(w) ==
  /\ pc[w] = "finish"
  /\ Fault
  /\ Return(w)
  /\ UNCHANGED <<row, runVars, hostVars>>

-----------------------------------------------------------------------------
(* The resident host, its clock lock, and the clock on the wall.           *)

\* Start: with nothing declared and nothing running it stays inert; else it
\* needs schedule.lock, without which the whole process gives up.
HostStart(h, declared) ==
  /\ host[h] = "down"
  /\ IF declared = {} /\ \A r \in Run : row[r] # "running"
       THEN UNCHANGED clockLock
       ELSE clockLock = NoOne /\ clockLock' = h
  /\ host' = [host EXCEPT ![h] = "up"]
  /\ armed' = [armed EXCEPT ![h] = declared]
  /\ UNCHANGED <<row, runVars, workVars, faults>>

\* The start and every five seconds: Resume for each row that is running.
Reconcile(h, w, r) ==
  /\ host[h] = "up" /\ clockLock = h /\ row[r] = "running"
  /\ Spawn(h, w, r, "look")
  /\ UNCHANGED <<row, runVars, hostVars, faults>>

\* SIGTERM cancels the context of the process.
HostStop(h) ==
  /\ host[h] = "up"
  /\ Fault
  /\ host' = [host EXCEPT ![h] = "closing"]
  /\ UNCHANGED <<row, runVars, armed, clockLock, workVars>>

\* Bug: the lock is given up before the goroutines have returned.
CloseEarly(h) ==
  /\ host[h] = "closing"
  /\ host' = [host EXCEPT ![h] = "down"]
  /\ armed' = [armed EXCEPT ![h] = {}]
  /\ clockLock' = IF clockLock = h THEN NoOne ELSE clockLock
  /\ UNCHANGED <<row, runVars, workVars, faults>>

\* Manager.Close stops the clock, waits for its goroutines and only then
\* gives up the lock.
ManagerClose(h) ==
  /\ host[h] = "closing"
  /\ \A w \in Worker : by[w] # h
  /\ host' = [host EXCEPT ![h] = "down"]
  /\ armed' = [armed EXCEPT ![h] = {}]
  /\ clockLock' = IF clockLock = h THEN NoOne ELSE clockLock
  /\ UNCHANGED <<row, runVars, workVars, faults>>

\* Process p dies: its goroutines are gone and its locks are free, but for
\* the beats under which an agent was at work.
Crash(p) ==
  LET mine == {w \in Worker : by[w] = p}
      freed == {r \in Run : held[r] \in mine} IN
  /\ IF p \in Host THEN host[p] # "down" ELSE mine # {}
  /\ Fault
  /\ host' = [h \in Host |-> IF h = p THEN "down" ELSE host[h]]
  /\ armed' = [h \in Host |-> IF h = p THEN {} ELSE armed[h]]
  /\ clockLock' = IF clockLock = p THEN NoOne ELSE clockLock
  /\ \E kept \in SUBSET {r \in freed : wf[r] \in Live} :
       held' = [r \in Run |-> IF r \in kept THEN Helper
                             ELSE IF r \in freed THEN NoOne ELSE held[r]]
  /\ by' = [w \in Worker |-> IF w \in mine THEN NoOne ELSE by[w]]
  /\ on' = [w \in Worker |-> IF w \in mine THEN NoOne ELSE on[w]]
  /\ pc' = [w \in Worker |-> IF w \in mine THEN "off" ELSE pc[w]]
  /\ goal' = [w \in Worker |-> IF w \in mine THEN "none" ELSE goal[w]]
  /\ UNCHANGED <<row, wf, receipt>>

\* startingGrace passes; only a row without a directory asks for it.
Age(r) ==
  /\ row[r] = "running" /\ wf[r] = "absent"
  /\ wf' = [wf EXCEPT ![r] = "missing"]
  /\ UNCHANGED <<row, receipt, held, hostVars, workVars, faults>>

\* The schedule's timeout is the run's deadline.
Expire(r) ==
  /\ wf[r] = "open"
  /\ wf' = [wf EXCEPT ![r] = "overdue"]
  /\ UNCHANGED <<row, receipt, held, hostVars, workVars, faults>>

WorkStep(w) ==
  \/ StartScheduleRun(w) \/ StartRun(w) \/ Look(w) \/ BeatTakes(w) \/ BeatRefused(w)
  \/ BeatReturns(w) \/ Confirms(w) \/ FinishScheduleRun(w)

Next ==
  \/ \E w \in Worker : WorkStep(w) \/ StartFails(w) \/ BeatMisleads(w) \/ FinishFails(w)
  \/ \E w \in Worker, r \in Run :
       \/ \E h \in Host : Launch(h, w, r) \/ Reconcile(h, w, r)
       \/ \E c \in Cli : RunByHand(c, w, r)
  \/ \E h \in Host :
       \/ \E declared \in {{}, Schedule} : HostStart(h, declared)
       \/ HostStop(h) \/ ManagerClose(h)
  \/ \E p \in Host \cup Cli : Crash(p)
  \/ \E r \in Run :
       \/ OtherBeat(r) \/ OtherBeatEnds(r) \/ OtherBeatDies(r) \/ HelperExits(r)
       \/ Settles(r) \/ Age(r) \/ Expire(r)

\* A live process goes on, the managers tick, clocks advance.  Restarts, new
\* firings and beats of others are never promised.  Strong fairness: another
\* invocation may hold the last free Worker whenever the reconcile loop ticks.
Fair ==
  /\ \A w \in Worker : WF_vars(WorkStep(w))
  /\ \A h \in Host : WF_vars(ManagerClose(h))
  /\ \A h \in Host, r \in Run : SF_vars(\E w \in Worker : Reconcile(h, w, r))
  /\ \A r \in Run : WF_vars(OtherBeatEnds(r) \/ HelperExits(r))
  /\ \A r \in Run : WF_vars(Age(r) \/ Expire(r))

Spec == Init /\ [][Next]_vars /\ Fair

-----------------------------------------------------------------------------
(* Properties.                                                             *)

\* Every variable keeps to its type; a row holds one of the three statuses
\* of the table, whatever way a workflow run can end.
TypeOK ==
  /\ row \in [Run -> {"none", "running", "done", "failed"}]
  /\ receipt \subseteq Run
  /\ wf \in [Run -> Stage]
  /\ held \in [Run -> Worker \cup {Other, Helper, NoOne}]
  /\ host \in [Host -> {"down", "up", "closing"}]
  /\ armed \in [Host -> SUBSET Schedule]
  /\ clockLock \in Host \cup {NoOne}
  /\ by \in [Worker -> Host \cup Cli \cup {NoOne}]
  /\ on \in [Worker -> Run \cup {NoOne}]
  /\ pc \in [Worker -> WorkPc]
  /\ goal \in [Worker -> {"none", "done", "failed"}]
  /\ faults \in 0..MaxFaults

\* Two invocations of a schedule declared (overlap skip) are never both
\* running in the ledger, although the clock's process and `schedule run` in
\* another process admit them without a common lock.
SkipAlone ==
  \A q, r \in Run :
    q # r /\ For[q] = For[r] /\ For[q] \in Skip => {row[q], row[r]} # {"running"}

\* A manager's goroutine runs under schedule.lock to its end: a second host
\* that takes the lock never meets the clock or the reconcile loop of the one
\* before, not even while that one shuts down.
ClockOwned == \A w \in Worker : by[w] \in Host => clockLock = by[w]

\* A row says done only when the graph was completed and its notice is on
\* disk, whoever ended the run, and however often the notice failed before.
DoneIsDelivered == \A r \in Run : row[r] = "done" => wf[r] = "completed" /\ r \in receipt

\* A finished row is never changed again, however many goroutines of this and
\* of other processes still hold the invocation and finish it once more.
RowFinal == [][\A r \in Run : row[r] \in {"done", "failed"} => row'[r] = row[r]]_vars

\* While some host keeps the clock, every running row is finished in the end:
\* after a crash between the row and the run directory, after a lost notice or
\* a failed update, after a beat somebody else owned, and although the
\* schedule may have been removed from the configuration.
RowSettles ==
  \A r \in Run : row[r] = "running" ~> row[r] # "running" \/ clockLock = NoOne

\* What docs/internals.md says of a row: it is finalized only when the graph
\* has ended.  Not so: a reconcile that meets a directory wrk.Start has made
\* but not yet filled records a failure, and the run goes on.
FailedIsFailed == \A r \in Run : row[r] = "failed" => wf[r] \notin {"open", "completed"}

\* Every run of the ledger is a run as BeatenRun has it, whoever beats it: one
\* driver at a time, an end that is never replaced, no notice but of the end,
\* an overdue run that is failed by the next driver.
StageOf(r) == IF wf[r] \in Live \cup Ended THEN wf[r] ELSE "none"

Beaten(r) == INSTANCE BeatenRun WITH
  Driver <- Worker \cup {Other}, Helper <- Helper, NoOne <- NoOne,
  stage <- StageOf(r), told <- r \in receipt, holder <- held[r]

RunsAreBeaten ==
  /\ \A r \in Run : Beaten(r)!BInit
  /\ [][\A r \in Run : [Beaten(r)!BNext]_(Beaten(r)!bVars)]_runVars
=============================================================================
