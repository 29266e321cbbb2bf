--------------------------- MODULE BackgroundJobs ---------------------------
(***************************************************************************)
(* Managed background commands (internal/shell3): the job manager of a     *)
(* host process, the running markers in SQLite, the completion notices in  *)
(* the main inbox, the timed progress checks, and the recovery that turns  *)
(* the markers of dead processes into failure notices.                     *)
(*                                                                         *)
(* A job lives in the memory of one process; its command is a process      *)
(* group of its own that survives a killed host.  Each step is one         *)
(* critical section of jobManager.mu or one durable write.                 *)
(***************************************************************************)
EXTENDS Integers, FiniteSets

CONSTANTS
  Job,         \* commands that may be started, each at most once
  Home,        \* Home[j]: the host whose agent starts j
  Room,        \* conversations of a host
  Parent,      \* Parent[j]: the conversation that owns j
  Host,        \* processes with a job manager over the same SQLite file
  Recoverer,   \* the host that runs RecoverBackgroundJobs when it boots
  Cap,         \* the job manager's max
  CanReExec,   \* the host may restart itself by exec, keeping its PID
  Pid,         \* process ids of the system; 0 is no process
  MaxImages,   \* bound on the program images of a host
  MaxCrashes,  \* bound on SIGKILLs
  MaxErrors    \* bound on failed reads and writes

ASSUME JobsAssumption ==
  /\ IsFiniteSet(Job) /\ Home \in [Job -> Host] /\ Parent \in [Job -> Room]
  /\ Recoverer \in Host
  /\ Cap \in Nat \ {0} /\ CanReExec \in BOOLEAN /\ 0 \notin Pid
  /\ MaxImages \in Nat \ {0} /\ MaxCrashes \in Nat /\ MaxErrors \in Nat

VARIABLES
  host,      \* host[h]: where process h is
  image,     \* image[h]: program images of h so far
  pid,       \* pid[h]: its process id, or its last one; kept by an exec
  stage,     \* stage[j]: where j is in startCommand or finishCommand
  by,        \* by[j]: process id that admitted j, the PID of its marker
  command,   \* command[j]: what the process group of j did
  suppress,  \* jobs with bgJob.suppress
  shutdown,  \* jobs with bgJob.shutdownCancel
  stopped,   \* jobs whose context is cancelled
  marker,    \* jobs with a row in background_jobs
  unmarked,  \* jobs whose row could not be inserted
  told,      \* told[j]: completion notices of j put in the inbox
  lost,      \* lost[j]: "its final result was lost" notices of j
  killed,    \* jobs a /superstop summary told the user about
  checks,    \* jobs with a pending progress check
  due,       \* checks whose time has come
  todo,      \* rows RecoverBackgroundJobs has still to look at
  dropping,  \* the row whose notice is written and which is to be deleted
  reused,    \* rows whose process id an unrelated process has got
  crashes, errors,
  cuts       \* exits and execs in the middle of a Close

hostVars == <<host, image, pid>>
jobVars == <<stage, by, command>>
flagVars == <<suppress, shutdown, stopped, killed>>
rowVars == <<marker, unmarked>>
noticeVars == <<told, lost>>
checkVars == <<checks, due>>
bootVars == <<todo, dropping, reused>>
boundVars == <<crashes, errors, cuts>>
vars == <<hostVars, jobVars, flagVars, rowVars, noticeVars, checkVars, bootVars, boundVars>>

InJobs == {"admitted", "marked", "running", "exited", "finished", "telling",
           "clear", "forget"}
Stage == InJobs \cup {"unborn", "failing", "gone"}

JobsOf(h) == {j \in Job : Home[j] = h}
Live(h) == {j \in JobsOf(h) : stage[j] \in InJobs}

\* pidAlive: some process has the id, whichever that is.
Held(p) == \E h \in Host : host[h] # "down" /\ pid[h] = p
Alive(j) == Held(by[j]) \/ j \in reused

Init ==
  /\ host = [h \in Host |-> "down"]
  /\ image = [h \in Host |-> 0] /\ pid = [h \in Host |-> 0]
  /\ stage = [j \in Job |-> "unborn"] /\ by = [j \in Job |-> 0]
  /\ command = [j \in Job |-> "none"]
  /\ suppress = {} /\ shutdown = {} /\ stopped = {} /\ killed = {}
  /\ marker = {} /\ unmarked = {}
  /\ told = [j \in Job |-> 0] /\ lost = [j \in Job |-> 0]
  /\ checks = {} /\ due = {} /\ todo = {} /\ dropping = {} /\ reused = {}
  /\ crashes = 0 /\ errors = 0 /\ cuts = 0

At(j, where) == stage' = [stage EXCEPT ![j] = where]

\* A read or write that fails; so does every one of a recovery still at work
\* when the SIGTERM watcher has closed its store.
Fails == errors < MaxErrors /\ errors' = errors + 1 /\ UNCHANGED <<crashes, cuts>>

-----------------------------------------------------------------------------
(* startCommand.                                                           *)

\* Admission, one critical section: the cap, the check, the live job.
Admit(j) ==
  /\ host[Home[j]] = "serving" /\ stage[j] = "unborn"
  /\ Cardinality(Live(Home[j])) < Cap
  /\ At(j, "admitted")
  /\ by' = [by EXCEPT ![j] = pid[Home[j]]]
  /\ checks' \in {checks, checks \cup {j}}
  /\ UNCHANGED <<hostVars, command, flagVars, rowVars, noticeVars, due, bootVars, boundVars>>

PutMarker(j) ==
  /\ stage[j] = "admitted" /\ At(j, "marked")
  /\ \/ /\ marker' = marker \cup {j}
        /\ UNCHANGED <<unmarked, boundVars>>
     \/ /\ Fails
        /\ unmarked' = unmarked \cup {j}
        /\ UNCHANGED marker
  /\ UNCHANGED <<hostVars, by, command, flagVars, noticeVars, checkVars, bootVars>>

Launch(j) ==
  /\ stage[j] = "marked" /\ j \notin stopped
  /\ At(j, "running")
  /\ command' = [command EXCEPT ![j] = "alive"]
  /\ UNCHANGED <<hostVars, by, flagVars, rowVars, noticeVars, checkVars, bootVars, boundVars>>

\* cmd.Start fails: no such directory, or the context is already cancelled.
LaunchFails(j) ==
  /\ stage[j] = "marked" /\ At(j, "failing")
  /\ checks' = checks \ {j} /\ due' = due \ {j}
  /\ UNCHANGED <<hostVars, by, command, flagVars, rowVars, noticeVars, bootVars, boundVars>>

Unmark(j) ==
  /\ stage[j] = "failing" /\ At(j, "gone")
  /\ \/ marker' = marker \ {j} /\ UNCHANGED boundVars
     \/ Fails /\ UNCHANGED marker
  /\ UNCHANGED <<hostVars, by, command, flagVars, unmarked, noticeVars, checkVars, bootVars>>

-----------------------------------------------------------------------------
(* The command and finishCommand.                                          *)

CommandEnds(j) ==
  /\ command[j] = "alive"
  /\ \/ command' = [command EXCEPT ![j] = "done"]
     \/ j \in stopped /\ command' = [command EXCEPT ![j] = "killed"]
  /\ UNCHANGED <<hostVars, stage, by, flagVars, rowVars, noticeVars, checkVars, bootVars, boundVars>>

\* cmd.Wait returns; finishCommand has not taken the lock yet.
Reap(j) ==
  /\ stage[j] = "running" /\ command[j] # "alive"
  /\ At(j, "exited")
  /\ UNCHANGED <<hostVars, by, command, flagVars, rowVars, noticeVars, checkVars, bootVars, boundVars>>

MarkFinished(j) ==
  /\ stage[j] = "exited" /\ At(j, "finished")
  /\ UNCHANGED <<hostVars, by, command, flagVars, rowVars, noticeVars, checkVars, bootVars, boundVars>>

\* persistCommandCompletion copies the two flags and drops the lock.
ReadFlags(j) ==
  /\ stage[j] = "finished"
  /\ At(j, IF j \in suppress THEN "clear"
           ELSE IF j \in shutdown THEN "forget" ELSE "telling")
  /\ UNCHANGED <<hostVars, by, command, flagVars, rowVars, noticeVars, checkVars, bootVars, boundVars>>

\* Faulty variant: the marker stays after the notice.
TellKeepsMarker(j) ==
  /\ stage[j] = "telling"
  /\ told' = [told EXCEPT ![j] = @ + 1]
  /\ At(j, "forget")
  /\ UNCHANGED <<hostVars, by, command, flagVars, rowVars, lost, checkVars, bootVars, boundVars>>

\* A notice the inbox refuses leaves the marker for recovery.
Tell(j) ==
  /\ stage[j] = "telling"
  /\ \/ /\ told' = [told EXCEPT ![j] = @ + 1]
        /\ At(j, "clear")
        /\ UNCHANGED boundVars
     \/ Fails /\ At(j, "forget") /\ UNCHANGED told
  /\ UNCHANGED <<hostVars, by, command, flagVars, rowVars, lost, checkVars, bootVars>>

ClearMarker(j) ==
  /\ stage[j] = "clear" /\ At(j, "forget")
  /\ \/ marker' = marker \ {j} /\ UNCHANGED boundVars
     \/ Fails /\ UNCHANGED marker
  /\ UNCHANGED <<hostVars, by, command, flagVars, unmarked, noticeVars, checkVars, bootVars>>

\* The live job goes away; a check it was promised stays.
Forget(j) ==
  /\ stage[j] = "forget" /\ At(j, "gone")
  /\ UNCHANGED <<hostVars, by, command, flagVars, rowVars, noticeVars, checkVars, bootVars, boundVars>>

\* The context of a job that /superstop or a closing host has marked.
Cancel(j) ==
  /\ stage[j] \in InJobs /\ j \in (suppress \cup shutdown) \ stopped
  /\ stopped' = stopped \cup {j}
  /\ UNCHANGED <<hostVars, jobVars, suppress, shutdown, killed, rowVars, noticeVars,
                 checkVars, bootVars, boundVars>>

StartStep(j) == PutMarker(j) \/ Launch(j) \/ LaunchFails(j) \/ Unmark(j)
FinishStep(j) ==
  Reap(j) \/ MarkFinished(j) \/ ReadFlags(j) \/ Tell(j) \/ ClearMarker(j) \/ Forget(j)

-----------------------------------------------------------------------------
(* /superstop and the progress checks.                                     *)

\* killAllForStop: every live job is marked and listed, every check dropped.
Superstop(h) ==
  /\ host[h] = "serving" /\ Live(h) \cup checks # {}
  /\ suppress' = suppress \cup Live(h)
  /\ killed' = killed \cup Live(h)
  /\ checks' = checks \ JobsOf(h) /\ due' = due \ JobsOf(h)
  /\ UNCHANGED <<hostVars, jobVars, shutdown, stopped, rowVars, noticeVars, bootVars, boundVars>>

\* PollJob with a delay: the job runs, is unfinished and not being stopped.
Poll(j) ==
  /\ host[Home[j]] = "serving"
  /\ stage[j] \in {"running", "exited"}
  /\ j \notin suppress \cup shutdown
  /\ checks' = checks \cup {j} /\ due' = due \ {j}
  /\ UNCHANGED <<hostVars, jobVars, flagVars, rowVars, noticeVars, bootVars, boundVars>>

\* PollJob without a delay removes a check even after completion; so does
\* SendInbox once the conversation has read the completion.
CancelPoll(j) ==
  /\ host[Home[j]] = "serving" /\ j \in checks
  /\ checks' = checks \ {j} /\ due' = due \ {j}
  /\ UNCHANGED <<hostVars, jobVars, flagVars, rowVars, noticeVars, bootVars, boundVars>>

\* ClearJobPolls: /stop, /new, a cancelled turn.
ClearPolls(h, r) ==
  LET mine == {j \in JobsOf(h) : Parent[j] = r} IN
  /\ host[h] = "serving" /\ mine \cap checks # {}
  /\ checks' = checks \ mine /\ due' = due \ mine
  /\ UNCHANGED <<hostVars, jobVars, flagVars, rowVars, noticeVars, bootVars, boundVars>>

CheckDue(j) ==
  /\ j \in checks \ due
  /\ due' = due \cup {j}
  /\ UNCHANGED <<hostVars, jobVars, flagVars, rowVars, noticeVars, checks, bootVars, boundVars>>

\* TakeDueJobPolls: every due check of the room becomes one turn.
TakeDue(h, r) ==
  LET mine == {j \in JobsOf(h) : Parent[j] = r} \cap due IN
  /\ host[h] = "serving" /\ mine # {}
  /\ checks' = checks \ mine /\ due' = due \ mine
  /\ UNCHANGED <<hostVars, jobVars, flagVars, rowVars, noticeVars, bootVars, boundVars>>

-----------------------------------------------------------------------------
(* The life of a host process.                                             *)

\* The new process has any free id, that of its predecessor too.
Boot(h) ==
  /\ host[h] = "down" /\ image[h] < MaxImages
  /\ host' = [host EXCEPT ![h] = IF h = Recoverer THEN "boot" ELSE "serving"]
  /\ image' = [image EXCEPT ![h] = @ + 1]
  /\ \E p \in Pid : ~Held(p) /\ pid' = [pid EXCEPT ![h] = p]
  /\ UNCHANGED <<jobVars, flagVars, rowVars, noticeVars, checkVars, bootVars, boundVars>>

\* Runtime.Close: cancelAll closes admission, drops the checks and marks every
\* live job before it cancels one.  "closing" is the Close that the host waits
\* for, "hurried" the one of the watcher goroutine that SIGTERM sets going.
CloseBegin(h) ==
  /\ host[h] = "serving" /\ image[h] < MaxImages
  /\ \E way \in {"closing", "hurried"} : host' = [host EXCEPT ![h] = way]
  /\ shutdown' = shutdown \cup Live(h)
  /\ checks' = checks \ JobsOf(h) /\ due' = due \ JobsOf(h)
  /\ UNCHANGED <<image, pid, jobVars, suppress, stopped, killed, rowVars, noticeVars,
                 bootVars, boundVars>>

\* Faulty variant: Close waits until no job is listed as live.
CloseDoneEarly(h) ==
  /\ host[h] \in {"closing", "hurried"} /\ Live(h) = {}
  /\ host' = [host EXCEPT ![h] = "closed"]
  /\ UNCHANGED <<image, pid, jobVars, flagVars, rowVars, noticeVars, checkVars,
                 bootVars, boundVars>>

\* wg.Wait: every admitted job has unwound; then the store is closed.
CloseDone(h) ==
  /\ host[h] \in {"closing", "hurried"}
  /\ \A j \in JobsOf(h) : stage[j] \in {"unborn", "gone"}
  /\ host' = [host EXCEPT ![h] = "closed"]
  /\ UNCHANGED <<image, pid, jobVars, flagVars, rowVars, noticeVars, checkVars,
                 bootVars, boundVars>>

Exit(h) ==
  /\ host[h] = "closed"
  /\ host' = [host EXCEPT ![h] = "down"]
  /\ UNCHANGED <<image, pid, jobVars, flagVars, rowVars, noticeVars, checkVars,
                 bootVars, boundVars>>

\* The deferred syscall.Exec: a new image in the same process.
ReExec(h) ==
  /\ CanReExec /\ h = Recoverer
  /\ host[h] = "closed" /\ image[h] < MaxImages
  /\ host' = [host EXCEPT ![h] = "boot"]
  /\ image' = [image EXCEPT ![h] = @ + 1]
  /\ UNCHANGED <<pid, jobVars, flagVars, rowVars, noticeVars, checkVars, bootVars, boundVars>>

\* The memory of the host is gone, its commands run on.
MemoryGone(h) ==
  /\ stage' = [j \in Job |-> IF j \in JobsOf(h) /\ stage[j] # "unborn" THEN "gone"
                                                                       ELSE stage[j]]
  /\ checks' = checks \ JobsOf(h) /\ due' = due \ JobsOf(h)
  /\ IF h = Recoverer THEN todo' = {} /\ dropping' = {} /\ reused' = {}
                      ELSE UNCHANGED bootVars
  /\ UNCHANGED <<by, command, flagVars, rowVars, noticeVars, errors>>

\* Close is the watcher's, which has got as far as rt.closed or further: the
\* deferred Close of the host returns at once, and the host goes on without it.
Cut(h) ==
  /\ host[h] \in {"serving", "hurried"} /\ image[h] < MaxImages
  /\ cuts' = cuts + 1 /\ MemoryGone(h)
  /\ UNCHANGED <<pid, crashes>>

ExitEarly(h) ==
  /\ Cut(h)
  /\ host' = [host EXCEPT ![h] = "down"]
  /\ UNCHANGED image

\* A SIGTERM that meets a restart.
ReExecEarly(h) ==
  /\ CanReExec /\ h = Recoverer /\ Cut(h)
  /\ host' = [host EXCEPT ![h] = "boot"]
  /\ image' = [image EXCEPT ![h] = @ + 1]

\* SIGKILL.
Crash(h) ==
  /\ host[h] # "down" /\ image[h] < MaxImages
  /\ crashes < MaxCrashes /\ crashes' = crashes + 1
  /\ host' = [host EXCEPT ![h] = "down"]
  /\ MemoryGone(h)
  /\ UNCHANGED <<image, pid, cuts>>

-----------------------------------------------------------------------------
(* RecoverBackgroundJobs.                                                  *)

RecoverList(h) ==
  /\ h = Recoverer /\ host[h] = "boot"
  /\ host' = [host EXCEPT ![h] = "recover"]
  /\ \/ /\ todo' = marker
        /\ reused' \in SUBSET {j \in marker : ~Held(by[j])}
        /\ UNCHANGED boundVars
     \/ Fails /\ UNCHANGED <<todo, reused>>
  /\ UNCHANGED <<image, pid, jobVars, flagVars, rowVars, noticeVars, checkVars, dropping>>

\* Faulty variant: the process id of the row is not looked up.
RecoverSkipDead(j) ==
  /\ dropping = {} /\ j \in todo
  /\ todo' = todo \ {j}
  /\ UNCHANGED <<hostVars, jobVars, flagVars, rowVars, noticeVars, checkVars, dropping,
                 reused, boundVars>>

RecoverSkip(j) ==
  /\ dropping = {} /\ j \in todo /\ Alive(j)
  /\ todo' = todo \ {j}
  /\ UNCHANGED <<hostVars, jobVars, flagVars, rowVars, noticeVars, checkVars, dropping,
                 reused, boundVars>>

\* Faulty variant: the row is deleted before the notice is written.
RecoverDropFirst(j) ==
  /\ dropping = {} /\ j \in todo /\ ~Alive(j)
  /\ todo' = todo \ {j}
  /\ marker' = marker \ {j}
  /\ \/ lost' = [lost EXCEPT ![j] = @ + 1] /\ UNCHANGED boundVars
     \/ Fails /\ UNCHANGED lost
  /\ UNCHANGED <<hostVars, jobVars, flagVars, unmarked, told, checkVars, dropping, reused>>

RecoverTell(j) ==
  /\ dropping = {} /\ j \in todo /\ ~Alive(j)
  /\ todo' = todo \ {j}
  /\ \/ /\ lost' = [lost EXCEPT ![j] = @ + 1]
        /\ dropping' = {j}
        /\ UNCHANGED boundVars
     \/ Fails /\ UNCHANGED <<lost, dropping>>
  /\ UNCHANGED <<hostVars, jobVars, flagVars, rowVars, told, checkVars, reused>>

RecoverDrop(j) ==
  /\ j \in dropping
  /\ dropping' = {}
  /\ \/ marker' = marker \ {j} /\ UNCHANGED boundVars
     \/ Fails /\ UNCHANGED marker
  /\ UNCHANGED <<hostVars, jobVars, flagVars, unmarked, noticeVars, checkVars, todo, reused>>

RecoverDone(h) ==
  /\ host[h] = "recover" /\ todo = {} /\ dropping = {}
  /\ host' = [host EXCEPT ![h] = "serving"]
  /\ UNCHANGED <<image, pid, jobVars, flagVars, rowVars, noticeVars, checkVars,
                 bootVars, boundVars>>

RecoverStep ==
  \/ RecoverList(Recoverer) \/ RecoverDone(Recoverer)
  \/ \E j \in Job : RecoverSkip(j) \/ RecoverTell(j) \/ RecoverDrop(j)

Next ==
  \/ \E j \in Job :
        \/ Admit(j) \/ StartStep(j) \/ CommandEnds(j) \/ FinishStep(j) \/ Cancel(j)
        \/ Poll(j) \/ CancelPoll(j) \/ CheckDue(j)
  \/ \E h \in Host :
        \/ Superstop(h) \/ Boot(h) \/ CloseBegin(h) \/ CloseDone(h) \/ Exit(h)
        \/ ReExec(h) \/ ExitEarly(h) \/ ReExecEarly(h) \/ Crash(h)
  \/ \E h \in Host, r \in Room : ClearPolls(h, r) \/ TakeDue(h, r)
  \/ RecoverStep

Spec == Init /\ [][Next]_vars

\* Goroutines run; the process group of a cancelled job is killed within
\* bgWaitDelay; a host that went down is started again; a boot goes on.
Fairness ==
  /\ \A j \in Job :
        /\ WF_vars(StartStep(j)) /\ WF_vars(FinishStep(j)) /\ WF_vars(Cancel(j))
        /\ WF_vars(j \in stopped /\ CommandEnds(j))
  /\ WF_vars(Boot(Recoverer)) /\ WF_vars(RecoverStep)
  /\ \A h \in Host : WF_vars(CloseDone(h)) /\ WF_vars(Exit(h) \/ ReExec(h))

FairSpec == Spec /\ Fairness

-----------------------------------------------------------------------------
(* Properties.                                                             *)

\* Every variable has its type.
TypeOK ==
  /\ host \in [Host -> {"down", "boot", "recover", "serving", "closing",
                     "hurried", "closed"}]
  /\ image \in [Host -> 0..MaxImages] /\ pid \in [Host -> Pid \cup {0}]
  /\ stage \in [Job -> Stage]
  /\ by \in [Job -> Pid \cup {0}]
  /\ command \in [Job -> {"none", "alive", "done", "killed"}]
  /\ suppress \subseteq Job /\ shutdown \subseteq Job /\ stopped \subseteq Job
  /\ killed \subseteq Job /\ marker \subseteq Job /\ unmarked \subseteq Job
  /\ told \in [Job -> Nat] /\ lost \in [Job -> Nat]
  /\ checks \subseteq Job /\ due \subseteq checks
  /\ todo \subseteq Job /\ dropping \subseteq Job /\ reused \subseteq Job
  /\ crashes \in 0..MaxCrashes /\ errors \in 0..MaxErrors /\ cuts \in Nat

\* The result of a command that was started is never forgotten: a job manager
\* still has it, or its marker will be recovered, or a notice reported it, or
\* /superstop told the user.  The one exception is a marker that could not be
\* inserted, which startCommand only logs.
ResultKept ==
  \A j \in Job : command[j] # "none" =>
     \/ stage[j] \in InJobs \/ j \in marker \cup killed \cup unmarked
     \/ told[j] + lost[j] > 0

\* A completion notice tells what the command did: an exit that /superstop or
\* a closing host brought about is never reported as the command's own.
ToldIsReal == \A j \in Job : told[j] > 0 => command[j] = "done"

\* background_recovery.go: "a crash can duplicate a report but cannot lose
\* it".  A command of the host that recovers is reported once, and once more for
\* each crash, each failed write and each SIGTERM whose Close the process did not
\* wait for.  Not so for a command of another host, which may tell its result
\* and end while the recovery works through its list.
DuplicateNeedsFault ==
  \A j \in Job :
     Home[j] = Recoverer => told[j] + lost[j] <= 1 + crashes + errors + cuts

\* What the agents may rely on is CommandPromise: no process without somebody
\* who answers for it, whatever is stopped, killed or replaced; nobody lets go
\* of an unreported result; what is told is the command's own end, and nobody
\* tells it once all have let go.
Promise == INSTANCE CommandPromise WITH
  Command <- Job, taken <- {j \in Job : stage[j] # "unborn"},
  kept <- {j \in Job : stage[j] \in InJobs} \cup marker,
  state <- command, excused <- killed \cup unmarked

KeepsPromise == Promise!PSpec

\* A progress check belongs to a job of this host that was really started (or
\* is being started), and never to one that was stopped.
CheckFounded ==
  \A j \in checks :
     /\ host[Home[j]] = "serving" /\ j \notin suppress \cup shutdown
     /\ command[j] # "none" \/ stage[j] \in {"admitted", "marked"}

\* Once Close has joined the jobs and closed the store, no job goroutine is
\* left that could write a marker or a notice.
StoreQuiet ==
  \A h \in Host : host[h] = "closed" =>
     \A j \in JobsOf(h) : stage[j] \in {"unborn", "gone"}

\* internals.md: "/superstop marks jobs suppressed, kills their process
\* groups, and removes their markers without manufacturing notices".
SuperstopSilent ==
  [][\A j \in killed : told'[j] = told[j] /\ lost'[j] = lost[j]]_vars

\* operations.md: "A background command interrupted by shutdown keeps its
\* SQLite marker so the next runtime can report the loss".  A marker whose
\* process has ended is reported by the next boot, unless a read or write fails,
\* or the boot met the id of the dead process in use, its own or another's.
LossReported ==
  \A j \in Job :
     Home[j] = Recoverer /\ j \in marker /\ host[Home[j]] = "down"
        ~> \/ told[j] + lost[j] > 0 \/ j \notin marker \/ errors > 0
           \/ host[Recoverer] \notin {"down", "boot"} /\ Alive(j)

\* operations.md: "Graceful shutdown cancels live model work and managed
\* background process groups".  Said of every shutdown that is not a kill.
ShutdownCancels ==
  \A j \in Job :
     crashes = 0 /\ host[Home[j]] = "down" /\ command[j] = "alive" => j \in stopped

\* The same for a process that replaced itself: the marker of an image that is
\* gone is reported by the next one.
LossReportedByNext ==
  \A j \in Job :
     Home[j] = Recoverer /\ j \in marker /\ host[Home[j]] = "closed"
        ~> told[j] + lost[j] > 0 \/ j \notin marker

\* A graceful close ends: every job it cancels unwinds.
CloseReturns ==
  \A h \in Host : host[h] = "closing" ~> host[h] \in {"closed", "down", "boot"}
=============================================================================
