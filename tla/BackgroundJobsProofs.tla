------------------------ MODULE BackgroundJobsProofs ------------------------
(***************************************************************************)
(* The safety properties of BackgroundJobs, for any number of jobs, rooms  *)
(* and hosts, any cap and any bounds on restarts and faults.  As in        *)
(* WrkRunProofs, an inductive invariant says what a process at each place  *)
(* of the code may rely on; one lemma per conjunct, one step per action.   *)
(***************************************************************************)
EXTENDS BackgroundJobs, TLAPS

\* A job is in the memory of the process that admitted it.
LiveHere ==
  \A j \in Job : stage[j] \in InJobs \cup {"failing"} =>
     host[Home[j]] \in {"serving", "closing", "hurried"} /\ pid[Home[j]] = by[j]

\* What a job's place in startCommand or finishCommand says of its command.
CommandByStage ==
  \A j \in Job :
     /\ stage[j] \in {"unborn", "admitted", "marked", "failing"} => command[j] = "none"
     /\ stage[j] = "running" => command[j] # "none"
     /\ stage[j] \in {"exited", "finished", "telling", "clear", "forget"} =>
          command[j] \in {"done", "killed"}
     /\ stage[j] = "telling" => command[j] = "done"
     /\ command[j] = "killed" => j \in stopped

\* A context is cancelled only after the job is marked, and /superstop tells
\* the user of every job it marks.
StoppedMarked ==
  /\ stopped \subseteq suppress \cup shutdown /\ suppress \subseteq killed
  /\ \A j \in Job : stage[j] = "unborn" => j \notin suppress \cup shutdown

\* Until the outcome is decided the row is there; it is deleted for a reason.
RowByStage ==
  /\ \A j \in Job :
       /\ stage[j] \in {"marked", "running", "exited", "finished", "telling"} =>
            j \in marker \cup unmarked
       /\ stage[j] \in {"clear", "forget"} =>
            j \in marker \cup unmarked \cup killed \/ told[j] > 0
       /\ stage[j] = "clear" => j \in killed \/ told[j] > 0
       /\ stage[j] = "unborn" => j \notin marker \cup todo
  /\ \A j \in dropping : lost[j] > 0 /\ stage[j] = "gone"

JobsInductive ==
  /\ TypeOK /\ LiveHere /\ CommandByStage /\ StoppedMarked /\ RowByStage
  /\ ResultKept /\ ToldIsReal /\ CheckFounded /\ StoreQuiet

\* Every step preserves the types.
LEMMA NextTypeOK ==
  ASSUME TypeOK, [Next]_vars
  PROVE  TypeOK'
  <1>1. CASE UNCHANGED vars
    BY <1>1 DEF TypeOK, InJobs, Stage, vars, hostVars, jobVars, flagVars,
       rowVars, noticeVars, checkVars, bootVars, boundVars
  <1>2. ASSUME NEW j \in Job, Admit(j)
       PROVE  TypeOK'
    BY <1>2, JobsAssumption DEF TypeOK, InJobs, Stage, hostVars, jobVars,
       flagVars, rowVars, noticeVars, checkVars, bootVars, boundVars, At, Admit
  <1>3. ASSUME NEW j \in Job, StartStep(j)
       PROVE  TypeOK'
    BY <1>3, JobsAssumption DEF TypeOK, InJobs, Stage, hostVars, jobVars,
       flagVars, rowVars, noticeVars, checkVars, bootVars, boundVars, At,
       StartStep, PutMarker, Launch, LaunchFails, Unmark, Fails
  <1>4. ASSUME NEW j \in Job, CommandEnds(j)
       PROVE  TypeOK'
    BY <1>4, JobsAssumption DEF TypeOK, InJobs, Stage, hostVars, jobVars,
       flagVars, rowVars, noticeVars, checkVars, bootVars, boundVars, At,
       CommandEnds
  <1>5. ASSUME NEW j \in Job, FinishStep(j)
       PROVE  TypeOK'
    BY <1>5, JobsAssumption DEF TypeOK, InJobs, Stage, hostVars, jobVars,
       flagVars, rowVars, noticeVars, checkVars, bootVars, boundVars, At,
       FinishStep, Reap, MarkFinished, ReadFlags, Tell, ClearMarker, Forget,
       Fails
  <1>6. ASSUME NEW j \in Job, Cancel(j)
       PROVE  TypeOK'
    BY <1>6, JobsAssumption DEF TypeOK, InJobs, Stage, hostVars, jobVars,
       flagVars, rowVars, noticeVars, checkVars, bootVars, boundVars, At,
       Cancel
  <1>7. ASSUME NEW j \in Job, Poll(j) \/ CancelPoll(j) \/ CheckDue(j)
       PROVE  TypeOK'
    BY <1>7, JobsAssumption DEF TypeOK, InJobs, Stage, hostVars, jobVars,
       flagVars, rowVars, noticeVars, checkVars, bootVars, boundVars, At, Poll,
       CancelPoll, CheckDue
  <1>8. ASSUME NEW h \in Host, Superstop(h)
       PROVE  TypeOK'
    BY <1>8, JobsAssumption DEF TypeOK, InJobs, Stage, hostVars, jobVars,
       flagVars, rowVars, noticeVars, checkVars, bootVars, boundVars,
       Superstop, Live, JobsOf
  <1>9. ASSUME NEW h \in Host, Boot(h)
       PROVE  TypeOK'
    BY <1>9, JobsAssumption DEF TypeOK, InJobs, Stage, hostVars, jobVars,
       flagVars, rowVars, noticeVars, checkVars, bootVars, boundVars, Boot
  <1>10. ASSUME NEW h \in Host, CloseBegin(h)
       PROVE  TypeOK'
    BY <1>10, JobsAssumption DEF TypeOK, InJobs, Stage, hostVars, jobVars,
       flagVars, rowVars, noticeVars, checkVars, bootVars, boundVars,
       CloseBegin, Live, JobsOf
  <1>11. ASSUME NEW h \in Host, CloseDone(h)
       PROVE  TypeOK'
    BY <1>11, JobsAssumption DEF TypeOK, InJobs, Stage, hostVars, jobVars,
       flagVars, rowVars, noticeVars, checkVars, bootVars, boundVars,
       CloseDone, JobsOf
  <1>12. ASSUME NEW h \in Host, Exit(h) \/ ReExec(h)
       PROVE  TypeOK'
    BY <1>12, JobsAssumption DEF TypeOK, InJobs, Stage, hostVars, jobVars,
       flagVars, rowVars, noticeVars, checkVars, bootVars, boundVars, Exit,
       ReExec
  <1>13. ASSUME NEW h \in Host, Crash(h)
       PROVE  TypeOK'
    BY <1>13, JobsAssumption DEF TypeOK, InJobs, Stage, hostVars, jobVars,
       flagVars, rowVars, noticeVars, checkVars, bootVars, boundVars, Crash,
       MemoryGone, JobsOf
  <1>14. ASSUME NEW h \in Host, NEW r \in Room, ClearPolls(h, r) \/ TakeDue(h, r)
       PROVE  TypeOK'
    BY <1>14, JobsAssumption DEF TypeOK, InJobs, Stage, hostVars, jobVars,
       flagVars, rowVars, noticeVars, checkVars, bootVars, boundVars,
       ClearPolls, TakeDue, JobsOf
  <1>15. CASE RecoverStep
    BY <1>15, JobsAssumption DEF TypeOK, InJobs, Stage, hostVars, jobVars,
       flagVars, rowVars, noticeVars, checkVars, bootVars, boundVars,
       RecoverStep, RecoverList, RecoverSkip, RecoverTell, RecoverDrop,
       RecoverDone, Fails, Alive, Held
  <1>16. ASSUME NEW h \in Host, ExitEarly(h) \/ ReExecEarly(h)
       PROVE  TypeOK'
    BY <1>16, JobsAssumption DEF TypeOK, InJobs, Stage, hostVars, jobVars,
       flagVars, rowVars, noticeVars, checkVars, bootVars, boundVars,
       ExitEarly, ReExecEarly, Cut, MemoryGone, JobsOf
  <1> QED
    BY <1>1, <1>2, <1>3, <1>4, <1>5, <1>6, <1>7, <1>8, <1>9, <1>10, <1>11,
       <1>12, <1>13, <1>14, <1>15, <1>16
       DEF Next

\* A live job's process stays up under the id in its row.
LEMMA NextLiveHere ==
  ASSUME TypeOK, LiveHere, [Next]_vars
  PROVE  LiveHere'
  <1>1. CASE UNCHANGED vars
    BY <1>1 DEF TypeOK, LiveHere, InJobs, vars, hostVars, jobVars, flagVars,
       rowVars, noticeVars, checkVars, bootVars, boundVars
  <1>2. ASSUME NEW j \in Job, Admit(j)
       PROVE  LiveHere'
    BY <1>2, JobsAssumption DEF TypeOK, LiveHere, InJobs, hostVars, jobVars,
       flagVars, rowVars, noticeVars, checkVars, bootVars, boundVars, At, Admit
  <1>3. ASSUME NEW j \in Job, StartStep(j)
       PROVE  LiveHere'
    BY <1>3, JobsAssumption DEF TypeOK, LiveHere, InJobs, hostVars, jobVars,
       flagVars, rowVars, noticeVars, checkVars, bootVars, boundVars, At,
       StartStep, PutMarker, Launch, LaunchFails, Unmark, Fails
  <1>4. ASSUME NEW j \in Job, CommandEnds(j)
       PROVE  LiveHere'
    BY <1>4, JobsAssumption DEF TypeOK, LiveHere, InJobs, hostVars, jobVars,
       flagVars, rowVars, noticeVars, checkVars, bootVars, boundVars, At,
       CommandEnds
  <1>5. ASSUME NEW j \in Job, FinishStep(j)
       PROVE  LiveHere'
    BY <1>5, JobsAssumption DEF TypeOK, LiveHere, InJobs, hostVars, jobVars,
       flagVars, rowVars, noticeVars, checkVars, bootVars, boundVars, At,
       FinishStep, Reap, MarkFinished, ReadFlags, Tell, ClearMarker, Forget,
       Fails
  <1>6. ASSUME NEW j \in Job, Cancel(j)
       PROVE  LiveHere'
    BY <1>6, JobsAssumption DEF TypeOK, LiveHere, InJobs, hostVars, jobVars,
       flagVars, rowVars, noticeVars, checkVars, bootVars, boundVars, At,
       Cancel
  <1>7. ASSUME NEW j \in Job, Poll(j) \/ CancelPoll(j) \/ CheckDue(j)
       PROVE  LiveHere'
    BY <1>7, JobsAssumption DEF TypeOK, LiveHere, InJobs, hostVars, jobVars,
       flagVars, rowVars, noticeVars, checkVars, bootVars, boundVars, At, Poll,
       CancelPoll, CheckDue
  <1>8. ASSUME NEW h \in Host, Superstop(h)
       PROVE  LiveHere'
    BY <1>8, JobsAssumption DEF TypeOK, LiveHere, InJobs, hostVars, jobVars,
       flagVars, rowVars, noticeVars, checkVars, bootVars, boundVars,
       Superstop, Live, JobsOf
  <1>9. ASSUME NEW h \in Host, Boot(h)
       PROVE  LiveHere'
    BY <1>9, JobsAssumption DEF TypeOK, LiveHere, InJobs, hostVars, jobVars,
       flagVars, rowVars, noticeVars, checkVars, bootVars, boundVars, Boot
  <1>10. ASSUME NEW h \in Host, CloseBegin(h)
       PROVE  LiveHere'
    BY <1>10, JobsAssumption DEF TypeOK, LiveHere, InJobs, hostVars, jobVars,
       flagVars, rowVars, noticeVars, checkVars, bootVars, boundVars,
       CloseBegin, Live, JobsOf
  <1>11. ASSUME NEW h \in Host, CloseDone(h)
       PROVE  LiveHere'
    BY <1>11, JobsAssumption DEF TypeOK, LiveHere, InJobs, hostVars, jobVars,
       flagVars, rowVars, noticeVars, checkVars, bootVars, boundVars,
       CloseDone, JobsOf
  <1>12. ASSUME NEW h \in Host, Exit(h) \/ ReExec(h)
       PROVE  LiveHere'
    BY <1>12, JobsAssumption DEF TypeOK, LiveHere, InJobs, hostVars, jobVars,
       flagVars, rowVars, noticeVars, checkVars, bootVars, boundVars, Exit,
       ReExec
  <1>13. ASSUME NEW h \in Host, Crash(h)
       PROVE  LiveHere'
    BY <1>13, JobsAssumption DEF TypeOK, LiveHere, InJobs, hostVars,
       jobVars, flagVars, rowVars, noticeVars, checkVars, bootVars,
       boundVars, Crash, MemoryGone, JobsOf
  <1>14. ASSUME NEW h \in Host, NEW r \in Room, ClearPolls(h, r) \/ TakeDue(h, r)
       PROVE  LiveHere'
    BY <1>14, JobsAssumption DEF TypeOK, LiveHere, InJobs, hostVars, jobVars,
       flagVars, rowVars, noticeVars, checkVars, bootVars, boundVars,
       ClearPolls, TakeDue, JobsOf
  <1>15. CASE RecoverStep
    BY <1>15, JobsAssumption DEF TypeOK, LiveHere, InJobs, hostVars,
       jobVars, flagVars, rowVars, noticeVars, checkVars, bootVars,
       boundVars, RecoverStep, RecoverList, RecoverSkip, RecoverTell,
       RecoverDrop, RecoverDone, Fails, Alive, Held
  <1>16. ASSUME NEW h \in Host, ExitEarly(h) \/ ReExecEarly(h)
       PROVE  LiveHere'
    BY <1>16, JobsAssumption DEF TypeOK, LiveHere, InJobs, hostVars,
       jobVars, flagVars, rowVars, noticeVars, checkVars, bootVars,
       boundVars, ExitEarly, ReExecEarly, Cut, MemoryGone, JobsOf
  <1> QED
    BY <1>1, <1>2, <1>3, <1>4, <1>5, <1>6, <1>7, <1>8, <1>9, <1>10, <1>11,
       <1>12, <1>13, <1>14, <1>15, <1>16
       DEF Next

\* finishCommand runs behind cmd.Wait, and reports behind the flags.
LEMMA NextCommandByStage ==
  ASSUME TypeOK, LiveHere, StoppedMarked, CommandByStage, [Next]_vars
  PROVE  CommandByStage'
  <1>1. CASE UNCHANGED vars
    BY <1>1 DEF TypeOK, LiveHere, StoppedMarked, CommandByStage, InJobs, vars,
       hostVars, jobVars, flagVars, rowVars, noticeVars, checkVars, bootVars,
       boundVars
  <1>2. ASSUME NEW j \in Job, Admit(j)
       PROVE  CommandByStage'
    BY <1>2, JobsAssumption DEF TypeOK, LiveHere, StoppedMarked,
       CommandByStage, InJobs, hostVars, jobVars, flagVars, rowVars,
       noticeVars, checkVars, bootVars, boundVars, At, Admit
  <1>3. ASSUME NEW j \in Job, StartStep(j)
       PROVE  CommandByStage'
    BY <1>3, JobsAssumption DEF TypeOK, LiveHere, StoppedMarked,
       CommandByStage, InJobs, hostVars, jobVars, flagVars, rowVars,
       noticeVars, checkVars, bootVars, boundVars, At, StartStep, PutMarker,
       Launch, LaunchFails, Unmark, Fails
  <1>4. ASSUME NEW j \in Job, CommandEnds(j)
       PROVE  CommandByStage'
    BY <1>4, JobsAssumption DEF TypeOK, LiveHere, StoppedMarked,
       CommandByStage, InJobs, hostVars, jobVars, flagVars, rowVars,
       noticeVars, checkVars, bootVars, boundVars, At, CommandEnds
  <1>5. ASSUME NEW j \in Job, FinishStep(j)
       PROVE  CommandByStage'
    BY <1>5, JobsAssumption DEF TypeOK, LiveHere, StoppedMarked,
       CommandByStage, InJobs, hostVars, jobVars, flagVars, rowVars,
       noticeVars, checkVars, bootVars, boundVars, At, FinishStep, Reap,
       MarkFinished, ReadFlags, Tell, ClearMarker, Forget, Fails
  <1>6. ASSUME NEW j \in Job, Cancel(j)
       PROVE  CommandByStage'
    BY <1>6, JobsAssumption DEF TypeOK, LiveHere, StoppedMarked,
       CommandByStage, InJobs, hostVars, jobVars, flagVars, rowVars,
       noticeVars, checkVars, bootVars, boundVars, At, Cancel
  <1>7. ASSUME NEW j \in Job, Poll(j) \/ CancelPoll(j) \/ CheckDue(j)
       PROVE  CommandByStage'
    BY <1>7, JobsAssumption DEF TypeOK, LiveHere, StoppedMarked,
       CommandByStage, InJobs, hostVars, jobVars, flagVars, rowVars,
       noticeVars, checkVars, bootVars, boundVars, At, Poll, CancelPoll,
       CheckDue
  <1>8. ASSUME NEW h \in Host, Superstop(h)
       PROVE  CommandByStage'
    BY <1>8, JobsAssumption DEF TypeOK, LiveHere, StoppedMarked,
       CommandByStage, InJobs, hostVars, jobVars, flagVars, rowVars,
       noticeVars, checkVars, bootVars, boundVars, Superstop, Live, JobsOf
  <1>9. ASSUME NEW h \in Host, Boot(h)
       PROVE  CommandByStage'
    BY <1>9, JobsAssumption DEF TypeOK, LiveHere, StoppedMarked,
       CommandByStage, InJobs, hostVars, jobVars, flagVars, rowVars,
       noticeVars, checkVars, bootVars, boundVars, Boot
  <1>10. ASSUME NEW h \in Host, CloseBegin(h)
       PROVE  CommandByStage'
    BY <1>10, JobsAssumption DEF TypeOK, LiveHere, StoppedMarked,
       CommandByStage, InJobs, hostVars, jobVars, flagVars, rowVars,
       noticeVars, checkVars, bootVars, boundVars, CloseBegin, Live, JobsOf
  <1>11. ASSUME NEW h \in Host, CloseDone(h)
       PROVE  CommandByStage'
    BY <1>11, JobsAssumption DEF TypeOK, LiveHere, StoppedMarked,
       CommandByStage, InJobs, hostVars, jobVars, flagVars, rowVars,
       noticeVars, checkVars, bootVars, boundVars, CloseDone, JobsOf
  <1>12. ASSUME NEW h \in Host, Exit(h) \/ ReExec(h)
       PROVE  CommandByStage'
    BY <1>12, JobsAssumption DEF TypeOK, LiveHere, StoppedMarked,
       CommandByStage, InJobs, hostVars, jobVars, flagVars, rowVars,
       noticeVars, checkVars, bootVars, boundVars, Exit, ReExec
  <1>13. ASSUME NEW h \in Host, Crash(h)
       PROVE  CommandByStage'
    BY <1>13, JobsAssumption DEF TypeOK, LiveHere, StoppedMarked,
       CommandByStage, InJobs, hostVars, jobVars, flagVars, rowVars,
       noticeVars, checkVars, bootVars, boundVars, Crash, MemoryGone, JobsOf
  <1>14. ASSUME NEW h \in Host, NEW r \in Room, ClearPolls(h, r) \/ TakeDue(h, r)
       PROVE  CommandByStage'
    BY <1>14, JobsAssumption DEF TypeOK, LiveHere, StoppedMarked,
       CommandByStage, InJobs, hostVars, jobVars, flagVars, rowVars,
       noticeVars, checkVars, bootVars, boundVars, ClearPolls, TakeDue, JobsOf
  <1>15. CASE RecoverStep
    BY <1>15, JobsAssumption DEF TypeOK, LiveHere, StoppedMarked,
       CommandByStage, InJobs, hostVars, jobVars, flagVars, rowVars,
       noticeVars, checkVars, bootVars, boundVars, RecoverStep, RecoverList,
       RecoverSkip, RecoverTell, RecoverDrop, RecoverDone, Fails, Alive,
       Held
  <1>16. ASSUME NEW h \in Host, ExitEarly(h) \/ ReExecEarly(h)
       PROVE  CommandByStage'
    BY <1>16, JobsAssumption DEF TypeOK, LiveHere, StoppedMarked,
       CommandByStage, InJobs, hostVars, jobVars, flagVars, rowVars,
       noticeVars, checkVars, bootVars, boundVars, ExitEarly, ReExecEarly,
       Cut, MemoryGone, JobsOf
  <1> QED
    BY <1>1, <1>2, <1>3, <1>4, <1>5, <1>6, <1>7, <1>8, <1>9, <1>10, <1>11,
       <1>12, <1>13, <1>14, <1>15, <1>16
       DEF Next

\* Jobs are marked before they are cancelled.
LEMMA NextStoppedMarked ==
  ASSUME TypeOK, StoppedMarked, [Next]_vars
  PROVE  StoppedMarked'
  <1>1. CASE UNCHANGED vars
    BY <1>1 DEF TypeOK, InJobs, StoppedMarked, vars, hostVars, jobVars,
       flagVars, rowVars, noticeVars, checkVars, bootVars, boundVars
  <1>2. ASSUME NEW j \in Job, Admit(j)
       PROVE  StoppedMarked'
    BY <1>2 DEF TypeOK, InJobs, StoppedMarked, hostVars, jobVars, flagVars,
       rowVars, noticeVars, checkVars, bootVars, boundVars, At, Admit
  <1>3. ASSUME NEW j \in Job, StartStep(j)
       PROVE  StoppedMarked'
    BY <1>3 DEF TypeOK, InJobs, StoppedMarked, hostVars, jobVars, flagVars,
       rowVars, noticeVars, checkVars, bootVars, boundVars, At, StartStep,
       PutMarker, Launch, LaunchFails, Unmark, Fails
  <1>4. ASSUME NEW j \in Job, CommandEnds(j)
       PROVE  StoppedMarked'
    BY <1>4 DEF TypeOK, InJobs, StoppedMarked, hostVars, jobVars, flagVars,
       rowVars, noticeVars, checkVars, bootVars, boundVars, At, CommandEnds
  <1>5. ASSUME NEW j \in Job, FinishStep(j)
       PROVE  StoppedMarked'
    BY <1>5 DEF TypeOK, InJobs, StoppedMarked, hostVars, jobVars, flagVars,
       rowVars, noticeVars, checkVars, bootVars, boundVars, At, FinishStep,
       Reap, MarkFinished, ReadFlags, Tell, ClearMarker, Forget, Fails
  <1>6. ASSUME NEW j \in Job, Cancel(j)
       PROVE  StoppedMarked'
    BY <1>6 DEF TypeOK, InJobs, StoppedMarked, hostVars, jobVars, flagVars,
       rowVars, noticeVars, checkVars, bootVars, boundVars, At, Cancel
  <1>7. ASSUME NEW j \in Job, Poll(j) \/ CancelPoll(j) \/ CheckDue(j)
       PROVE  StoppedMarked'
    BY <1>7 DEF TypeOK, InJobs, StoppedMarked, hostVars, jobVars, flagVars,
       rowVars, noticeVars, checkVars, bootVars, boundVars, At, Poll,
       CancelPoll, CheckDue
  <1>8. ASSUME NEW h \in Host, Superstop(h)
       PROVE  StoppedMarked'
    BY <1>8 DEF TypeOK, InJobs, StoppedMarked, hostVars, jobVars, flagVars,
       rowVars, noticeVars, checkVars, bootVars, boundVars, Superstop, Live,
       JobsOf
  <1>9. ASSUME NEW h \in Host, Boot(h)
       PROVE  StoppedMarked'
    BY <1>9 DEF TypeOK, InJobs, StoppedMarked, hostVars, jobVars, flagVars,
       rowVars, noticeVars, checkVars, bootVars, boundVars, Boot
  <1>10. ASSUME NEW h \in Host, CloseBegin(h)
       PROVE  StoppedMarked'
    BY <1>10 DEF TypeOK, InJobs, StoppedMarked, hostVars, jobVars, flagVars,
       rowVars, noticeVars, checkVars, bootVars, boundVars, CloseBegin, Live,
       JobsOf
  <1>11. ASSUME NEW h \in Host, CloseDone(h)
       PROVE  StoppedMarked'
    BY <1>11 DEF TypeOK, InJobs, StoppedMarked, hostVars, jobVars, flagVars,
       rowVars, noticeVars, checkVars, bootVars, boundVars, CloseDone, JobsOf
  <1>12. ASSUME NEW h \in Host, Exit(h) \/ ReExec(h)
       PROVE  StoppedMarked'
    BY <1>12 DEF TypeOK, InJobs, StoppedMarked, hostVars, jobVars, flagVars,
       rowVars, noticeVars, checkVars, bootVars, boundVars, Exit, ReExec
  <1>13. ASSUME NEW h \in Host, Crash(h)
       PROVE  StoppedMarked'
    BY <1>13 DEF TypeOK, InJobs, StoppedMarked, hostVars, jobVars, flagVars,
       rowVars, noticeVars, checkVars, bootVars, boundVars, Crash,
       MemoryGone, JobsOf
  <1>14. ASSUME NEW h \in Host, NEW r \in Room, ClearPolls(h, r) \/ TakeDue(h, r)
       PROVE  StoppedMarked'
    BY <1>14 DEF TypeOK, InJobs, StoppedMarked, hostVars, jobVars, flagVars,
       rowVars, noticeVars, checkVars, bootVars, boundVars, ClearPolls,
       TakeDue, JobsOf
  <1>15. CASE RecoverStep
    BY <1>15 DEF TypeOK, InJobs, StoppedMarked, hostVars, jobVars, flagVars,
       rowVars, noticeVars, checkVars, bootVars, boundVars, RecoverStep,
       RecoverList, RecoverSkip, RecoverTell, RecoverDrop, RecoverDone, Fails,
       Alive
  <1>16. ASSUME NEW h \in Host, ExitEarly(h) \/ ReExecEarly(h)
       PROVE  StoppedMarked'
    BY <1>16 DEF TypeOK, InJobs, StoppedMarked, hostVars, jobVars, flagVars,
       rowVars, noticeVars, checkVars, bootVars, boundVars, ExitEarly,
       ReExecEarly, Cut, MemoryGone, JobsOf
  <1> QED
    BY <1>1, <1>2, <1>3, <1>4, <1>5, <1>6, <1>7, <1>8, <1>9, <1>10, <1>11,
       <1>12, <1>13, <1>14, <1>15, <1>16
       DEF Next

\* A row is deleted behind a notice, a summary or a failed start.
LEMMA NextRowByStage ==
  ASSUME TypeOK, LiveHere, StoppedMarked, RowByStage, [Next]_vars
  PROVE  RowByStage'
  <1>1. CASE UNCHANGED vars
    BY <1>1 DEF TypeOK, LiveHere, StoppedMarked, RowByStage, InJobs, vars,
       hostVars, jobVars, flagVars, rowVars, noticeVars, checkVars, bootVars,
       boundVars
  <1>2. ASSUME NEW j \in Job, Admit(j)
       PROVE  RowByStage'
    BY <1>2, JobsAssumption DEF TypeOK, LiveHere, StoppedMarked, RowByStage,
       InJobs, hostVars, jobVars, flagVars, rowVars, noticeVars, checkVars,
       bootVars, boundVars, At, Admit
  <1>3. ASSUME NEW j \in Job, StartStep(j)
       PROVE  RowByStage'
    BY <1>3, JobsAssumption DEF TypeOK, LiveHere, StoppedMarked, RowByStage,
       InJobs, hostVars, jobVars, flagVars, rowVars, noticeVars, checkVars,
       bootVars, boundVars, At, StartStep, PutMarker, Launch, LaunchFails,
       Unmark, Fails
  <1>4. ASSUME NEW j \in Job, CommandEnds(j)
       PROVE  RowByStage'
    BY <1>4, JobsAssumption DEF TypeOK, LiveHere, StoppedMarked, RowByStage,
       InJobs, hostVars, jobVars, flagVars, rowVars, noticeVars, checkVars,
       bootVars, boundVars, At, CommandEnds
  <1>5. ASSUME NEW j \in Job, FinishStep(j)
       PROVE  RowByStage'
    BY <1>5, JobsAssumption DEF TypeOK, LiveHere, StoppedMarked, RowByStage,
       InJobs, hostVars, jobVars, flagVars, rowVars, noticeVars, checkVars,
       bootVars, boundVars, At, FinishStep, Reap, MarkFinished, ReadFlags,
       Tell, ClearMarker, Forget, Fails
  <1>6. ASSUME NEW j \in Job, Cancel(j)
       PROVE  RowByStage'
    BY <1>6, JobsAssumption DEF TypeOK, LiveHere, StoppedMarked, RowByStage,
       InJobs, hostVars, jobVars, flagVars, rowVars, noticeVars, checkVars,
       bootVars, boundVars, At, Cancel
  <1>7. ASSUME NEW j \in Job, Poll(j) \/ CancelPoll(j) \/ CheckDue(j)
       PROVE  RowByStage'
    BY <1>7, JobsAssumption DEF TypeOK, LiveHere, StoppedMarked, RowByStage,
       InJobs, hostVars, jobVars, flagVars, rowVars, noticeVars, checkVars,
       bootVars, boundVars, At, Poll, CancelPoll, CheckDue
  <1>8. ASSUME NEW h \in Host, Superstop(h)
       PROVE  RowByStage'
    BY <1>8, JobsAssumption DEF TypeOK, LiveHere, StoppedMarked, RowByStage,
       InJobs, hostVars, jobVars, flagVars, rowVars, noticeVars, checkVars,
       bootVars, boundVars, Superstop, Live, JobsOf
  <1>9. ASSUME NEW h \in Host, Boot(h)
       PROVE  RowByStage'
    BY <1>9, JobsAssumption DEF TypeOK, LiveHere, StoppedMarked, RowByStage,
       InJobs, hostVars, jobVars, flagVars, rowVars, noticeVars, checkVars,
       bootVars, boundVars, Boot
  <1>10. ASSUME NEW h \in Host, CloseBegin(h)
       PROVE  RowByStage'
    BY <1>10, JobsAssumption DEF TypeOK, LiveHere, StoppedMarked, RowByStage,
       InJobs, hostVars, jobVars, flagVars, rowVars, noticeVars, checkVars,
       bootVars, boundVars, CloseBegin, Live, JobsOf
  <1>11. ASSUME NEW h \in Host, CloseDone(h)
       PROVE  RowByStage'
    BY <1>11, JobsAssumption DEF TypeOK, LiveHere, StoppedMarked, RowByStage,
       InJobs, hostVars, jobVars, flagVars, rowVars, noticeVars, checkVars,
       bootVars, boundVars, CloseDone, JobsOf
  <1>12. ASSUME NEW h \in Host, Exit(h) \/ ReExec(h)
       PROVE  RowByStage'
    BY <1>12, JobsAssumption DEF TypeOK, LiveHere, StoppedMarked, RowByStage,
       InJobs, hostVars, jobVars, flagVars, rowVars, noticeVars, checkVars,
       bootVars, boundVars, Exit, ReExec
  <1>13. ASSUME NEW h \in Host, Crash(h)
       PROVE  RowByStage'
    BY <1>13, JobsAssumption DEF TypeOK, LiveHere, StoppedMarked,
       RowByStage, InJobs, hostVars, jobVars, flagVars, rowVars, noticeVars,
       checkVars, bootVars, boundVars, Crash, MemoryGone, JobsOf
  <1>14. ASSUME NEW h \in Host, NEW r \in Room, ClearPolls(h, r) \/ TakeDue(h, r)
       PROVE  RowByStage'
    BY <1>14, JobsAssumption DEF TypeOK, LiveHere, StoppedMarked, RowByStage,
       InJobs, hostVars, jobVars, flagVars, rowVars, noticeVars, checkVars,
       bootVars, boundVars, ClearPolls, TakeDue, JobsOf
  <1>15. CASE RecoverStep
    BY <1>15, JobsAssumption DEF TypeOK, LiveHere, StoppedMarked,
       RowByStage, InJobs, hostVars, jobVars, flagVars, rowVars, noticeVars,
       checkVars, bootVars, boundVars, RecoverStep, RecoverList,
       RecoverSkip, RecoverTell, RecoverDrop, RecoverDone, Fails, Alive,
       Held, Stage
  <1>16. ASSUME NEW h \in Host, ExitEarly(h) \/ ReExecEarly(h)
       PROVE  RowByStage'
    BY <1>16, JobsAssumption DEF TypeOK, LiveHere, StoppedMarked,
       RowByStage, InJobs, hostVars, jobVars, flagVars, rowVars, noticeVars,
       checkVars, bootVars, boundVars, ExitEarly, ReExecEarly, Cut,
       MemoryGone, JobsOf
  <1> QED
    BY <1>1, <1>2, <1>3, <1>4, <1>5, <1>6, <1>7, <1>8, <1>9, <1>10, <1>11,
       <1>12, <1>13, <1>14, <1>15, <1>16
       DEF Next

\* Whatever takes a job out of memory leaves a trace of it.
LEMMA NextResultKept ==
  ASSUME TypeOK, LiveHere, StoppedMarked, CommandByStage, RowByStage,
         ResultKept, [Next]_vars
  PROVE  ResultKept'
  <1>1. CASE UNCHANGED vars
    BY <1>1 DEF TypeOK, LiveHere, CommandByStage, StoppedMarked, RowByStage,
       ResultKept, InJobs, vars, hostVars, jobVars, flagVars, rowVars,
       noticeVars, checkVars, bootVars, boundVars
  <1>2. ASSUME NEW j \in Job, Admit(j)
       PROVE  ResultKept'
    BY <1>2, JobsAssumption DEF TypeOK, LiveHere, CommandByStage,
       StoppedMarked, RowByStage, ResultKept, InJobs, hostVars, jobVars,
       flagVars, rowVars, noticeVars, checkVars, bootVars, boundVars, At, Admit
  <1>3. ASSUME NEW j \in Job, StartStep(j)
       PROVE  ResultKept'
    BY <1>3, JobsAssumption DEF TypeOK, LiveHere, CommandByStage,
       StoppedMarked, RowByStage, ResultKept, InJobs, hostVars, jobVars,
       flagVars, rowVars, noticeVars, checkVars, bootVars, boundVars, At,
       StartStep, PutMarker, Launch, LaunchFails, Unmark, Fails
  <1>4. ASSUME NEW j \in Job, CommandEnds(j)
       PROVE  ResultKept'
    BY <1>4, JobsAssumption DEF TypeOK, LiveHere, CommandByStage,
       StoppedMarked, RowByStage, ResultKept, InJobs, hostVars, jobVars,
       flagVars, rowVars, noticeVars, checkVars, bootVars, boundVars, At,
       CommandEnds
  <1>5. ASSUME NEW j \in Job, FinishStep(j)
       PROVE  ResultKept'
    BY <1>5, JobsAssumption DEF TypeOK, LiveHere, CommandByStage,
       StoppedMarked, RowByStage, ResultKept, InJobs, hostVars, jobVars,
       flagVars, rowVars, noticeVars, checkVars, bootVars, boundVars, At,
       FinishStep, Reap, MarkFinished, ReadFlags, Tell, ClearMarker, Forget,
       Fails
  <1>6. ASSUME NEW j \in Job, Cancel(j)
       PROVE  ResultKept'
    BY <1>6, JobsAssumption DEF TypeOK, LiveHere, CommandByStage,
       StoppedMarked, RowByStage, ResultKept, InJobs, hostVars, jobVars,
       flagVars, rowVars, noticeVars, checkVars, bootVars, boundVars, At,
       Cancel
  <1>7. ASSUME NEW j \in Job, Poll(j) \/ CancelPoll(j) \/ CheckDue(j)
       PROVE  ResultKept'
    BY <1>7, JobsAssumption DEF TypeOK, LiveHere, CommandByStage,
       StoppedMarked, RowByStage, ResultKept, InJobs, hostVars, jobVars,
       flagVars, rowVars, noticeVars, checkVars, bootVars, boundVars, At, Poll,
       CancelPoll, CheckDue
  <1>8. ASSUME NEW h \in Host, Superstop(h)
       PROVE  ResultKept'
    BY <1>8, JobsAssumption DEF TypeOK, LiveHere, CommandByStage,
       StoppedMarked, RowByStage, ResultKept, InJobs, hostVars, jobVars,
       flagVars, rowVars, noticeVars, checkVars, bootVars, boundVars,
       Superstop, Live, JobsOf
  <1>9. ASSUME NEW h \in Host, Boot(h)
       PROVE  ResultKept'
    BY <1>9, JobsAssumption DEF TypeOK, LiveHere, CommandByStage,
       StoppedMarked, RowByStage, ResultKept, InJobs, hostVars, jobVars,
       flagVars, rowVars, noticeVars, checkVars, bootVars, boundVars, Boot
  <1>10. ASSUME NEW h \in Host, CloseBegin(h)
       PROVE  ResultKept'
    BY <1>10, JobsAssumption DEF TypeOK, LiveHere, CommandByStage,
       StoppedMarked, RowByStage, ResultKept, InJobs, hostVars, jobVars,
       flagVars, rowVars, noticeVars, checkVars, bootVars, boundVars,
       CloseBegin, Live, JobsOf
  <1>11. ASSUME NEW h \in Host, CloseDone(h)
       PROVE  ResultKept'
    BY <1>11, JobsAssumption DEF TypeOK, LiveHere, CommandByStage,
       StoppedMarked, RowByStage, ResultKept, InJobs, hostVars, jobVars,
       flagVars, rowVars, noticeVars, checkVars, bootVars, boundVars,
       CloseDone, JobsOf
  <1>12. ASSUME NEW h \in Host, Exit(h) \/ ReExec(h)
       PROVE  ResultKept'
    BY <1>12, JobsAssumption DEF TypeOK, LiveHere, CommandByStage,
       StoppedMarked, RowByStage, ResultKept, InJobs, hostVars, jobVars,
       flagVars, rowVars, noticeVars, checkVars, bootVars, boundVars, Exit,
       ReExec
  <1>13. ASSUME NEW h \in Host, Crash(h)
       PROVE  ResultKept'
    BY <1>13, JobsAssumption DEF TypeOK, LiveHere, CommandByStage,
       StoppedMarked, RowByStage, ResultKept, InJobs, hostVars, jobVars,
       flagVars, rowVars, noticeVars, checkVars, bootVars, boundVars, Crash,
       MemoryGone, JobsOf
  <1>14. ASSUME NEW h \in Host, NEW r \in Room, ClearPolls(h, r) \/ TakeDue(h, r)
       PROVE  ResultKept'
    BY <1>14, JobsAssumption DEF TypeOK, LiveHere, CommandByStage,
       StoppedMarked, RowByStage, ResultKept, InJobs, hostVars, jobVars,
       flagVars, rowVars, noticeVars, checkVars, bootVars, boundVars,
       ClearPolls, TakeDue, JobsOf
  <1>15. CASE RecoverStep
    BY <1>15, JobsAssumption DEF TypeOK, LiveHere, CommandByStage,
       StoppedMarked, RowByStage, ResultKept, InJobs, hostVars, jobVars,
       flagVars, rowVars, noticeVars, checkVars, bootVars, boundVars,
       RecoverStep, RecoverList, RecoverSkip, RecoverTell, RecoverDrop,
       RecoverDone, Fails, Alive, Held
  <1>16. ASSUME NEW h \in Host, ExitEarly(h) \/ ReExecEarly(h)
       PROVE  ResultKept'
    BY <1>16, JobsAssumption DEF TypeOK, LiveHere, CommandByStage,
       StoppedMarked, RowByStage, ResultKept, InJobs, hostVars, jobVars,
       flagVars, rowVars, noticeVars, checkVars, bootVars, boundVars,
       ExitEarly, ReExecEarly, Cut, MemoryGone, JobsOf
  <1> QED
    BY <1>1, <1>2, <1>3, <1>4, <1>5, <1>6, <1>7, <1>8, <1>9, <1>10, <1>11,
       <1>12, <1>13, <1>14, <1>15, <1>16
       DEF Next

\* A completion is told only of a command that ended by itself.
LEMMA NextToldIsReal ==
  ASSUME TypeOK, CommandByStage, ToldIsReal, [Next]_vars
  PROVE  ToldIsReal'
  <1>1. CASE UNCHANGED vars
    BY <1>1 DEF TypeOK, CommandByStage, ToldIsReal, vars, hostVars, jobVars,
       flagVars, rowVars, noticeVars, checkVars, bootVars, boundVars
  <1>2. ASSUME NEW j \in Job, Admit(j)
       PROVE  ToldIsReal'
    BY <1>2 DEF TypeOK, CommandByStage, ToldIsReal, hostVars, jobVars,
       flagVars, rowVars, noticeVars, checkVars, bootVars, boundVars, At, Admit
  <1>3. ASSUME NEW j \in Job, StartStep(j)
       PROVE  ToldIsReal'
    BY <1>3 DEF TypeOK, CommandByStage, ToldIsReal, hostVars, jobVars,
       flagVars, rowVars, noticeVars, checkVars, bootVars, boundVars, At,
       StartStep, PutMarker, Launch, LaunchFails, Unmark, Fails
  <1>4. ASSUME NEW j \in Job, CommandEnds(j)
       PROVE  ToldIsReal'
    BY <1>4 DEF TypeOK, CommandByStage, ToldIsReal, hostVars, jobVars,
       flagVars, rowVars, noticeVars, checkVars, bootVars, boundVars, At,
       CommandEnds
  <1>5. ASSUME NEW j \in Job, FinishStep(j)
       PROVE  ToldIsReal'
    BY <1>5 DEF TypeOK, CommandByStage, ToldIsReal, hostVars, jobVars,
       flagVars, rowVars, noticeVars, checkVars, bootVars, boundVars, At,
       FinishStep, Reap, MarkFinished, ReadFlags, Tell, ClearMarker, Forget,
       Fails
  <1>6. ASSUME NEW j \in Job, Cancel(j)
       PROVE  ToldIsReal'
    BY <1>6 DEF TypeOK, CommandByStage, ToldIsReal, hostVars, jobVars,
       flagVars, rowVars, noticeVars, checkVars, bootVars, boundVars, At,
       Cancel
  <1>7. ASSUME NEW j \in Job, Poll(j) \/ CancelPoll(j) \/ CheckDue(j)
       PROVE  ToldIsReal'
    BY <1>7 DEF TypeOK, CommandByStage, ToldIsReal, hostVars, jobVars,
       flagVars, rowVars, noticeVars, checkVars, bootVars, boundVars, At, Poll,
       CancelPoll, CheckDue
  <1>8. ASSUME NEW h \in Host, Superstop(h)
       PROVE  ToldIsReal'
    BY <1>8 DEF TypeOK, CommandByStage, ToldIsReal, hostVars, jobVars,
       flagVars, rowVars, noticeVars, checkVars, bootVars, boundVars,
       Superstop, Live, JobsOf
  <1>9. ASSUME NEW h \in Host, Boot(h)
       PROVE  ToldIsReal'
    BY <1>9 DEF TypeOK, CommandByStage, ToldIsReal, hostVars, jobVars,
       flagVars, rowVars, noticeVars, checkVars, bootVars, boundVars, Boot
  <1>10. ASSUME NEW h \in Host, CloseBegin(h)
       PROVE  ToldIsReal'
    BY <1>10 DEF TypeOK, CommandByStage, ToldIsReal, hostVars, jobVars,
       flagVars, rowVars, noticeVars, checkVars, bootVars, boundVars,
       CloseBegin, Live, JobsOf
  <1>11. ASSUME NEW h \in Host, CloseDone(h)
       PROVE  ToldIsReal'
    BY <1>11 DEF TypeOK, CommandByStage, ToldIsReal, hostVars, jobVars,
       flagVars, rowVars, noticeVars, checkVars, bootVars, boundVars,
       CloseDone, JobsOf
  <1>12. ASSUME NEW h \in Host, Exit(h) \/ ReExec(h)
       PROVE  ToldIsReal'
    BY <1>12 DEF TypeOK, CommandByStage, ToldIsReal, hostVars, jobVars,
       flagVars, rowVars, noticeVars, checkVars, bootVars, boundVars, Exit,
       ReExec
  <1>13. ASSUME NEW h \in Host, Crash(h)
       PROVE  ToldIsReal'
    BY <1>13 DEF TypeOK, CommandByStage, ToldIsReal, hostVars, jobVars,
       flagVars, rowVars, noticeVars, checkVars, bootVars, boundVars, Crash,
       MemoryGone, JobsOf
  <1>14. ASSUME NEW h \in Host, NEW r \in Room, ClearPolls(h, r) \/ TakeDue(h, r)
       PROVE  ToldIsReal'
    BY <1>14 DEF TypeOK, CommandByStage, ToldIsReal, hostVars, jobVars,
       flagVars, rowVars, noticeVars, checkVars, bootVars, boundVars,
       ClearPolls, TakeDue, JobsOf
  <1>15. CASE RecoverStep
    BY <1>15 DEF TypeOK, CommandByStage, ToldIsReal, hostVars, jobVars,
       flagVars, rowVars, noticeVars, checkVars, bootVars, boundVars,
       RecoverStep, RecoverList, RecoverSkip, RecoverTell, RecoverDrop,
       RecoverDone, Fails, Alive, Held
  <1>16. ASSUME NEW h \in Host, ExitEarly(h) \/ ReExecEarly(h)
       PROVE  ToldIsReal'
    BY <1>16 DEF TypeOK, CommandByStage, ToldIsReal, hostVars, jobVars,
       flagVars, rowVars, noticeVars, checkVars, bootVars, boundVars,
       ExitEarly, ReExecEarly, Cut, MemoryGone, JobsOf
  <1> QED
    BY <1>1, <1>2, <1>3, <1>4, <1>5, <1>6, <1>7, <1>8, <1>9, <1>10, <1>11,
       <1>12, <1>13, <1>14, <1>15, <1>16
       DEF Next

\* Stops and failed starts take their checks along.
LEMMA NextCheckFounded ==
  ASSUME TypeOK, LiveHere, CommandByStage, StoppedMarked, CheckFounded,
         [Next]_vars
  PROVE  CheckFounded'
  <1>1. CASE UNCHANGED vars
    BY <1>1 DEF TypeOK, LiveHere, CommandByStage, StoppedMarked, CheckFounded,
       InJobs, vars, hostVars, jobVars, flagVars, rowVars, noticeVars,
       checkVars, bootVars, boundVars
  <1>2. ASSUME NEW j \in Job, Admit(j)
       PROVE  CheckFounded'
    BY <1>2, JobsAssumption DEF TypeOK, LiveHere, CommandByStage,
       StoppedMarked, CheckFounded, InJobs, hostVars, jobVars, flagVars,
       rowVars, noticeVars, checkVars, bootVars, boundVars, At, Admit
  <1>3. ASSUME NEW j \in Job, StartStep(j)
       PROVE  CheckFounded'
    BY <1>3, JobsAssumption DEF TypeOK, LiveHere, CommandByStage,
       StoppedMarked, CheckFounded, InJobs, hostVars, jobVars, flagVars,
       rowVars, noticeVars, checkVars, bootVars, boundVars, At, StartStep,
       PutMarker, Launch, LaunchFails, Unmark, Fails
  <1>4. ASSUME NEW j \in Job, CommandEnds(j)
       PROVE  CheckFounded'
    BY <1>4, JobsAssumption DEF TypeOK, LiveHere, CommandByStage,
       StoppedMarked, CheckFounded, InJobs, hostVars, jobVars, flagVars,
       rowVars, noticeVars, checkVars, bootVars, boundVars, At, CommandEnds
  <1>5. ASSUME NEW j \in Job, FinishStep(j)
       PROVE  CheckFounded'
    BY <1>5, JobsAssumption DEF TypeOK, LiveHere, CommandByStage,
       StoppedMarked, CheckFounded, InJobs, hostVars, jobVars, flagVars,
       rowVars, noticeVars, checkVars, bootVars, boundVars, At, FinishStep,
       Reap, MarkFinished, ReadFlags, Tell, ClearMarker, Forget, Fails
  <1>6. ASSUME NEW j \in Job, Cancel(j)
       PROVE  CheckFounded'
    BY <1>6, JobsAssumption DEF TypeOK, LiveHere, CommandByStage,
       StoppedMarked, CheckFounded, InJobs, hostVars, jobVars, flagVars,
       rowVars, noticeVars, checkVars, bootVars, boundVars, At, Cancel
  <1>7. ASSUME NEW j \in Job, Poll(j) \/ CancelPoll(j) \/ CheckDue(j)
       PROVE  CheckFounded'
    BY <1>7, JobsAssumption DEF TypeOK, LiveHere, CommandByStage,
       StoppedMarked, CheckFounded, InJobs, hostVars, jobVars, flagVars,
       rowVars, noticeVars, checkVars, bootVars, boundVars, At, Poll,
       CancelPoll, CheckDue
  <1>8. ASSUME NEW h \in Host, Superstop(h)
       PROVE  CheckFounded'
    BY <1>8, JobsAssumption DEF TypeOK, LiveHere, CommandByStage,
       StoppedMarked, CheckFounded, InJobs, hostVars, jobVars, flagVars,
       rowVars, noticeVars, checkVars, bootVars, boundVars, Superstop, Live,
       JobsOf
  <1>9. ASSUME NEW h \in Host, Boot(h)
       PROVE  CheckFounded'
    BY <1>9, JobsAssumption DEF TypeOK, LiveHere, CommandByStage,
       StoppedMarked, CheckFounded, InJobs, hostVars, jobVars, flagVars,
       rowVars, noticeVars, checkVars, bootVars, boundVars, Boot
  <1>10. ASSUME NEW h \in Host, CloseBegin(h)
       PROVE  CheckFounded'
    BY <1>10, JobsAssumption DEF TypeOK, LiveHere, CommandByStage,
       StoppedMarked, CheckFounded, InJobs, hostVars, jobVars, flagVars,
       rowVars, noticeVars, checkVars, bootVars, boundVars, CloseBegin, Live,
       JobsOf
  <1>11. ASSUME NEW h \in Host, CloseDone(h)
       PROVE  CheckFounded'
    BY <1>11, JobsAssumption DEF TypeOK, LiveHere, CommandByStage,
       StoppedMarked, CheckFounded, InJobs, hostVars, jobVars, flagVars,
       rowVars, noticeVars, checkVars, bootVars, boundVars, CloseDone, JobsOf
  <1>12. ASSUME NEW h \in Host, Exit(h) \/ ReExec(h)
       PROVE  CheckFounded'
    BY <1>12, JobsAssumption DEF TypeOK, LiveHere, CommandByStage,
       StoppedMarked, CheckFounded, InJobs, hostVars, jobVars, flagVars,
       rowVars, noticeVars, checkVars, bootVars, boundVars, Exit, ReExec
  <1>13. ASSUME NEW h \in Host, Crash(h)
       PROVE  CheckFounded'
    BY <1>13, JobsAssumption DEF TypeOK, LiveHere, CommandByStage,
       StoppedMarked, CheckFounded, InJobs, hostVars, jobVars, flagVars,
       rowVars, noticeVars, checkVars, bootVars, boundVars, Crash,
       MemoryGone, JobsOf
  <1>14. ASSUME NEW h \in Host, NEW r \in Room, ClearPolls(h, r) \/ TakeDue(h, r)
       PROVE  CheckFounded'
    BY <1>14, JobsAssumption DEF TypeOK, LiveHere, CommandByStage,
       StoppedMarked, CheckFounded, InJobs, hostVars, jobVars, flagVars,
       rowVars, noticeVars, checkVars, bootVars, boundVars, ClearPolls,
       TakeDue, JobsOf
  <1>15. CASE RecoverStep
    BY <1>15, JobsAssumption DEF TypeOK, LiveHere, CommandByStage,
       StoppedMarked, CheckFounded, InJobs, hostVars, jobVars, flagVars,
       rowVars, noticeVars, checkVars, bootVars, boundVars, RecoverStep,
       RecoverList, RecoverSkip, RecoverTell, RecoverDrop, RecoverDone, Fails,
       Alive
  <1>16. ASSUME NEW h \in Host, ExitEarly(h) \/ ReExecEarly(h)
       PROVE  CheckFounded'
    BY <1>16, JobsAssumption DEF TypeOK, LiveHere, CommandByStage,
       StoppedMarked, CheckFounded, InJobs, hostVars, jobVars, flagVars,
       rowVars, noticeVars, checkVars, bootVars, boundVars, ExitEarly,
       ReExecEarly, Cut, MemoryGone, JobsOf
  <1> QED
    BY <1>1, <1>2, <1>3, <1>4, <1>5, <1>6, <1>7, <1>8, <1>9, <1>10, <1>11,
       <1>12, <1>13, <1>14, <1>15, <1>16
       DEF Next

\* Nothing is admitted behind a close.
LEMMA NextStoreQuiet ==
  ASSUME TypeOK, StoreQuiet, [Next]_vars
  PROVE  StoreQuiet'
  <1>1. CASE UNCHANGED vars
    BY <1>1 DEF TypeOK, StoreQuiet, JobsOf, InJobs, vars, hostVars, jobVars,
       flagVars, rowVars, noticeVars, checkVars, bootVars, boundVars
  <1>2. ASSUME NEW j \in Job, Admit(j)
       PROVE  StoreQuiet'
    BY <1>2, JobsAssumption DEF TypeOK, StoreQuiet, JobsOf, InJobs, hostVars,
       jobVars, flagVars, rowVars, noticeVars, checkVars, bootVars, boundVars,
       At, Admit
  <1>3. ASSUME NEW j \in Job, StartStep(j)
       PROVE  StoreQuiet'
    BY <1>3, JobsAssumption DEF TypeOK, StoreQuiet, JobsOf, InJobs, hostVars,
       jobVars, flagVars, rowVars, noticeVars, checkVars, bootVars, boundVars,
       At, StartStep, PutMarker, Launch, LaunchFails, Unmark, Fails
  <1>4. ASSUME NEW j \in Job, CommandEnds(j)
       PROVE  StoreQuiet'
    BY <1>4, JobsAssumption DEF TypeOK, StoreQuiet, JobsOf, InJobs, hostVars,
       jobVars, flagVars, rowVars, noticeVars, checkVars, bootVars, boundVars,
       At, CommandEnds
  <1>5. ASSUME NEW j \in Job, FinishStep(j)
       PROVE  StoreQuiet'
    BY <1>5, JobsAssumption DEF TypeOK, StoreQuiet, JobsOf, InJobs, hostVars,
       jobVars, flagVars, rowVars, noticeVars, checkVars, bootVars, boundVars,
       At, FinishStep, Reap, MarkFinished, ReadFlags, Tell, ClearMarker,
       Forget, Fails
  <1>6. ASSUME NEW j \in Job, Cancel(j)
       PROVE  StoreQuiet'
    BY <1>6, JobsAssumption DEF TypeOK, StoreQuiet, JobsOf, InJobs, hostVars,
       jobVars, flagVars, rowVars, noticeVars, checkVars, bootVars, boundVars,
       At, Cancel
  <1>7. ASSUME NEW j \in Job, Poll(j) \/ CancelPoll(j) \/ CheckDue(j)
       PROVE  StoreQuiet'
    BY <1>7, JobsAssumption DEF TypeOK, StoreQuiet, JobsOf, InJobs, hostVars,
       jobVars, flagVars, rowVars, noticeVars, checkVars, bootVars, boundVars,
       At, Poll, CancelPoll, CheckDue
  <1>8. ASSUME NEW h \in Host, Superstop(h)
       PROVE  StoreQuiet'
    BY <1>8, JobsAssumption DEF TypeOK, StoreQuiet, JobsOf, InJobs, hostVars,
       jobVars, flagVars, rowVars, noticeVars, checkVars, bootVars, boundVars,
       Superstop, Live, JobsOf
  <1>9. ASSUME NEW h \in Host, Boot(h)
       PROVE  StoreQuiet'
    BY <1>9, JobsAssumption DEF TypeOK, StoreQuiet, JobsOf, InJobs, hostVars,
       jobVars, flagVars, rowVars, noticeVars, checkVars, bootVars, boundVars,
       Boot
  <1>10. ASSUME NEW h \in Host, CloseBegin(h)
       PROVE  StoreQuiet'
    BY <1>10, JobsAssumption DEF TypeOK, StoreQuiet, JobsOf, InJobs, hostVars,
       jobVars, flagVars, rowVars, noticeVars, checkVars, bootVars, boundVars,
       CloseBegin, Live, JobsOf
  <1>11. ASSUME NEW h \in Host, CloseDone(h)
       PROVE  StoreQuiet'
    BY <1>11, JobsAssumption DEF TypeOK, StoreQuiet, JobsOf, InJobs, hostVars,
       jobVars, flagVars, rowVars, noticeVars, checkVars, bootVars, boundVars,
       CloseDone, JobsOf
  <1>12. ASSUME NEW h \in Host, Exit(h) \/ ReExec(h)
       PROVE  StoreQuiet'
    BY <1>12, JobsAssumption DEF TypeOK, StoreQuiet, JobsOf, InJobs, hostVars,
       jobVars, flagVars, rowVars, noticeVars, checkVars, bootVars, boundVars,
       Exit, ReExec
  <1>13. ASSUME NEW h \in Host, Crash(h)
       PROVE  StoreQuiet'
    BY <1>13, JobsAssumption DEF TypeOK, StoreQuiet, JobsOf, InJobs,
       hostVars, jobVars, flagVars, rowVars, noticeVars, checkVars,
       bootVars, boundVars, Crash, MemoryGone, JobsOf
  <1>14. ASSUME NEW h \in Host, NEW r \in Room, ClearPolls(h, r) \/ TakeDue(h, r)
       PROVE  StoreQuiet'
    BY <1>14, JobsAssumption DEF TypeOK, StoreQuiet, JobsOf, InJobs, hostVars,
       jobVars, flagVars, rowVars, noticeVars, checkVars, bootVars, boundVars,
       ClearPolls, TakeDue, JobsOf
  <1>15. CASE RecoverStep
    BY <1>15, JobsAssumption DEF TypeOK, StoreQuiet, JobsOf, InJobs,
       hostVars, jobVars, flagVars, rowVars, noticeVars, checkVars,
       bootVars, boundVars, RecoverStep, RecoverList, RecoverSkip,
       RecoverTell, RecoverDrop, RecoverDone, Fails, Alive, Held
  <1>16. ASSUME NEW h \in Host, ExitEarly(h) \/ ReExecEarly(h)
       PROVE  StoreQuiet'
    BY <1>16, JobsAssumption DEF TypeOK, StoreQuiet, JobsOf, InJobs,
       hostVars, jobVars, flagVars, rowVars, noticeVars, checkVars,
       bootVars, boundVars, ExitEarly, ReExecEarly, Cut, MemoryGone, JobsOf
  <1> QED
    BY <1>1, <1>2, <1>3, <1>4, <1>5, <1>6, <1>7, <1>8, <1>9, <1>10, <1>11,
       <1>12, <1>13, <1>14, <1>15, <1>16
       DEF Next

\* The invariant holds at first,
LEMMA InitJobs == Init => JobsInductive
  <1> SUFFICES ASSUME Init PROVE JobsInductive
    OBVIOUS
  <1>1. TypeOK
    BY JobsAssumption DEF Init, TypeOK, Stage
  <1>2. LiveHere /\ CommandByStage /\ StoppedMarked /\ RowByStage
    BY DEF Init, LiveHere, CommandByStage, StoppedMarked, RowByStage, InJobs
  <1>3. ResultKept /\ ToldIsReal /\ CheckFounded /\ StoreQuiet
    BY DEF Init, ResultKept, ToldIsReal, CheckFounded, StoreQuiet, JobsOf
  <1> QED
    BY <1>1, <1>2, <1>3 DEF JobsInductive

\* and is kept by every step.
LEMMA NextJobs == JobsInductive /\ [Next]_vars => JobsInductive'
  <1> SUFFICES ASSUME JobsInductive, [Next]_vars PROVE JobsInductive'
    OBVIOUS
  <1> USE DEF JobsInductive
  <1>1. TypeOK' /\ LiveHere' /\ CommandByStage'
    BY NextTypeOK, NextLiveHere, NextCommandByStage
  <1>2. StoppedMarked' /\ RowByStage'
    BY NextStoppedMarked, NextRowByStage
  <1>3. ResultKept' /\ ToldIsReal' /\ CheckFounded' /\ StoreQuiet'
    BY NextResultKept, NextToldIsReal, NextCheckFounded, NextStoreQuiet
  <1> QED
    BY <1>1, <1>2, <1>3

\* Every reachable state of the job managers satisfies the inductive invariant.
THEOREM JobsInvariant == Spec => []JobsInductive
  BY InitJobs, NextJobs, PTL DEF Spec

\* Managers, rows, markers and notices stay in the states the code can produce.
THEOREM TypeCorrect == Spec => []TypeOK
  <1>1. JobsInductive => TypeOK
    BY DEF JobsInductive
  <1> QED
    BY <1>1, JobsInvariant, PTL

\* The result of a started command is never forgotten, for any number of
\* jobs, hosts, crashes, restarts and failed writes.
THEOREM ResultsKept == Spec => []ResultKept
  <1>1. JobsInductive => ResultKept
    BY DEF JobsInductive
  <1> QED
    BY <1>1, JobsInvariant, PTL

\* No completion notice is made up by a stop or a shutdown.
THEOREM ToldsAreReal == Spec => []ToldIsReal
  <1>1. JobsInductive => ToldIsReal
    BY DEF JobsInductive
  <1> QED
    BY <1>1, JobsInvariant, PTL

\* Every pending progress check belongs to a started, unstopped job.
THEOREM ChecksFounded == Spec => []CheckFounded
  <1>1. JobsInductive => CheckFounded
    BY DEF JobsInductive
  <1> QED
    BY <1>1, JobsInvariant, PTL

\* A closed store is not written by a job any more.
THEOREM StoresQuiet == Spec => []StoreQuiet
  <1>1. JobsInductive => StoreQuiet
    BY DEF JobsInductive
  <1> QED
    BY <1>1, JobsInvariant, PTL

-----------------------------------------------------------------------------
(* A command of the host that recovers is reported once, and once more for *)
(* each fault.                                                             *)

\* Recovery works on a list of its own rows that nobody else deletes: a host
\* that recovers has no job yet.
RecoverOK ==
  /\ todo \cup dropping # {} => host[Recoverer] = "recover"
  /\ todo \cap dropping = {} /\ \A i, j \in dropping : i = j
  /\ \A j \in todo \cup dropping : Home[j] = Recoverer => j \in marker

\* A report that is still to come: of the job itself, or of a row that is left.
Owing(j) ==
  IF \/ stage[j] \in {"admitted", "marked", "running", "exited", "finished", "telling"}
     \/ stage[j] \in {"failing", "forget", "gone"} /\ j \in marker \ dropping
    THEN 1 ELSE 0

\* Each report beyond the first has its fault, those that are to come included.
FewReports(j) ==
  /\ told[j] + lost[j] + Owing(j) <= 1 + crashes + errors + cuts
  /\ stage[j] = "unborn" => told[j] + lost[j] = 0

\* Every step keeps the list of a recovery sound.
LEMMA NextRecoverOK ==
  ASSUME TypeOK, LiveHere, RecoverOK, [Next]_vars
  PROVE  RecoverOK'
  <1>1. CASE UNCHANGED vars
    BY <1>1 DEF TypeOK, LiveHere, RecoverOK, InJobs, vars, hostVars,
       jobVars, flagVars, rowVars, noticeVars, checkVars, bootVars,
       boundVars
  <1>2. ASSUME NEW j \in Job, Admit(j)
       PROVE  RecoverOK'
    BY <1>2, JobsAssumption DEF TypeOK, LiveHere, RecoverOK, InJobs,
       hostVars, jobVars, flagVars, rowVars, noticeVars, checkVars,
       bootVars, boundVars, At, Admit
  <1>3. ASSUME NEW j \in Job, PutMarker(j)
       PROVE  RecoverOK'
    BY <1>3, JobsAssumption DEF TypeOK, LiveHere, RecoverOK, InJobs,
       hostVars, jobVars, flagVars, rowVars, noticeVars, checkVars,
       bootVars, boundVars, At, PutMarker, Fails
  <1>4. ASSUME NEW j \in Job, Launch(j) \/ LaunchFails(j)
       PROVE  RecoverOK'
    BY <1>4, JobsAssumption DEF TypeOK, LiveHere, RecoverOK, InJobs,
       hostVars, jobVars, flagVars, rowVars, noticeVars, checkVars,
       bootVars, boundVars, At, Launch, LaunchFails
  <1>5. ASSUME NEW j \in Job, Unmark(j)
       PROVE  RecoverOK'
    BY <1>5, JobsAssumption DEF TypeOK, LiveHere, RecoverOK, InJobs,
       hostVars, jobVars, flagVars, rowVars, noticeVars, checkVars,
       bootVars, boundVars, At, Unmark, Fails
  <1>6. ASSUME NEW j \in Job, CommandEnds(j)
       PROVE  RecoverOK'
    BY <1>6, JobsAssumption DEF TypeOK, LiveHere, RecoverOK, InJobs,
       hostVars, jobVars, flagVars, rowVars, noticeVars, checkVars,
       bootVars, boundVars, CommandEnds
  <1>7. ASSUME NEW j \in Job, Reap(j) \/ MarkFinished(j) \/ ReadFlags(j)
       PROVE  RecoverOK'
    BY <1>7, JobsAssumption DEF TypeOK, LiveHere, RecoverOK, InJobs,
       hostVars, jobVars, flagVars, rowVars, noticeVars, checkVars,
       bootVars, boundVars, At, Reap, MarkFinished, ReadFlags
  <1>8. ASSUME NEW j \in Job, Tell(j)
       PROVE  RecoverOK'
    BY <1>8, JobsAssumption DEF TypeOK, LiveHere, RecoverOK, InJobs,
       hostVars, jobVars, flagVars, rowVars, noticeVars, checkVars,
       bootVars, boundVars, At, Tell, Fails
  <1>9. ASSUME NEW j \in Job, ClearMarker(j)
       PROVE  RecoverOK'
    BY <1>9, JobsAssumption DEF TypeOK, LiveHere, RecoverOK, InJobs,
       hostVars, jobVars, flagVars, rowVars, noticeVars, checkVars,
       bootVars, boundVars, At, ClearMarker, Fails
  <1>10. ASSUME NEW j \in Job, Forget(j)
       PROVE  RecoverOK'
    BY <1>10, JobsAssumption DEF TypeOK, LiveHere, RecoverOK, InJobs,
       hostVars, jobVars, flagVars, rowVars, noticeVars, checkVars,
       bootVars, boundVars, At, Forget
  <1>11. ASSUME NEW j \in Job, Cancel(j) \/ Poll(j) \/ CancelPoll(j) \/ CheckDue(j)
       PROVE  RecoverOK'
    BY <1>11, JobsAssumption DEF TypeOK, LiveHere, RecoverOK, InJobs,
       hostVars, jobVars, flagVars, rowVars, noticeVars, checkVars,
       bootVars, boundVars, Cancel, Poll, CancelPoll, CheckDue
  <1>12. ASSUME NEW h \in Host, Superstop(h) \/ CloseBegin(h) \/ CloseDone(h)
       PROVE  RecoverOK'
    BY <1>12, JobsAssumption DEF TypeOK, LiveHere, RecoverOK, InJobs,
       hostVars, jobVars, flagVars, rowVars, noticeVars, checkVars,
       bootVars, boundVars, Superstop, CloseBegin, CloseDone, Live, JobsOf
  <1>13. ASSUME NEW h \in Host, Boot(h) \/ Exit(h) \/ ReExec(h)
       PROVE  RecoverOK'
    BY <1>13, JobsAssumption DEF TypeOK, LiveHere, RecoverOK, InJobs,
       hostVars, jobVars, flagVars, rowVars, noticeVars, checkVars,
       bootVars, boundVars, Boot, Exit, ReExec
  <1>14. ASSUME NEW h \in Host, Crash(h)
       PROVE  RecoverOK'
    BY <1>14, JobsAssumption DEF TypeOK, LiveHere, RecoverOK, InJobs,
       hostVars, jobVars, flagVars, rowVars, noticeVars, checkVars,
       bootVars, boundVars, Crash, MemoryGone, JobsOf
  <1>15. ASSUME NEW h \in Host, NEW r \in Room, ClearPolls(h, r) \/ TakeDue(h, r)
       PROVE  RecoverOK'
    BY <1>15, JobsAssumption DEF TypeOK, LiveHere, RecoverOK, InJobs,
       hostVars, jobVars, flagVars, rowVars, noticeVars, checkVars,
       bootVars, boundVars, ClearPolls, TakeDue
  <1>16. CASE RecoverList(Recoverer) \/ RecoverDone(Recoverer)
    BY <1>16, JobsAssumption DEF TypeOK, LiveHere, RecoverOK, InJobs,
       hostVars, jobVars, flagVars, rowVars, noticeVars, checkVars,
       bootVars, boundVars, RecoverList, RecoverDone, Fails
  <1>17. ASSUME NEW j \in Job, RecoverSkip(j)
       PROVE  RecoverOK'
    BY <1>17 DEF TypeOK, LiveHere, RecoverOK, InJobs, hostVars, jobVars,
       flagVars, rowVars, noticeVars, checkVars, bootVars, boundVars,
       RecoverSkip
  <1>18. ASSUME NEW j \in Job, RecoverTell(j)
       PROVE  RecoverOK'
    BY <1>18, JobsAssumption DEF TypeOK, LiveHere, RecoverOK, InJobs,
       hostVars, jobVars, flagVars, rowVars, noticeVars, checkVars,
       bootVars, boundVars, RecoverTell, Fails
  <1>19. ASSUME NEW j \in Job, RecoverDrop(j)
       PROVE  RecoverOK'
    BY <1>19, JobsAssumption DEF TypeOK, LiveHere, RecoverOK, InJobs,
       hostVars, jobVars, flagVars, rowVars, noticeVars, checkVars,
       bootVars, boundVars, RecoverDrop, Fails
  <1>20. ASSUME NEW h \in Host, ExitEarly(h) \/ ReExecEarly(h)
       PROVE  RecoverOK'
    BY <1>20, JobsAssumption DEF TypeOK, LiveHere, RecoverOK, InJobs,
       hostVars, jobVars, flagVars, rowVars, noticeVars, checkVars,
       bootVars, boundVars, ExitEarly, ReExecEarly, Cut, MemoryGone, JobsOf
  <1> QED
    BY <1>1, <1>2, <1>3, <1>4, <1>5, <1>6, <1>7, <1>8, <1>9, <1>10, <1>11,
       <1>12, <1>13, <1>14, <1>15, <1>16, <1>17, <1>18, <1>19, <1>20 DEF Next,
       StartStep, FinishStep, RecoverStep

\* Every step that makes a report owe again is a fault.
LEMMA NextFewReports ==
  ASSUME TypeOK, LiveHere, RowByStage, RecoverOK, [Next]_vars,
         NEW k \in Job, Home[k] = Recoverer, FewReports(k)
  PROVE  FewReports(k)'
  <1>1. CASE UNCHANGED vars
    BY <1>1 DEF TypeOK, LiveHere, RowByStage, RecoverOK, InJobs, Stage,
       FewReports, Owing, vars, hostVars, jobVars, flagVars, rowVars,
       noticeVars, checkVars, bootVars, boundVars
  <1>2. ASSUME NEW j \in Job, Admit(j)
       PROVE  FewReports(k)'
    BY <1>2, JobsAssumption DEF TypeOK, LiveHere, RowByStage, RecoverOK,
       InJobs, Stage, FewReports, Owing, hostVars, jobVars, flagVars,
       rowVars, noticeVars, checkVars, bootVars, boundVars, At, Admit
  <1>3. ASSUME NEW j \in Job, PutMarker(j)
       PROVE  FewReports(k)'
    BY <1>3, JobsAssumption DEF TypeOK, LiveHere, RowByStage, RecoverOK,
       InJobs, Stage, FewReports, Owing, hostVars, jobVars, flagVars,
       rowVars, noticeVars, checkVars, bootVars, boundVars, At, PutMarker,
       Fails
  <1>4. ASSUME NEW j \in Job, Launch(j) \/ LaunchFails(j)
       PROVE  FewReports(k)'
    BY <1>4, JobsAssumption DEF TypeOK, LiveHere, RowByStage, RecoverOK,
       InJobs, Stage, FewReports, Owing, hostVars, jobVars, flagVars,
       rowVars, noticeVars, checkVars, bootVars, boundVars, At, Launch,
       LaunchFails
  <1>5. ASSUME NEW j \in Job, Unmark(j)
       PROVE  FewReports(k)'
    BY <1>5, JobsAssumption DEF TypeOK, LiveHere, RowByStage, RecoverOK,
       InJobs, Stage, FewReports, Owing, hostVars, jobVars, flagVars,
       rowVars, noticeVars, checkVars, bootVars, boundVars, At, Unmark,
       Fails
  <1>6. ASSUME NEW j \in Job, CommandEnds(j)
       PROVE  FewReports(k)'
    BY <1>6, JobsAssumption DEF TypeOK, LiveHere, RowByStage, RecoverOK,
       InJobs, Stage, FewReports, Owing, hostVars, jobVars, flagVars,
       rowVars, noticeVars, checkVars, bootVars, boundVars, CommandEnds
  <1>7. ASSUME NEW j \in Job, Reap(j) \/ MarkFinished(j) \/ ReadFlags(j)
       PROVE  FewReports(k)'
    BY <1>7, JobsAssumption DEF TypeOK, LiveHere, RowByStage, RecoverOK,
       InJobs, Stage, FewReports, Owing, hostVars, jobVars, flagVars,
       rowVars, noticeVars, checkVars, bootVars, boundVars, At, Reap,
       MarkFinished, ReadFlags
  <1>8. ASSUME NEW j \in Job, Tell(j)
       PROVE  FewReports(k)'
    BY <1>8, JobsAssumption DEF TypeOK, LiveHere, RowByStage, RecoverOK,
       InJobs, Stage, FewReports, Owing, hostVars, jobVars, flagVars,
       rowVars, noticeVars, checkVars, bootVars, boundVars, At, Tell, Fails
  <1>9. ASSUME NEW j \in Job, ClearMarker(j)
       PROVE  FewReports(k)'
    BY <1>9, JobsAssumption DEF TypeOK, LiveHere, RowByStage, RecoverOK,
       InJobs, Stage, FewReports, Owing, hostVars, jobVars, flagVars,
       rowVars, noticeVars, checkVars, bootVars, boundVars, At,
       ClearMarker, Fails
  <1>10. ASSUME NEW j \in Job, Forget(j)
       PROVE  FewReports(k)'
    BY <1>10, JobsAssumption DEF TypeOK, LiveHere, RowByStage, RecoverOK,
       InJobs, Stage, FewReports, Owing, hostVars, jobVars, flagVars,
       rowVars, noticeVars, checkVars, bootVars, boundVars, At, Forget
  <1>11. ASSUME NEW j \in Job, Cancel(j) \/ Poll(j) \/ CancelPoll(j) \/ CheckDue(j)
       PROVE  FewReports(k)'
    BY <1>11, JobsAssumption DEF TypeOK, LiveHere, RowByStage, RecoverOK,
       InJobs, Stage, FewReports, Owing, hostVars, jobVars, flagVars,
       rowVars, noticeVars, checkVars, bootVars, boundVars, Cancel, Poll,
       CancelPoll, CheckDue
  <1>12. ASSUME NEW h \in Host, Superstop(h) \/ CloseBegin(h) \/ CloseDone(h)
       PROVE  FewReports(k)'
    BY <1>12, JobsAssumption DEF TypeOK, LiveHere, RowByStage, RecoverOK,
       InJobs, Stage, FewReports, Owing, hostVars, jobVars, flagVars,
       rowVars, noticeVars, checkVars, bootVars, boundVars, Superstop,
       CloseBegin, CloseDone, Live, JobsOf
  <1>13. ASSUME NEW h \in Host, Boot(h) \/ Exit(h) \/ ReExec(h)
       PROVE  FewReports(k)'
    BY <1>13, JobsAssumption DEF TypeOK, LiveHere, RowByStage, RecoverOK,
       InJobs, Stage, FewReports, Owing, hostVars, jobVars, flagVars,
       rowVars, noticeVars, checkVars, bootVars, boundVars, Boot, Exit,
       ReExec
  <1>14. ASSUME NEW h \in Host, Crash(h)
       PROVE  FewReports(k)'
    BY <1>14, JobsAssumption DEF TypeOK, LiveHere, RowByStage, RecoverOK,
       InJobs, Stage, FewReports, Owing, hostVars, jobVars, flagVars,
       rowVars, noticeVars, checkVars, bootVars, boundVars, Crash,
       MemoryGone, JobsOf
  <1>15. ASSUME NEW h \in Host, NEW r \in Room, ClearPolls(h, r) \/ TakeDue(h, r)
       PROVE  FewReports(k)'
    BY <1>15, JobsAssumption DEF TypeOK, LiveHere, RowByStage, RecoverOK,
       InJobs, Stage, FewReports, Owing, hostVars, jobVars, flagVars,
       rowVars, noticeVars, checkVars, bootVars, boundVars, ClearPolls,
       TakeDue
  <1>16. CASE RecoverList(Recoverer) \/ RecoverDone(Recoverer)
    BY <1>16, JobsAssumption DEF TypeOK, LiveHere, RowByStage, RecoverOK,
       InJobs, Stage, FewReports, Owing, hostVars, jobVars, flagVars,
       rowVars, noticeVars, checkVars, bootVars, boundVars, RecoverList,
       RecoverDone, Fails
  <1>17. ASSUME NEW j \in Job, RecoverSkip(j)
       PROVE  FewReports(k)'
    BY <1>17 DEF TypeOK, LiveHere, RowByStage, RecoverOK, InJobs, Stage,
       FewReports, Owing, hostVars, jobVars, flagVars, rowVars, noticeVars,
       checkVars, bootVars, boundVars, RecoverSkip
  <1>18. ASSUME NEW j \in Job, RecoverTell(j)
       PROVE  FewReports(k)'
    <2>1. /\ k \in todo => k \in marker \ dropping /\ stage[k] = "gone"
          /\ Owing(k) \in 0..1 /\ crashes \in Nat /\ errors \in Nat /\ cuts \in Nat
          /\ told[k] \in Nat /\ lost[k] \in Nat
      BY JobsAssumption
         DEF TypeOK, LiveHere, RowByStage, RecoverOK, InJobs, Stage, Owing
    <2>2. /\ dropping = {} /\ j \in todo /\ stage' = stage /\ marker' = marker
          /\ told' = told /\ crashes' = crashes /\ cuts' = cuts
      BY <1>18 DEF RecoverTell, Fails, jobVars, rowVars, boundVars
    <2>3. CASE lost' = lost /\ dropping' = dropping /\ errors' = errors + 1
      BY <2>1, <2>2, <2>3 DEF FewReports, Owing
    <2>4. CASE lost' = [lost EXCEPT ![j] = @ + 1] /\ dropping' = {j} /\ errors' = errors
      <3>1. CASE j = k
        <4>1. Owing(k) = 1 /\ Owing(k)' = 0
          BY <2>1, <2>2, <2>4, <3>1 DEF Owing
        <4>2. lost'[k] = lost[k] + 1
          BY <2>4, <3>1 DEF TypeOK
        <4>3. QED
          BY <2>1, <2>2, <2>4, <3>1, <4>1, <4>2 DEF FewReports
      <3>2. CASE j # k
        BY <2>2, <2>4, <3>2 DEF FewReports, Owing, TypeOK
      <3>3. QED
        BY <3>1, <3>2
    <2>5. QED
      BY <1>18, <2>3, <2>4 DEF RecoverTell, Fails, boundVars
  <1>19. ASSUME NEW j \in Job, RecoverDrop(j)
       PROVE  FewReports(k)'
    <2>1. /\ Owing(k) \in 0..1 /\ Owing(k)' \in 0..1
          /\ crashes \in Nat /\ errors \in Nat /\ cuts \in Nat
          /\ told[k] \in Nat /\ lost[k] \in Nat
      BY JobsAssumption DEF TypeOK, Owing
    <2>2. /\ j \in dropping /\ dropping' = {} /\ stage' = stage
          /\ told' = told /\ lost' = lost /\ crashes' = crashes /\ cuts' = cuts
      BY <1>19 DEF RecoverDrop, Fails, jobVars, noticeVars, boundVars
    <2>3. CASE marker' = marker /\ errors' = errors + 1
      BY <2>1, <2>2, <2>3 DEF FewReports
    <2>4. CASE marker' = marker \ {j} /\ errors' = errors
      <3>1. dropping = {j} /\ stage[j] = "gone"
        BY <2>2 DEF RecoverOK, RowByStage
      <3>2. Owing(k)' = Owing(k)
        BY <2>2, <2>4, <3>1 DEF Owing
      <3>3. QED
        BY <2>2, <2>4, <3>2 DEF FewReports
    <2>5. QED
      BY <1>19, <2>3, <2>4 DEF RecoverDrop, Fails, boundVars
  <1>20. ASSUME NEW h \in Host, ExitEarly(h) \/ ReExecEarly(h)
       PROVE  FewReports(k)'
    BY <1>20, JobsAssumption DEF TypeOK, LiveHere, RowByStage, RecoverOK,
       InJobs, Stage, FewReports, Owing, hostVars, jobVars, flagVars,
       rowVars, noticeVars, checkVars, bootVars, boundVars, ExitEarly,
       ReExecEarly, Cut, MemoryGone, JobsOf
  <1> QED
    BY <1>1, <1>2, <1>3, <1>4, <1>5, <1>6, <1>7, <1>8, <1>9, <1>10, <1>11,
       <1>12, <1>13, <1>14, <1>15, <1>16, <1>17, <1>18, <1>19, <1>20 DEF Next,
       StartStep, FinishStep, RecoverStep

\* A command whose host recovers is reported at most once, plus once for each
\* crash, each failed write and each Close cut short, although the notice and
\* the deletion of its row are two writes (background_recovery.go
\* RecoverBackgroundJobs, completion.go persistCommandCompletion, runtime.go Close).
THEOREM DuplicatesNeedFaults == Spec => []DuplicateNeedsFault
  <1> DEFINE Few == \A k \in Job : Home[k] = Recoverer => FewReports(k)
  <1>1. Init => RecoverOK /\ Few
    <2>1. Init => RecoverOK
      BY DEF Init, RecoverOK
    <2>2. ASSUME Init, NEW k \in Job PROVE FewReports(k)
      BY <2>2 DEF Init, FewReports, Owing
    <2>3. QED
      BY <2>1, <2>2
  <1>2. JobsInductive /\ RecoverOK /\ Few /\ [Next]_vars => RecoverOK' /\ Few'
    BY NextRecoverOK, NextFewReports DEF JobsInductive
  <1>3. TypeOK /\ Few => DuplicateNeedsFault
    <2> SUFFICES ASSUME TypeOK, Few, NEW k \in Job, Home[k] = Recoverer
                 PROVE  told[k] + lost[k] <= 1 + crashes + errors + cuts
      BY DEF DuplicateNeedsFault
    <2>1. /\ told[k] \in Nat /\ lost[k] \in Nat
          /\ crashes \in Nat /\ errors \in Nat /\ cuts \in Nat
      BY JobsAssumption DEF TypeOK
    <2>2. Owing(k) \in Nat
      BY DEF Owing
    <2>3. QED
      BY <2>1, <2>2 DEF FewReports
  <1> HIDE DEF Few
  <1> QED
    BY JobsInvariant, TypeCorrect, <1>1, <1>2, <1>3, PTL DEF Spec

-----------------------------------------------------------------------------
(* The refinement of CommandPromise.                                       *)

\* The variables of CommandPromise.
Taken == {j \in Job : stage[j] # "unborn"}
Kept == {j \in Job : stage[j] \in InJobs} \cup marker
Excused == killed \cup unmarked

\* What of it a step leaves alone.
SameRuns == Taken' = Taken /\ command' = command
SameTold == told' = told /\ lost' = lost
SameKept == Kept' = Kept /\ Excused' = Excused

\* A step that touches none of it.
LEMMA PromiseSame ==
  ASSUME SameRuns, SameTold, SameKept
  PROVE  UNCHANGED Promise!pVars
  BY DEF SameRuns, SameTold, SameKept, Taken, Kept, Excused, Promise!pVars

\* Somebody lets go of commands: ResultKept says which these may be.
LEMMA PromiseLetGo ==
  ASSUME ResultKept', SameRuns, SameTold, Excused' = Excused, Kept' \subseteq Kept,
         Kept \subseteq Job
  PROVE  Promise!PNext
  <1>1. \A c \in Kept \ Kept' : command[c] = "none" \/ told[c] + lost[c] > 0 \/ c \in Excused
    BY DEF ResultKept, SameRuns, SameTold, Kept, Excused
  <1>2. Promise!LetGo
    BY <1>1 DEF SameRuns, SameTold, Taken, Kept, Excused, Promise!LetGo
  <1> QED
    BY <1>2 DEF Promise!PNext

\* A command is admitted.
LEMMA PromiseTake ==
  ASSUME NEW j \in Job, TypeOK, Admit(j)
  PROVE  Promise!PNext
  <1>1. /\ stage[j] = "unborn" /\ stage' = [stage EXCEPT ![j] = "admitted"]
        /\ SameTold /\ Excused' = Excused /\ command' = command /\ marker' = marker
    BY DEF Admit, At, flagVars, rowVars, noticeVars, SameTold, Excused
  <1>2. j \notin Taken /\ Taken' = Taken \cup {j} /\ Kept' = Kept \cup {j}
    BY <1>1 DEF TypeOK, Taken, Kept, InJobs
  <1>3. Promise!Take(j)
    BY <1>1, <1>2 DEF SameTold, Taken, Kept, Excused, Promise!Take
  <1> QED
    BY <1>3 DEF Promise!PNext

\* Somebody is excused: the user stopped it, or it has no row.
LEMMA PromiseExcuse ==
  ASSUME SameRuns, SameTold, Kept' = Kept, Excused \subseteq Excused',
         Excused' \ Excused \subseteq Kept
  PROVE  Promise!PNext
  <1>1. Promise!Excuse
    BY DEF SameRuns, SameTold, Taken, Kept, Excused, Promise!Excuse
  <1> QED
    BY <1>1 DEF Promise!PNext

\* From the row to the process.
LEMMA PromiseStart ==
  ASSUME NEW j \in Job, TypeOK, CommandByStage, ResultKept', StartStep(j)
  PROVE  [Promise!PNext]_(Promise!pVars)
  <1>1. Kept \subseteq Job
    BY DEF TypeOK, Kept
  <1>2. CASE PutMarker(j)
    <2>1. /\ stage[j] = "admitted" /\ stage' = [stage EXCEPT ![j] = "marked"]
          /\ SameTold /\ command' = command /\ killed' = killed
          /\ \/ marker' = marker \cup {j} /\ unmarked' = unmarked
             \/ marker' = marker /\ unmarked' = unmarked \cup {j}
      BY <1>2 DEF PutMarker, At, flagVars, noticeVars, SameTold
    <2>2. SameRuns /\ Kept' = Kept /\ j \in Kept
      BY <2>1 DEF TypeOK, SameRuns, Taken, Kept, InJobs
    <2>3. Excused \subseteq Excused' /\ Excused' \ Excused \subseteq Kept
      BY <2>1, <2>2 DEF Excused
    <2>4. QED
      BY <2>1, <2>2, <2>3, PromiseExcuse
  <1>3. CASE Launch(j)
    <2>1. /\ stage[j] = "marked" /\ stage' = [stage EXCEPT ![j] = "running"]
          /\ SameTold /\ command' = [command EXCEPT ![j] = "alive"] /\ marker' = marker
          /\ Excused' = Excused
      BY <1>3 DEF Launch, At, flagVars, rowVars, noticeVars, SameTold, Excused
    <2>2. Taken' = Taken /\ Kept' = Kept /\ j \in Kept /\ command[j] = "none"
      BY <2>1 DEF TypeOK, CommandByStage, Taken, Kept, InJobs
    <2>3. Promise!Start(j)
      BY <2>1, <2>2 DEF SameTold, Taken, Kept, Excused, Promise!Start
    <2>4. QED
      BY <2>3 DEF Promise!PNext
  <1>4. CASE LaunchFails(j) \/ Unmark(j)
    <2>1. /\ SameTold /\ command' = command /\ marker' \subseteq marker /\ Excused' = Excused
          /\ stage[j] \in {"marked", "failing"}
          /\ \E s \in {"failing", "gone"} : stage' = [stage EXCEPT ![j] = s]
      BY <1>4 DEF LaunchFails, Unmark, At, flagVars, rowVars, noticeVars, SameTold, Excused
    <2>2. SameRuns /\ Kept' \subseteq Kept
      BY <2>1 DEF TypeOK, SameRuns, Taken, Kept, InJobs
    <2>3. QED
      BY <1>1, <2>1, <2>2, PromiseLetGo
  <1> QED
    BY <1>2, <1>3, <1>4 DEF StartStep

\* From the exit to the notice.
LEMMA PromiseFinish ==
  ASSUME NEW j \in Job, TypeOK, CommandByStage, ResultKept', FinishStep(j)
  PROVE  [Promise!PNext]_(Promise!pVars)
  <1>1. Kept \subseteq Job
    BY DEF TypeOK, Kept
  <1>2. CASE Reap(j) \/ MarkFinished(j) \/ ReadFlags(j) \/ ClearMarker(j)
    <2>1. /\ SameTold /\ command' = command /\ Excused' = Excused
          /\ stage[j] \in {"running", "exited", "finished", "clear"}
          /\ \E s \in {"exited", "finished", "telling", "clear", "forget"} :
               stage' = [stage EXCEPT ![j] = s]
          /\ marker' = marker \/ marker' = marker \ {j}
      BY <1>2 DEF Reap, MarkFinished, ReadFlags, ClearMarker, At, flagVars, rowVars,
         noticeVars, SameTold, Excused
    <2>2. SameRuns /\ Kept' = Kept
      BY <2>1 DEF TypeOK, SameRuns, Taken, Kept, InJobs
    <2>3. QED
      BY <2>1, <2>2, PromiseSame DEF SameKept
  <1>3. CASE Tell(j)
    <2>1. /\ command' = command /\ Excused' = Excused /\ marker' = marker /\ lost' = lost
          /\ stage[j] = "telling"
          /\ \E s \in {"clear", "forget"} : stage' = [stage EXCEPT ![j] = s]
          /\ told' = told \/ told' = [told EXCEPT ![j] = @ + 1]
      BY <1>3 DEF Tell, At, flagVars, rowVars, Excused
    <2>2. Taken' = Taken /\ Kept' = Kept /\ j \in Kept /\ command[j] = "done"
      BY <2>1 DEF TypeOK, CommandByStage, Taken, Kept, InJobs
    <2>3. CASE told' = told
      BY <2>1, <2>2, <2>3, PromiseSame DEF SameRuns, SameTold, SameKept
    <2>4. CASE told' = [told EXCEPT ![j] = @ + 1]
      <3>1. Promise!Tell(j)
        BY <2>1, <2>2, <2>4 DEF Taken, Kept, Excused, Promise!Tell
      <3>2. QED
        BY <3>1 DEF Promise!PNext
    <2>5. QED
      BY <2>1, <2>3, <2>4
  <1>4. CASE Forget(j)
    <2>1. /\ SameTold /\ command' = command /\ marker' = marker /\ Excused' = Excused
          /\ stage[j] = "forget" /\ stage' = [stage EXCEPT ![j] = "gone"]
      BY <1>4 DEF Forget, At, flagVars, rowVars, noticeVars, SameTold, Excused
    <2>2. SameRuns /\ Kept' \subseteq Kept
      BY <2>1 DEF TypeOK, SameRuns, Taken, Kept, InJobs
    <2>3. QED
      BY <1>1, <2>1, <2>2, PromiseLetGo
  <1> QED
    BY <1>2, <1>3, <1>4 DEF FinishStep

\* A host recovers, job by job.
LEMMA PromiseRecover ==
  ASSUME TypeOK, RowByStage, ResultKept', RecoverStep
  PROVE  [Promise!PNext]_(Promise!pVars)
  <1>1. Kept \subseteq Job
    BY DEF TypeOK, Kept
  <1>2. ASSUME RecoverList(Recoverer) \/ RecoverDone(Recoverer)
               \/ \E j \in Job : RecoverSkip(j)
        PROVE  UNCHANGED Promise!pVars
    <2>1. SameRuns /\ SameTold /\ SameKept
      BY <1>2 DEF RecoverList, RecoverDone, RecoverSkip, jobVars, flagVars, rowVars,
         noticeVars, SameRuns, SameTold, SameKept, Taken, Kept, Excused
    <2>2. QED
      BY <2>1, PromiseSame
  <1>3. ASSUME NEW j \in Job, RecoverTell(j)
        PROVE  [Promise!PNext]_(Promise!pVars)
    <2>1. /\ SameRuns /\ SameKept /\ told' = told /\ j \in Taken
          /\ lost' = lost \/ lost' = [lost EXCEPT ![j] = @ + 1]
      BY <1>3 DEF RecoverTell, RowByStage, jobVars, flagVars, rowVars, SameRuns, SameKept,
         Taken, Kept, Excused
    <2>2. CASE lost' = lost
      BY <2>1, <2>2, PromiseSame DEF SameTold
    <2>3. CASE lost' = [lost EXCEPT ![j] = @ + 1]
      <3>1. Promise!TellLost(j)
        BY <2>1, <2>3 DEF SameRuns, SameKept, Taken, Kept, Excused, Promise!TellLost
      <3>2. QED
        BY <3>1 DEF Promise!PNext
    <2>4. QED
      BY <2>1, <2>2, <2>3
  <1>4. ASSUME NEW j \in Job, RecoverDrop(j)
        PROVE  [Promise!PNext]_(Promise!pVars)
    <2>1. SameRuns /\ SameTold /\ Excused' = Excused /\ Kept' \subseteq Kept
      BY <1>4 DEF RecoverDrop, jobVars, flagVars, noticeVars, SameRuns, SameTold, Taken,
         Kept, Excused
    <2>2. QED
      BY <1>1, <2>1, PromiseLetGo
  <1> QED
    BY <1>2, <1>3, <1>4 DEF RecoverStep

\* Every step is a step of CommandPromise, or does not touch it.
LEMMA PromiseStep ==
  ASSUME JobsInductive, JobsInductive', [Next]_vars
  PROVE  [Promise!PNext]_(Promise!pVars)
  <1> USE DEF JobsInductive
  <1>1. ASSUME \/ UNCHANGED vars
               \/ \E j \in Job : Cancel(j) \/ Poll(j) \/ CancelPoll(j) \/ CheckDue(j)
               \/ \E h \in Host :
                    Boot(h) \/ CloseBegin(h) \/ CloseDone(h) \/ Exit(h) \/ ReExec(h)
               \/ \E h \in Host, r \in Room : ClearPolls(h, r) \/ TakeDue(h, r)
        PROVE  UNCHANGED Promise!pVars
    <2>1. /\ stage' = stage /\ command' = command /\ marker' = marker
          /\ told' = told /\ lost' = lost /\ killed' = killed /\ unmarked' = unmarked
      BY <1>1 DEF vars, Cancel, Poll, CancelPoll, CheckDue, Boot, CloseBegin, CloseDone,
         Exit, ReExec, ClearPolls, TakeDue, jobVars, flagVars, rowVars, noticeVars
    <2>2. QED
      BY <2>1, PromiseSame DEF SameRuns, SameTold, SameKept, Taken, Kept, Excused
  <1>2. ASSUME NEW j \in Job, Admit(j)
        PROVE  Promise!PNext
    BY <1>2, PromiseTake
  <1>3. ASSUME NEW j \in Job, StartStep(j) \/ FinishStep(j)
        PROVE  [Promise!PNext]_(Promise!pVars)
    BY <1>3, PromiseStart, PromiseFinish
  <1>4. ASSUME NEW j \in Job, CommandEnds(j)
        PROVE  Promise!PNext
    <2>1. /\ Taken' = Taken /\ SameTold /\ SameKept /\ command[j] = "alive"
          /\ \E how \in {"done", "killed"} : command' = [command EXCEPT ![j] = how]
      BY <1>4 DEF CommandEnds, flagVars, rowVars, noticeVars, SameTold, SameKept, Taken,
         Kept, Excused
    <2>2. Promise!End(j)
      BY <2>1 DEF SameTold, SameKept, Taken, Kept, Excused, Promise!End
    <2>3. QED
      BY <2>2 DEF Promise!PNext
  <1>5. ASSUME NEW h \in Host, Superstop(h)
        PROVE  Promise!PNext
    <2>1. /\ SameRuns /\ SameTold /\ Kept' = Kept /\ unmarked' = unmarked
          /\ killed' = killed \cup Live(h)
      BY <1>5 DEF Superstop, jobVars, rowVars, noticeVars, SameRuns, SameTold, Taken, Kept
    <2>2. Live(h) \subseteq Kept
      BY DEF Live, JobsOf, Kept
    <2>3. QED
      BY <2>1, <2>2, PromiseExcuse DEF Excused
  <1>6. ASSUME NEW h \in Host, Crash(h) \/ ExitEarly(h) \/ ReExecEarly(h)
        PROVE  Promise!PNext
    <2>1. /\ command' = command /\ SameTold /\ Excused' = Excused /\ marker' = marker
          /\ stage' = [j \in Job |-> IF j \in JobsOf(h) /\ stage[j] # "unborn" THEN "gone"
                                                                           ELSE stage[j]]
      BY <1>6 DEF Crash, ExitEarly, ReExecEarly, Cut, MemoryGone, flagVars, rowVars,
         noticeVars, SameTold, Excused
    <2>2. SameRuns /\ Kept' \subseteq Kept /\ Kept \subseteq Job
      BY <2>1 DEF TypeOK, SameRuns, Taken, Kept, InJobs
    <2>3. QED
      BY <2>1, <2>2, PromiseLetGo
  <1>7. CASE RecoverStep
    BY <1>7, PromiseRecover
  <1> QED
    BY <1>1, <1>2, <1>3, <1>4, <1>5, <1>6, <1>7 DEF Next

\* The job managers, their rows and the recovery implement CommandPromise, for
\* any hosts, commands and faults: nothing runs that nobody answers for, nobody
\* lets go of a result that was not told, and nothing is told afterwards (jobs.go
\* startCommand, completion.go, background_recovery.go).
THEOREM JobsKeepPromise == Spec => KeepsPromise
  <1>1. Init => Promise!PInit
    BY DEF Init, Promise!PInit, InJobs
  <1>2. JobsInductive /\ JobsInductive' /\ [Next]_vars => [Promise!PNext]_(Promise!pVars)
    BY PromiseStep
  <1> QED
    BY JobsInvariant, <1>1, <1>2, PTL DEF Spec, KeepsPromise, Promise!PSpec
=============================================================================
