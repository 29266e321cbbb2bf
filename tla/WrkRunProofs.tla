---------------------------- MODULE WrkRunProofs ----------------------------
(***************************************************************************)
(* Every safety property of WrkRun, for every task graph, every number of  *)
(* drivers and cancellers, any signals, and any bound on the faults.       *)
(*                                                                         *)
(* The invariants hold because Inductive does: it holds initially, each of *)
(* its conjuncts is preserved by a step from a state where Inductive holds *)
(* (one lemma per conjunct, one step per action), and it implies them.     *)
(***************************************************************************)
EXTENDS WrkRunInductive, TLAPS

-----------------------------------------------------------------------------
(* The selection of a wave.                                                *)

\* selectRunnable chooses among the nodes it is given.
LEMMA WaveInside == ASSUME NEW S PROVE SelectRunnable(S) \subseteq S
  BY DEF SelectRunnable, First

\* A wave that holds a writer holds nothing else: positions are distinct.
LEMMA WriterWave ==
  ASSUME NEW S \in SUBSET Node, NEW w \in SelectRunnable(S) \cap Writer
  PROVE  \A n \in SelectRunnable(S) : n = w
  <1>1. SelectRunnable(S) = First(S \cap Writer)
    BY WaveInside DEF SelectRunnable
  <1>2. \A n \in First(S \cap Writer) : Place[n] <= Place[w] /\ Place[w] <= Place[n]
    BY <1>1 DEF First
  <1>3. \A n \in First(S \cap Writer) : Place[n] = Place[w]
    BY <1>2, TaskAssumption DEF First
  <1> QED
    BY <1>1, <1>3, TaskAssumption DEF First

\* Before its wave a beat has no process, its own or an orphan's.
LEMMA NoPhase ==
  ASSUME TypeOK, OneOwner, NEW d \in Driver, pc[d] \in {"advance", "choose"}
  PROVE  \A n \in Node : phase[n] = "off"
  BY DEF TypeOK, OneOwner, Inside, Orphans, Proc, InFlight

\* What launching a wave does to one node.
LEMMA ChosenWave ==
  ASSUME TypeOK, OneOwner, NEW d \in Driver, ChooseWave(d), NEW n \in Node
  PROVE  /\ phase[n] = "off"
         /\ states' = node'
         /\ \/ node'[n] = node[n] /\ phase'[n] = "off"
            \/ /\ n \in Runnable \cap Wait
               /\ node'[n] \in {"passed", "failed", "waiting"} /\ phase'[n] = "off"
            \/ /\ n \in Runnable \ Wait
               /\ node'[n] = node[n] /\ phase'[n] = "starting"
  <1>1. phase[n] = "off"
    BY NoPhase DEF ChooseWave
  <1>2. n \in SelectRunnable(Runnable) => n \in Runnable
    BY WaveInside
  <1>3. WaitResult(n) \in {"passed", "failed", "waiting"}
    BY DEF WaitResult
  <1> QED
    BY <1>1, <1>2, <1>3 DEF ChooseWave

\* Before the wave the beat decides on what the files say.
LEMMA FilesRead ==
  ASSUME MemoryByPc, NEW d \in Driver, pc[d] \in {"advance", "choose"}
  PROVE  /\ \A n \in Node : states[n] = node[n]
         /\ Runnable = {n \in Node : /\ node[n] = "pending"
                                     /\ \A m \in After[n] : node[m] = "passed"}
  <1>1. \A n \in Node : states[n] = node[n]
    BY DEF MemoryByPc, Body, Proc
  <1> QED
    BY <1>1, TaskAssumption DEF Runnable

\* What a failed write of executeNode does to the node and to nothing else.
LEMMA FailedNode ==
  ASSUME TypeOK, NEW n \in Node, NodeFails(n)
  PROVE  /\ phase[n] \in InFlight
         /\ \E state \in {"pending", "interrupted", "failed"},
               file \in {node[n], "running", "failed", "passed"} :
              /\ states' = [states EXCEPT ![n] = state]
              /\ node' = [node EXCEPT ![n] = file]
              /\ state # "failed" => file = node[n] /\ phase[n] # "starting"
              /\ state = "interrupted" => ContextDone
         /\ phase' = [phase EXCEPT ![n] = "off"]
         /\ verdict' \in [Node -> {"none", "accepted", "rejected", "cut"}]
         /\ \/ tries' = tries
            \/ /\ tries' = [tries EXCEPT ![n] = @ + 1]
               /\ phase[n] = "starting" /\ node'[n] = "running"
         /\ faults < MaxFaults /\ faults' = faults + 1
         /\ UNCHANGED <<status, loose, cancelled, receipt, notices, sent, newQ, procQ,
                        events, lateFor, past, expired, owner, pc, stopping>>
  <1> USE DEF Return, InFlight, TypeOK
  <1>1. CASE StartFails(n)
    BY <1>1 DEF NodeFails, StartFails, noticeVars, mailVars, timeVars
  <1>2. CASE ResultFails(n)
    BY <1>2 DEF NodeFails, ResultFails, noticeVars, mailVars, timeVars
  <1>3. CASE StatusFails(n)
    BY <1>3 DEF NodeFails, StatusFails, RetryOrFail, noticeVars, mailVars, timeVars
  <1> QED
    BY <1>1, <1>2, <1>3 DEF NodeFails

-----------------------------------------------------------------------------
(* Types.                                                                  *)

\* The types hold when the run is created.
LEMMA InitTypeOK == Init => TypeOK
  <1> SUFFICES ASSUME Init PROVE TypeOK
    OBVIOUS
  <1> USE DEF Init
  <1>1. status \in Active \cup Terminal
    BY DEF Active
  <1>2. /\ node \in [Node -> NodeStatus] /\ states \in [Node -> NodeStatus]
        /\ tries \in [Node -> Nat]
    BY DEF NodeStatus
  <1>3. phase \in [Node -> {"off", "orphan"} \cup InFlight]
    OBVIOUS
  <1>4. verdict \in [Node -> {"none", "accepted", "rejected", "cut"}]
    OBVIOUS
  <1>5. notices \in [Terminal -> Nat]
    OBVIOUS
  <1>6. PcOK
    BY DEF PcOK, BeatPc, CancelPc, Proc
  <1>7. faults \in 0..MaxFaults
    BY WorldAssumption
  <1>8. lateFor \in [Signal -> SUBSET Node]
    OBVIOUS
  <1> QED
    BY <1>1, <1>2, <1>3, <1>4, <1>5, <1>6, <1>7, <1>8 DEF TypeOK

\* Counting one more notice keeps the counters natural numbers.
LEMMA CountTyped ==
  ASSUME NEW S, NEW f \in [S -> Nat], NEW x
  PROVE  [f EXCEPT ![x] = @ + 1] \in [S -> Nat]
  <1>1. CASE x \in S
    BY <1>1
  <1>2. CASE x \notin S
    <2>1. [f EXCEPT ![x] = @ + 1] = f
      BY <1>2
    <2> QED
      BY <2>1
  <1> QED
    BY <1>1, <1>2

\* A process stays where its operation can take it.
LEMMA NextPcOK ==
  ASSUME TypeOK, [Next]_vars
  PROVE  PcOK'
  <1>1. CASE UNCHANGED vars
    BY <1>1 DEF TypeOK, PcOK, Proc, BeatPc, CancelPc, vars, lockVars, nodeVars,
       noticeVars, mailVars, timeVars
  <1>2. ASSUME NEW d \in Driver, BeatBegin(d)
       PROVE  PcOK'
    BY <1>2, WorldAssumption DEF TypeOK, PcOK, Proc, BeatPc, CancelPc,
       lockVars, nodeVars, noticeVars, mailVars, timeVars, Go, Release,
       BeatBegin, BeatTerminal, BeatCancelled, BeatExpired, BeatRun
  <1>3. ASSUME NEW d \in Driver, Ingest(d)
       PROVE  PcOK'
    BY <1>3, WorldAssumption DEF TypeOK, PcOK, Proc, BeatPc, CancelPc,
       lockVars, nodeVars, noticeVars, mailVars, timeVars, Go, Release, Ingest,
       IngestRecover, IngestClaim, IngestRecord, IngestAck, IngestDone,
       IngestReject, Unwind
  <1>4. ASSUME NEW d \in Driver, AdvanceWaits(d)
       PROVE  PcOK'
    BY <1>4, WorldAssumption DEF TypeOK, PcOK, Proc, BeatPc, CancelPc,
       lockVars, nodeVars, noticeVars, mailVars, timeVars, Go, Release,
       AdvanceWaits
  <1>5. ASSUME NEW d \in Driver, Choose(d)
       PROVE  PcOK'
    BY <1>5, WorldAssumption DEF TypeOK, PcOK, Proc, BeatPc, CancelPc,
       lockVars, nodeVars, noticeVars, mailVars, timeVars, Go, Release, Choose,
       ChooseTerminal, ChooseNothing, ChooseWave
  <1>6. ASSUME NEW d \in Driver, Finish(d)
       PROVE  PcOK'
    BY <1>6, WorldAssumption DEF TypeOK, PcOK, Proc, BeatPc, CancelPc,
       lockVars, nodeVars, noticeVars, mailVars, timeVars, Go, Release, Finish,
       FinishCancelled, FinishInterrupted, FinishExpired, FinishTerminal,
       FinishWave, WaveOver, Unwind
  <1>7. ASSUME NEW p \in Proc, Notify(p)
       PROVE  PcOK'
    BY <1>7, WorldAssumption DEF TypeOK, PcOK, Proc, BeatPc, CancelPc,
       lockVars, nodeVars, noticeVars, mailVars, timeVars, Go, Release, Notify,
       NotifySkip, NotifyPut, NotifyReceipt
  <1>8. ASSUME NEW d \in Driver, HostStop(d)
       PROVE  PcOK'
    BY <1>8, WorldAssumption DEF TypeOK, PcOK, Proc, BeatPc, CancelPc,
       lockVars, nodeVars, noticeVars, mailVars, timeVars, Go, Release,
       HostStop
  <1>9. ASSUME NEW d \in Driver, BeatFails(d)
       PROVE  PcOK'
    BY <1>9, WorldAssumption DEF TypeOK, PcOK, Proc, BeatPc, CancelPc,
       lockVars, nodeVars, noticeVars, mailVars, timeVars, Go, Release,
       BeatFails, WaveOver, Unwind
  <1>10. ASSUME NEW c \in Canceller, CancelCheck(c)
       PROVE  PcOK'
    BY <1>10, WorldAssumption DEF TypeOK, PcOK, Proc, BeatPc, CancelPc,
       lockVars, nodeVars, noticeVars, mailVars, timeVars, Go, Release,
       CancelCheck
  <1>11. ASSUME NEW c \in Canceller, CancelMark(c)
       PROVE  PcOK'
    BY <1>11, WorldAssumption DEF TypeOK, PcOK, Proc, BeatPc, CancelPc,
       lockVars, nodeVars, noticeVars, mailVars, timeVars, Go, Release,
       CancelMark
  <1>12. ASSUME NEW c \in Canceller, CancelTooLate(c)
       PROVE  PcOK'
    BY <1>12, WorldAssumption DEF TypeOK, PcOK, Proc, BeatPc, CancelPc,
       lockVars, nodeVars, noticeVars, mailVars, timeVars, Go, Release,
       CancelTooLate
  <1>13. ASSUME NEW c \in Canceller, CancelLocked(c)
       PROVE  PcOK'
    BY <1>13, WorldAssumption DEF TypeOK, PcOK, Proc, BeatPc, CancelPc,
       lockVars, nodeVars, noticeVars, mailVars, timeVars, Go, Release,
       CancelLocked
  <1>14. ASSUME NEW p \in Proc, NotifyFails(p)
       PROVE  PcOK'
    BY <1>14, WorldAssumption DEF TypeOK, PcOK, Proc, BeatPc, CancelPc,
       lockVars, nodeVars, noticeVars, mailVars, timeVars, Go, Release,
       NotifyFails
  <1>15. ASSUME NEW p \in Proc, Crash(p)
       PROVE  PcOK'
    BY <1>15, WorldAssumption DEF TypeOK, PcOK, Proc, BeatPc, CancelPc,
       lockVars, nodeVars, noticeVars, mailVars, timeVars, Go, Release, Crash
  <1>16. ASSUME NEW n \in Node, ExecuteNode(n)
       PROVE  PcOK'
    BY <1>16, WorldAssumption DEF TypeOK, PcOK, Proc, BeatPc, CancelPc,
       lockVars, nodeVars, noticeVars, mailVars, timeVars, Go, Release,
       ExecuteNode, StartNode, WorkEnds, InTime, WorkCut, CheckEnds, CheckCut, Settle, Return
  <1>17. ASSUME NEW n \in Node, OrphanExits(n)
       PROVE  PcOK'
    BY <1>17, WorldAssumption DEF TypeOK, PcOK, Proc, BeatPc, CancelPc,
       lockVars, nodeVars, noticeVars, mailVars, timeVars, Go, Release,
       OrphanExits
  <1>18. ASSUME NEW n \in Node, LooseExits(n)
       PROVE  PcOK'
    BY <1>18, WorldAssumption DEF TypeOK, PcOK, Proc, BeatPc, CancelPc,
       lockVars, nodeVars, noticeVars, mailVars, timeVars, Go, Release,
       LooseExits
  <1>19. ASSUME NEW n \in Node, WaitDeadline(n)
       PROVE  PcOK'
    BY <1>19, WorldAssumption DEF TypeOK, PcOK, Proc, BeatPc, CancelPc,
       lockVars, nodeVars, noticeVars, mailVars, timeVars, Go, Release,
       WaitDeadline
  <1>20. ASSUME NEW s \in Signal, SignalRun(s) \/ NotifyRun(s)
       PROVE  PcOK'
    BY <1>20, WorldAssumption DEF TypeOK, PcOK, Proc, BeatPc, CancelPc,
       lockVars, nodeVars, noticeVars, mailVars, timeVars, Go, Release,
       SignalRun, NotifyRun, Deliver
  <1>21. CASE RunDeadline
    BY <1>21, WorldAssumption DEF TypeOK, PcOK, Proc, BeatPc, CancelPc,
       lockVars, nodeVars, noticeVars, mailVars, timeVars, Go, Release,
       RunDeadline
  <1>22. ASSUME NEW n \in Node, NodeFails(n)
       PROVE  PcOK'
    BY <1>22, FailedNode, WorldAssumption DEF TypeOK, PcOK, Proc, BeatPc, CancelPc,
       lockVars, nodeVars, noticeVars, mailVars, timeVars, Go, Release
  <1> QED
    BY <1>1, <1>2, <1>3, <1>4, <1>5, <1>6, <1>7, <1>8, <1>9, <1>10, <1>11,
       <1>12, <1>13, <1>14, <1>15, <1>16, <1>17, <1>18, <1>19, <1>20, <1>21, <1>22
       DEF Next, BeatStep, CancelStep, Proc

\* Every step preserves the types.
LEMMA NextTypeOK ==
  ASSUME TypeOK, [Next]_vars
  PROVE  TypeOK'
  <1>1. CASE UNCHANGED vars
    BY <1>1, NextPcOK DEF TypeOK, vars, lockVars, nodeVars, noticeVars,
       mailVars, timeVars, lockVars
  <1>2. ASSUME NEW d \in Driver, BeatBegin(d)
       PROVE  TypeOK'
    BY <1>2, NextPcOK, WorldAssumption DEF TypeOK, Active, Terminal,
       NodeStatus, InFlight, Proc, lockVars, nodeVars, noticeVars, mailVars,
       timeVars, Go, Release, BeatBegin, BeatTerminal, BeatCancelled,
       BeatExpired, BeatRun, Reset
  <1>3. ASSUME NEW d \in Driver, Ingest(d)
       PROVE  TypeOK'
    BY <1>3, NextPcOK, WorldAssumption DEF TypeOK, Active, Terminal,
       NodeStatus, InFlight, Proc, lockVars, nodeVars, noticeVars, mailVars,
       timeVars, Go, Release, Ingest, IngestRecover, IngestClaim, IngestRecord,
       IngestAck, IngestDone, IngestReject, Unwind, OldestId
  <1>4. ASSUME NEW d \in Driver, AdvanceWaits(d)
       PROVE  TypeOK'
    BY <1>4, NextPcOK, WorldAssumption DEF TypeOK, Active, Terminal,
       NodeStatus, InFlight, Proc, lockVars, nodeVars, noticeVars, mailVars,
       timeVars, Go, Release, AdvanceWaits, WaitResult
  <1>5. ASSUME NEW d \in Driver, Choose(d)
       PROVE  TypeOK'
    BY <1>5, NextPcOK, WorldAssumption DEF TypeOK, Active, Terminal,
       NodeStatus, InFlight, Proc, lockVars, nodeVars, noticeVars, mailVars,
       timeVars, Go, Release, Choose, ChooseTerminal, ChooseNothing,
       ChooseWave, TerminalStatuses, WaitResult
  <1>6. ASSUME NEW d \in Driver, Finish(d)
       PROVE  TypeOK'
    BY <1>6, NextPcOK, WorldAssumption DEF TypeOK, Active, Terminal,
       NodeStatus, InFlight, Proc, lockVars, nodeVars, noticeVars, mailVars,
       timeVars, Go, Release, Finish, FinishCancelled, FinishInterrupted,
       FinishExpired, FinishTerminal, FinishWave, WaveOver, Unwind,
       TerminalStatuses, RestingStatus
  <1>7. ASSUME NEW p \in Proc, Notify(p)
       PROVE  TypeOK'
    <2>1. PcOK'
      BY NextPcOK
    <2>2. notices' \in [Terminal -> Nat]
      BY <1>7, CountTyped DEF TypeOK, noticeVars, Notify, NotifySkip, NotifyPut, NotifyReceipt
    <2>3. receipt' \in BOOLEAN /\ UNCHANGED <<status, nodeVars, cancelled, mailVars, timeVars, faults>>
      BY <1>7 DEF TypeOK, noticeVars, Notify, NotifySkip, NotifyPut, NotifyReceipt
    <2>4. owner' \in Proc \cup {NoOne} /\ stopping' \subseteq Proc
      BY <1>7 DEF TypeOK, Go, Release, Notify, NotifySkip, NotifyPut, NotifyReceipt
    <2>5. QED
      BY <2>1, <2>2, <2>3, <2>4 DEF TypeOK, nodeVars, mailVars, timeVars
  <1>8. ASSUME NEW d \in Driver, HostStop(d)
       PROVE  TypeOK'
    BY <1>8, NextPcOK, WorldAssumption DEF TypeOK, Active, Terminal,
       NodeStatus, InFlight, Proc, lockVars, nodeVars, noticeVars, mailVars,
       timeVars, Go, Release, HostStop
  <1>9. ASSUME NEW d \in Driver, BeatFails(d)
       PROVE  TypeOK'
    BY <1>9, NextPcOK, WorldAssumption DEF TypeOK, Active, Terminal,
       NodeStatus, InFlight, Proc, lockVars, nodeVars, noticeVars, mailVars,
       timeVars, Go, Release, BeatFails, WaveOver, Unwind
  <1>10. ASSUME NEW c \in Canceller, CancelCheck(c)
       PROVE  TypeOK'
    BY <1>10, NextPcOK, WorldAssumption DEF TypeOK, Active, Terminal,
       NodeStatus, InFlight, Proc, lockVars, nodeVars, noticeVars, mailVars,
       timeVars, Go, Release, CancelCheck
  <1>11. ASSUME NEW c \in Canceller, CancelMark(c)
       PROVE  TypeOK'
    BY <1>11, NextPcOK, WorldAssumption DEF TypeOK, Active, Terminal,
       NodeStatus, InFlight, Proc, lockVars, nodeVars, noticeVars, mailVars,
       timeVars, Go, Release, CancelMark
  <1>12. ASSUME NEW c \in Canceller, CancelTooLate(c)
       PROVE  TypeOK'
    BY <1>12, NextPcOK, WorldAssumption DEF TypeOK, Active, Terminal,
       NodeStatus, InFlight, Proc, lockVars, nodeVars, noticeVars, mailVars,
       timeVars, Go, Release, CancelTooLate
  <1>13. ASSUME NEW c \in Canceller, CancelLocked(c)
       PROVE  TypeOK'
    BY <1>13, NextPcOK, WorldAssumption DEF TypeOK, Active, Terminal,
       NodeStatus, InFlight, Proc, lockVars, nodeVars, noticeVars, mailVars,
       timeVars, Go, Release, CancelLocked
  <1>14. ASSUME NEW p \in Proc, NotifyFails(p)
       PROVE  TypeOK'
    BY <1>14, NextPcOK, WorldAssumption DEF TypeOK, Active, Terminal,
       NodeStatus, InFlight, Proc, lockVars, nodeVars, noticeVars, mailVars,
       timeVars, Go, Release, NotifyFails
  <1>15. ASSUME NEW p \in Proc, Crash(p)
       PROVE  TypeOK'
    BY <1>15, NextPcOK, WorldAssumption DEF TypeOK, Active, Terminal,
       NodeStatus, InFlight, Proc, lockVars, nodeVars, noticeVars, mailVars,
       timeVars, Go, Release, Crash
  <1>16. ASSUME NEW n \in Node, ExecuteNode(n)
       PROVE  TypeOK'
    BY <1>16, NextPcOK, WorldAssumption DEF TypeOK, Active, Terminal,
       NodeStatus, InFlight, Proc, lockVars, nodeVars, noticeVars, mailVars,
       timeVars, Go, Release, ExecuteNode, StartNode, WorkEnds, InTime, WorkCut,
       CheckEnds, CheckCut, Settle, Return, RetryOrFail
  <1>17. ASSUME NEW n \in Node, OrphanExits(n)
       PROVE  TypeOK'
    BY <1>17, NextPcOK, WorldAssumption DEF TypeOK, Active, Terminal,
       NodeStatus, InFlight, Proc, lockVars, nodeVars, noticeVars, mailVars,
       timeVars, Go, Release, OrphanExits
  <1>18. ASSUME NEW n \in Node, LooseExits(n)
       PROVE  TypeOK'
    BY <1>18, NextPcOK, WorldAssumption DEF TypeOK, Active, Terminal,
       NodeStatus, InFlight, Proc, lockVars, nodeVars, noticeVars, mailVars,
       timeVars, Go, Release, LooseExits
  <1>19. ASSUME NEW n \in Node, WaitDeadline(n)
       PROVE  TypeOK'
    BY <1>19, NextPcOK, WorldAssumption DEF TypeOK, Active, Terminal,
       NodeStatus, InFlight, Proc, lockVars, nodeVars, noticeVars, mailVars,
       timeVars, Go, Release, WaitDeadline
  <1>20. ASSUME NEW s \in Signal, SignalRun(s) \/ NotifyRun(s)
       PROVE  TypeOK'
    BY <1>20, NextPcOK, WorldAssumption DEF TypeOK, Active, Terminal,
       NodeStatus, InFlight, Proc, lockVars, nodeVars, noticeVars, mailVars,
       timeVars, Go, Release, SignalRun, NotifyRun, Deliver
  <1>21. CASE RunDeadline
    BY <1>21, NextPcOK, WorldAssumption DEF TypeOK, Active, Terminal,
       NodeStatus, InFlight, Proc, lockVars, nodeVars, noticeVars, mailVars,
       timeVars, Go, Release, RunDeadline
  <1>22. ASSUME NEW n \in Node, NodeFails(n)
       PROVE  TypeOK'
    BY <1>22, FailedNode, NextPcOK, WorldAssumption DEF TypeOK, Active, Terminal,
       NodeStatus, InFlight, Proc, lockVars, nodeVars, noticeVars, mailVars,
       timeVars, Go, Release
  <1> QED
    BY <1>1, <1>2, <1>3, <1>4, <1>5, <1>6, <1>7, <1>8, <1>9, <1>10, <1>11,
       <1>12, <1>13, <1>14, <1>15, <1>16, <1>17, <1>18, <1>19, <1>20, <1>21, <1>22
       DEF Next, BeatStep, CancelStep, Proc

\* The lock is granted to one process, and to none while a helper holds it.
LEMMA NextOneOwner ==
  ASSUME TypeOK, OneOwner, [Next]_vars
  PROVE  OneOwner'
  <1>1. CASE UNCHANGED vars
    BY <1>1 DEF OneOwner, Inside, Orphans, LockFree, InFlight, Proc, TypeOK,
       PcOK, vars, lockVars, nodeVars, noticeVars, mailVars, timeVars
  <1>2. ASSUME NEW d \in Driver, BeatBegin(d)
       PROVE  OneOwner'
    BY <1>2, WorldAssumption DEF OneOwner, Inside, Orphans, LockFree, InFlight,
       Proc, TypeOK, PcOK, lockVars, nodeVars, noticeVars, mailVars, timeVars,
       Go, Release, BeatBegin, BeatTerminal, BeatCancelled, BeatExpired,
       BeatRun
  <1>3. ASSUME NEW d \in Driver, Ingest(d)
       PROVE  OneOwner'
    BY <1>3, WorldAssumption DEF OneOwner, Inside, Orphans, LockFree, InFlight,
       Proc, TypeOK, PcOK, lockVars, nodeVars, noticeVars, mailVars, timeVars,
       Go, Release, Ingest, IngestRecover, IngestClaim, IngestRecord,
       IngestAck, IngestDone, IngestReject, Unwind
  <1>4. ASSUME NEW d \in Driver, AdvanceWaits(d)
       PROVE  OneOwner'
    BY <1>4, WorldAssumption DEF OneOwner, Inside, Orphans, LockFree, InFlight,
       Proc, TypeOK, PcOK, lockVars, nodeVars, noticeVars, mailVars, timeVars,
       Go, Release, AdvanceWaits
  <1>5. ASSUME NEW d \in Driver, Choose(d)
       PROVE  OneOwner'
    BY <1>5, WorldAssumption DEF OneOwner, Inside, Orphans, LockFree, InFlight,
       Proc, TypeOK, PcOK, lockVars, nodeVars, noticeVars, mailVars, timeVars,
       Go, Release, Choose, ChooseTerminal, ChooseNothing, ChooseWave
  <1>6. ASSUME NEW d \in Driver, Finish(d)
       PROVE  OneOwner'
    BY <1>6, WorldAssumption DEF OneOwner, Inside, Orphans, LockFree, InFlight,
       Proc, TypeOK, PcOK, lockVars, nodeVars, noticeVars, mailVars, timeVars,
       Go, Release, Finish, FinishCancelled, FinishInterrupted, FinishExpired,
       FinishTerminal, FinishWave, WaveOver, Unwind
  <1>7. ASSUME NEW p \in Proc, Notify(p)
       PROVE  OneOwner'
    BY <1>7, WorldAssumption DEF OneOwner, Inside, Orphans, LockFree, InFlight,
       Proc, TypeOK, PcOK, lockVars, nodeVars, noticeVars, mailVars, timeVars,
       Go, Release, Notify, NotifySkip, NotifyPut, NotifyReceipt
  <1>8. ASSUME NEW d \in Driver, HostStop(d)
       PROVE  OneOwner'
    BY <1>8, WorldAssumption DEF OneOwner, Inside, Orphans, LockFree, InFlight,
       Proc, TypeOK, PcOK, lockVars, nodeVars, noticeVars, mailVars, timeVars,
       Go, Release, HostStop
  <1>9. ASSUME NEW d \in Driver, BeatFails(d)
       PROVE  OneOwner'
    BY <1>9, WorldAssumption DEF OneOwner, Inside, Orphans, LockFree, InFlight,
       Proc, TypeOK, PcOK, lockVars, nodeVars, noticeVars, mailVars, timeVars,
       Go, Release, BeatFails, WaveOver, Unwind
  <1>10. ASSUME NEW c \in Canceller, CancelCheck(c)
       PROVE  OneOwner'
    BY <1>10, WorldAssumption DEF OneOwner, Inside, Orphans, LockFree,
       InFlight, Proc, TypeOK, PcOK, lockVars, nodeVars, noticeVars, mailVars,
       timeVars, Go, Release, CancelCheck
  <1>11. ASSUME NEW c \in Canceller, CancelMark(c)
       PROVE  OneOwner'
    BY <1>11, WorldAssumption DEF OneOwner, Inside, Orphans, LockFree,
       InFlight, Proc, TypeOK, PcOK, lockVars, nodeVars, noticeVars, mailVars,
       timeVars, Go, Release, CancelMark
  <1>12. ASSUME NEW c \in Canceller, CancelTooLate(c)
       PROVE  OneOwner'
    BY <1>12, WorldAssumption DEF OneOwner, Inside, Orphans, LockFree,
       InFlight, Proc, TypeOK, PcOK, lockVars, nodeVars, noticeVars, mailVars,
       timeVars, Go, Release, CancelTooLate
  <1>13. ASSUME NEW c \in Canceller, CancelLocked(c)
       PROVE  OneOwner'
    BY <1>13, WorldAssumption DEF OneOwner, Inside, Orphans, LockFree,
       InFlight, Proc, TypeOK, PcOK, lockVars, nodeVars, noticeVars, mailVars,
       timeVars, Go, Release, CancelLocked
  <1>14. ASSUME NEW p \in Proc, NotifyFails(p)
       PROVE  OneOwner'
    BY <1>14, WorldAssumption DEF OneOwner, Inside, Orphans, LockFree,
       InFlight, Proc, TypeOK, PcOK, lockVars, nodeVars, noticeVars, mailVars,
       timeVars, Go, Release, NotifyFails
  <1>15. ASSUME NEW p \in Proc, Crash(p)
       PROVE  OneOwner'
    BY <1>15, WorldAssumption DEF OneOwner, Inside, Orphans, LockFree,
       InFlight, Proc, TypeOK, PcOK, lockVars, nodeVars, noticeVars, mailVars,
       timeVars, Go, Release, Crash
  <1>16. ASSUME NEW n \in Node, ExecuteNode(n)
       PROVE  OneOwner'
    BY <1>16, WorldAssumption DEF OneOwner, Inside, Orphans, LockFree,
       InFlight, Proc, TypeOK, PcOK, lockVars, nodeVars, noticeVars, mailVars,
       timeVars, Go, Release, ExecuteNode, StartNode, WorkEnds, InTime, WorkCut,
       CheckEnds, CheckCut, Settle, Return
  <1>17. ASSUME NEW n \in Node, OrphanExits(n)
       PROVE  OneOwner'
    BY <1>17, WorldAssumption DEF OneOwner, Inside, Orphans, LockFree,
       InFlight, Proc, TypeOK, PcOK, lockVars, nodeVars, noticeVars, mailVars,
       timeVars, Go, Release, OrphanExits
  <1>18. ASSUME NEW n \in Node, LooseExits(n)
       PROVE  OneOwner'
    BY <1>18, WorldAssumption DEF OneOwner, Inside, Orphans, LockFree,
       InFlight, Proc, TypeOK, PcOK, lockVars, nodeVars, noticeVars, mailVars,
       timeVars, Go, Release, LooseExits
  <1>19. ASSUME NEW n \in Node, WaitDeadline(n)
       PROVE  OneOwner'
    BY <1>19, WorldAssumption DEF OneOwner, Inside, Orphans, LockFree,
       InFlight, Proc, TypeOK, PcOK, lockVars, nodeVars, noticeVars, mailVars,
       timeVars, Go, Release, WaitDeadline
  <1>20. ASSUME NEW s \in Signal, SignalRun(s) \/ NotifyRun(s)
       PROVE  OneOwner'
    BY <1>20, WorldAssumption DEF OneOwner, Inside, Orphans, LockFree,
       InFlight, Proc, TypeOK, PcOK, lockVars, nodeVars, noticeVars, mailVars,
       timeVars, Go, Release, SignalRun, NotifyRun, Deliver
  <1>21. CASE RunDeadline
    BY <1>21, WorldAssumption DEF OneOwner, Inside, Orphans, LockFree,
       InFlight, Proc, TypeOK, PcOK, lockVars, nodeVars, noticeVars, mailVars,
       timeVars, Go, Release, RunDeadline
  <1>22. ASSUME NEW n \in Node, NodeFails(n)
       PROVE  OneOwner'
    BY <1>22, FailedNode, WorldAssumption DEF OneOwner, Inside, Orphans, LockFree,
       InFlight, Proc, TypeOK, PcOK, lockVars, nodeVars, noticeVars, mailVars,
       timeVars, Go, Release
  <1> QED
    BY <1>1, <1>2, <1>3, <1>4, <1>5, <1>6, <1>7, <1>8, <1>9, <1>10, <1>11,
       <1>12, <1>13, <1>14, <1>15, <1>16, <1>17, <1>18, <1>19, <1>20, <1>21, <1>22
       DEF Next, BeatStep, CancelStep, Proc

\* Whoever gets the lock is inside until it gives it back.
LEMMA NextOwnerAtWork ==
  ASSUME TypeOK, OneOwner, OwnerAtWork, [Next]_vars
  PROVE  OwnerAtWork'
  <1>1. CASE UNCHANGED vars
    BY <1>1 DEF OneOwner, Inside, OwnerAtWork, Orphans, LockFree, Proc,
       TypeOK, PcOK, vars, lockVars, nodeVars, noticeVars, mailVars, timeVars
  <1>2. ASSUME NEW d \in Driver, BeatBegin(d)
       PROVE  OwnerAtWork'
    BY <1>2, WorldAssumption DEF OneOwner, Inside, OwnerAtWork, Orphans,
       LockFree, Proc, TypeOK, PcOK, lockVars, nodeVars, noticeVars,
       mailVars, timeVars, Go, Release, BeatBegin, BeatTerminal,
       BeatCancelled, BeatExpired, BeatRun
  <1>3. ASSUME NEW d \in Driver, Ingest(d)
       PROVE  OwnerAtWork'
    BY <1>3, WorldAssumption DEF OneOwner, Inside, OwnerAtWork, Orphans,
       LockFree, Proc, TypeOK, PcOK, lockVars, nodeVars, noticeVars,
       mailVars, timeVars, Go, Release, Ingest, IngestRecover, IngestClaim,
       IngestRecord, IngestAck, IngestDone, IngestReject, Unwind
  <1>4. ASSUME NEW d \in Driver, AdvanceWaits(d)
       PROVE  OwnerAtWork'
    BY <1>4, WorldAssumption DEF OneOwner, Inside, OwnerAtWork, Orphans,
       LockFree, Proc, TypeOK, PcOK, lockVars, nodeVars, noticeVars,
       mailVars, timeVars, Go, Release, AdvanceWaits
  <1>5. ASSUME NEW d \in Driver, Choose(d)
       PROVE  OwnerAtWork'
    BY <1>5, WorldAssumption DEF OneOwner, Inside, OwnerAtWork, Orphans,
       LockFree, Proc, TypeOK, PcOK, lockVars, nodeVars, noticeVars,
       mailVars, timeVars, Go, Release, Choose, ChooseTerminal,
       ChooseNothing, ChooseWave
  <1>6. ASSUME NEW d \in Driver, Finish(d)
       PROVE  OwnerAtWork'
    BY <1>6, WorldAssumption DEF OneOwner, Inside, OwnerAtWork, Orphans,
       LockFree, Proc, TypeOK, PcOK, lockVars, nodeVars, noticeVars,
       mailVars, timeVars, Go, Release, Finish, FinishCancelled,
       FinishInterrupted, FinishExpired, FinishTerminal, FinishWave,
       WaveOver, Unwind
  <1>7. ASSUME NEW p \in Proc, Notify(p)
       PROVE  OwnerAtWork'
    BY <1>7, WorldAssumption DEF OneOwner, Inside, OwnerAtWork, Orphans,
       LockFree, Proc, TypeOK, PcOK, lockVars, nodeVars, noticeVars,
       mailVars, timeVars, Go, Release, Notify, NotifySkip, NotifyPut,
       NotifyReceipt
  <1>8. ASSUME NEW d \in Driver, HostStop(d)
       PROVE  OwnerAtWork'
    BY <1>8, WorldAssumption DEF OneOwner, Inside, OwnerAtWork, Orphans,
       LockFree, Proc, TypeOK, PcOK, lockVars, nodeVars, noticeVars,
       mailVars, timeVars, Go, Release, HostStop
  <1>9. ASSUME NEW d \in Driver, BeatFails(d)
       PROVE  OwnerAtWork'
    BY <1>9, WorldAssumption DEF OneOwner, Inside, OwnerAtWork, Orphans,
       LockFree, Proc, TypeOK, PcOK, lockVars, nodeVars, noticeVars,
       mailVars, timeVars, Go, Release, BeatFails, WaveOver, Unwind
  <1>10. ASSUME NEW c \in Canceller, CancelCheck(c)
       PROVE  OwnerAtWork'
    BY <1>10, WorldAssumption DEF OneOwner, Inside, OwnerAtWork, Orphans,
       LockFree, Proc, TypeOK, PcOK, lockVars, nodeVars, noticeVars,
       mailVars, timeVars, Go, Release, CancelCheck
  <1>11. ASSUME NEW c \in Canceller, CancelMark(c)
       PROVE  OwnerAtWork'
    BY <1>11, WorldAssumption DEF OneOwner, Inside, OwnerAtWork, Orphans,
       LockFree, Proc, TypeOK, PcOK, lockVars, nodeVars, noticeVars,
       mailVars, timeVars, Go, Release, CancelMark
  <1>12. ASSUME NEW c \in Canceller, CancelTooLate(c)
       PROVE  OwnerAtWork'
    BY <1>12, WorldAssumption DEF OneOwner, Inside, OwnerAtWork, Orphans,
       LockFree, Proc, TypeOK, PcOK, lockVars, nodeVars, noticeVars,
       mailVars, timeVars, Go, Release, CancelTooLate
  <1>13. ASSUME NEW c \in Canceller, CancelLocked(c)
       PROVE  OwnerAtWork'
    BY <1>13, WorldAssumption DEF OneOwner, Inside, OwnerAtWork, Orphans,
       LockFree, Proc, TypeOK, PcOK, lockVars, nodeVars, noticeVars,
       mailVars, timeVars, Go, Release, CancelLocked
  <1>14. ASSUME NEW p \in Proc, NotifyFails(p)
       PROVE  OwnerAtWork'
    BY <1>14, WorldAssumption DEF OneOwner, Inside, OwnerAtWork, Orphans,
       LockFree, Proc, TypeOK, PcOK, lockVars, nodeVars, noticeVars,
       mailVars, timeVars, Go, Release, NotifyFails
  <1>15. ASSUME NEW p \in Proc, Crash(p)
       PROVE  OwnerAtWork'
    BY <1>15, WorldAssumption DEF OneOwner, Inside, OwnerAtWork, Orphans,
       LockFree, Proc, TypeOK, PcOK, lockVars, nodeVars, noticeVars,
       mailVars, timeVars, Go, Release, Crash
  <1>16. ASSUME NEW n \in Node, ExecuteNode(n)
       PROVE  OwnerAtWork'
    BY <1>16, WorldAssumption DEF OneOwner, Inside, OwnerAtWork, Orphans,
       LockFree, Proc, TypeOK, PcOK, lockVars, nodeVars, noticeVars,
       mailVars, timeVars, Go, Release, ExecuteNode, StartNode, WorkEnds, InTime,
       WorkCut, CheckEnds, CheckCut, Settle, Return
  <1>17. ASSUME NEW n \in Node, OrphanExits(n)
       PROVE  OwnerAtWork'
    BY <1>17, WorldAssumption DEF OneOwner, Inside, OwnerAtWork, Orphans,
       LockFree, Proc, TypeOK, PcOK, lockVars, nodeVars, noticeVars,
       mailVars, timeVars, Go, Release, OrphanExits
  <1>18. ASSUME NEW n \in Node, LooseExits(n)
       PROVE  OwnerAtWork'
    BY <1>18, WorldAssumption DEF OneOwner, Inside, OwnerAtWork, Orphans,
       LockFree, Proc, TypeOK, PcOK, lockVars, nodeVars, noticeVars,
       mailVars, timeVars, Go, Release, LooseExits
  <1>19. ASSUME NEW n \in Node, WaitDeadline(n)
       PROVE  OwnerAtWork'
    BY <1>19, WorldAssumption DEF OneOwner, Inside, OwnerAtWork, Orphans,
       LockFree, Proc, TypeOK, PcOK, lockVars, nodeVars, noticeVars,
       mailVars, timeVars, Go, Release, WaitDeadline
  <1>20. ASSUME NEW s \in Signal, SignalRun(s) \/ NotifyRun(s)
       PROVE  OwnerAtWork'
    BY <1>20, WorldAssumption DEF OneOwner, Inside, OwnerAtWork, Orphans,
       LockFree, Proc, TypeOK, PcOK, lockVars, nodeVars, noticeVars,
       mailVars, timeVars, Go, Release, SignalRun, NotifyRun, Deliver
  <1>21. CASE RunDeadline
    BY <1>21, WorldAssumption DEF OneOwner, Inside, OwnerAtWork, Orphans,
       LockFree, Proc, TypeOK, PcOK, lockVars, nodeVars, noticeVars,
       mailVars, timeVars, Go, Release, RunDeadline
  <1>22. ASSUME NEW n \in Node, NodeFails(n)
       PROVE  OwnerAtWork'
    BY <1>22, FailedNode, WorldAssumption DEF OneOwner, Inside, OwnerAtWork, Orphans,
       LockFree, Proc, TypeOK, PcOK, lockVars, nodeVars, noticeVars,
       mailVars, timeVars, Go, Release
  <1> QED
    BY <1>1, <1>2, <1>3, <1>4, <1>5, <1>6, <1>7, <1>8, <1>9, <1>10, <1>11,
       <1>12, <1>13, <1>14, <1>15, <1>16, <1>17, <1>18, <1>19, <1>20, <1>21, <1>22
       DEF Next, BeatStep, CancelStep, Proc, Choose

\* Only the process that holds the lock writes the status.
LEMMA NextStatusByPc ==
  ASSUME TypeOK, OneOwner, StatusByPc, [Next]_vars
  PROVE  StatusByPc'
  <1>1. CASE UNCHANGED vars
    BY <1>1 DEF OneOwner, Inside, LockFree, Proc, TypeOK, PcOK, StatusByPc,
       Body, Telling, Active, Terminal, vars, lockVars, nodeVars, noticeVars,
       mailVars, timeVars
  <1>2. ASSUME NEW d \in Driver, BeatBegin(d)
       PROVE  StatusByPc'
    BY <1>2, WorldAssumption DEF OneOwner, Inside, LockFree, Proc, TypeOK,
       PcOK, StatusByPc, Body, Telling, Active, Terminal, lockVars, nodeVars,
       noticeVars, mailVars, timeVars, Go, Release, BeatBegin, BeatTerminal,
       BeatCancelled, BeatExpired, BeatRun
  <1>3. ASSUME NEW d \in Driver, Ingest(d)
       PROVE  StatusByPc'
    BY <1>3, WorldAssumption DEF OneOwner, Inside, LockFree, Proc, TypeOK,
       PcOK, StatusByPc, Body, Telling, Active, Terminal, lockVars, nodeVars,
       noticeVars, mailVars, timeVars, Go, Release, Ingest, IngestRecover,
       IngestClaim, IngestRecord, IngestAck, IngestDone, IngestReject, Unwind
  <1>4. ASSUME NEW d \in Driver, AdvanceWaits(d)
       PROVE  StatusByPc'
    BY <1>4, WorldAssumption DEF OneOwner, Inside, LockFree, Proc, TypeOK,
       PcOK, StatusByPc, Body, Telling, Active, Terminal, lockVars, nodeVars,
       noticeVars, mailVars, timeVars, Go, Release, AdvanceWaits
  <1>5. ASSUME NEW d \in Driver, Choose(d)
       PROVE  StatusByPc'
    BY <1>5, WorldAssumption DEF OneOwner, Inside, LockFree, Proc, TypeOK,
       PcOK, StatusByPc, Body, Telling, Active, Terminal, lockVars, nodeVars,
       noticeVars, mailVars, timeVars, Go, Release, Choose, ChooseTerminal,
       ChooseNothing, ChooseWave, TerminalStatuses
  <1>6. ASSUME NEW d \in Driver, Finish(d)
       PROVE  StatusByPc'
    BY <1>6, WorldAssumption DEF OneOwner, Inside, LockFree, Proc, TypeOK,
       PcOK, StatusByPc, Body, Telling, Active, Terminal, lockVars, nodeVars,
       noticeVars, mailVars, timeVars, Go, Release, Finish, FinishCancelled,
       FinishInterrupted, FinishExpired, FinishTerminal, FinishWave, WaveOver,
       Unwind, TerminalStatuses, RestingStatus
  <1>7. ASSUME NEW p \in Proc, Notify(p)
       PROVE  StatusByPc'
    BY <1>7, WorldAssumption DEF OneOwner, Inside, LockFree, Proc, TypeOK,
       PcOK, StatusByPc, Body, Telling, Active, Terminal, lockVars, nodeVars,
       noticeVars, mailVars, timeVars, Go, Release, Notify, NotifySkip,
       NotifyPut, NotifyReceipt
  <1>8. ASSUME NEW d \in Driver, HostStop(d)
       PROVE  StatusByPc'
    BY <1>8, WorldAssumption DEF OneOwner, Inside, LockFree, Proc, TypeOK,
       PcOK, StatusByPc, Body, Telling, Active, Terminal, lockVars, nodeVars,
       noticeVars, mailVars, timeVars, Go, Release, HostStop
  <1>9. ASSUME NEW d \in Driver, BeatFails(d)
       PROVE  StatusByPc'
    BY <1>9, WorldAssumption DEF OneOwner, Inside, LockFree, Proc, TypeOK,
       PcOK, StatusByPc, Body, Telling, Active, Terminal, lockVars, nodeVars,
       noticeVars, mailVars, timeVars, Go, Release, BeatFails, WaveOver, Unwind
  <1>10. ASSUME NEW c \in Canceller, CancelCheck(c)
       PROVE  StatusByPc'
    BY <1>10, WorldAssumption DEF OneOwner, Inside, LockFree, Proc, TypeOK,
       PcOK, StatusByPc, Body, Telling, Active, Terminal, lockVars, nodeVars,
       noticeVars, mailVars, timeVars, Go, Release, CancelCheck
  <1>11. ASSUME NEW c \in Canceller, CancelMark(c)
       PROVE  StatusByPc'
    BY <1>11, WorldAssumption DEF OneOwner, Inside, LockFree, Proc, TypeOK,
       PcOK, StatusByPc, Body, Telling, Active, Terminal, lockVars, nodeVars,
       noticeVars, mailVars, timeVars, Go, Release, CancelMark
  <1>12. ASSUME NEW c \in Canceller, CancelTooLate(c)
       PROVE  StatusByPc'
    BY <1>12, WorldAssumption DEF OneOwner, Inside, LockFree, Proc, TypeOK,
       PcOK, StatusByPc, Body, Telling, Active, Terminal, lockVars, nodeVars,
       noticeVars, mailVars, timeVars, Go, Release, CancelTooLate
  <1>13. ASSUME NEW c \in Canceller, CancelLocked(c)
       PROVE  StatusByPc'
    BY <1>13, WorldAssumption DEF OneOwner, Inside, LockFree, Proc, TypeOK,
       PcOK, StatusByPc, Body, Telling, Active, Terminal, lockVars, nodeVars,
       noticeVars, mailVars, timeVars, Go, Release, CancelLocked
  <1>14. ASSUME NEW p \in Proc, NotifyFails(p)
       PROVE  StatusByPc'
    BY <1>14, WorldAssumption DEF OneOwner, Inside, LockFree, Proc, TypeOK,
       PcOK, StatusByPc, Body, Telling, Active, Terminal, lockVars, nodeVars,
       noticeVars, mailVars, timeVars, Go, Release, NotifyFails
  <1>15. ASSUME NEW p \in Proc, Crash(p)
       PROVE  StatusByPc'
    BY <1>15, WorldAssumption DEF OneOwner, Inside, LockFree, Proc, TypeOK,
       PcOK, StatusByPc, Body, Telling, Active, Terminal, lockVars, nodeVars,
       noticeVars, mailVars, timeVars, Go, Release, Crash
  <1>16. ASSUME NEW n \in Node, ExecuteNode(n)
       PROVE  StatusByPc'
    BY <1>16, WorldAssumption DEF OneOwner, Inside, LockFree, Proc, TypeOK,
       PcOK, StatusByPc, Body, Telling, Active, Terminal, lockVars, nodeVars,
       noticeVars, mailVars, timeVars, Go, Release, ExecuteNode, StartNode,
       WorkEnds, InTime, WorkCut, CheckEnds, CheckCut, Settle, Return
  <1>17. ASSUME NEW n \in Node, OrphanExits(n)
       PROVE  StatusByPc'
    BY <1>17, WorldAssumption DEF OneOwner, Inside, LockFree, Proc, TypeOK,
       PcOK, StatusByPc, Body, Telling, Active, Terminal, lockVars, nodeVars,
       noticeVars, mailVars, timeVars, Go, Release, OrphanExits
  <1>18. ASSUME NEW n \in Node, LooseExits(n)
       PROVE  StatusByPc'
    BY <1>18, WorldAssumption DEF OneOwner, Inside, LockFree, Proc, TypeOK,
       PcOK, StatusByPc, Body, Telling, Active, Terminal, lockVars, nodeVars,
       noticeVars, mailVars, timeVars, Go, Release, LooseExits
  <1>19. ASSUME NEW n \in Node, WaitDeadline(n)
       PROVE  StatusByPc'
    BY <1>19, WorldAssumption DEF OneOwner, Inside, LockFree, Proc, TypeOK,
       PcOK, StatusByPc, Body, Telling, Active, Terminal, lockVars, nodeVars,
       noticeVars, mailVars, timeVars, Go, Release, WaitDeadline
  <1>20. ASSUME NEW s \in Signal, SignalRun(s) \/ NotifyRun(s)
       PROVE  StatusByPc'
    BY <1>20, WorldAssumption DEF OneOwner, Inside, LockFree, Proc, TypeOK,
       PcOK, StatusByPc, Body, Telling, Active, Terminal, lockVars, nodeVars,
       noticeVars, mailVars, timeVars, Go, Release, SignalRun, NotifyRun,
       Deliver
  <1>21. CASE RunDeadline
    BY <1>21, WorldAssumption DEF OneOwner, Inside, LockFree, Proc, TypeOK,
       PcOK, StatusByPc, Body, Telling, Active, Terminal, lockVars, nodeVars,
       noticeVars, mailVars, timeVars, Go, Release, RunDeadline
  <1>22. ASSUME NEW n \in Node, NodeFails(n)
       PROVE  StatusByPc'
    BY <1>22, FailedNode, WorldAssumption DEF OneOwner, Inside, LockFree, Proc, TypeOK,
       PcOK, StatusByPc, Body, Telling, Active, Terminal, lockVars, nodeVars,
       noticeVars, mailVars, timeVars, Go, Release
  <1> QED
    BY <1>1, <1>2, <1>3, <1>4, <1>5, <1>6, <1>7, <1>8, <1>9, <1>10, <1>11,
       <1>12, <1>13, <1>14, <1>15, <1>16, <1>17, <1>18, <1>19, <1>20, <1>21, <1>22
       DEF Next, BeatStep, CancelStep, Proc

\* Only the owner moves the mailbox and the ledger.
LEMMA NextClaimByPc ==
  ASSUME TypeOK, OneOwner, ClaimByPc, [Next]_vars
  PROVE  ClaimByPc'
  <1>1. CASE UNCHANGED vars
    BY <1>1 DEF OneOwner, Inside, LockFree, Proc, TypeOK, PcOK, ClaimByPc,
       vars, lockVars, nodeVars, noticeVars, mailVars, timeVars
  <1>2. ASSUME NEW d \in Driver, BeatBegin(d)
       PROVE  ClaimByPc'
    BY <1>2, WorldAssumption DEF OneOwner, Inside, LockFree, Proc, TypeOK,
       PcOK, ClaimByPc, lockVars, nodeVars, noticeVars, mailVars, timeVars, Go,
       Release, BeatBegin, BeatTerminal, BeatCancelled, BeatExpired, BeatRun
  <1>3. ASSUME NEW d \in Driver, Ingest(d)
       PROVE  ClaimByPc'
    BY <1>3, WorldAssumption DEF OneOwner, Inside, LockFree, Proc, TypeOK,
       PcOK, ClaimByPc, lockVars, nodeVars, noticeVars, mailVars, timeVars, Go,
       Release, Ingest, IngestRecover, IngestClaim, IngestRecord, IngestAck,
       IngestDone, IngestReject, Unwind, OldestId
  <1>4. ASSUME NEW d \in Driver, AdvanceWaits(d)
       PROVE  ClaimByPc'
    BY <1>4, WorldAssumption DEF OneOwner, Inside, LockFree, Proc, TypeOK,
       PcOK, ClaimByPc, lockVars, nodeVars, noticeVars, mailVars, timeVars, Go,
       Release, AdvanceWaits
  <1>5. ASSUME NEW d \in Driver, Choose(d)
       PROVE  ClaimByPc'
    BY <1>5, WorldAssumption DEF OneOwner, Inside, LockFree, Proc, TypeOK,
       PcOK, ClaimByPc, lockVars, nodeVars, noticeVars, mailVars, timeVars, Go,
       Release, Choose, ChooseTerminal, ChooseNothing, ChooseWave
  <1>6. ASSUME NEW d \in Driver, Finish(d)
       PROVE  ClaimByPc'
    BY <1>6, WorldAssumption DEF OneOwner, Inside, LockFree, Proc, TypeOK,
       PcOK, ClaimByPc, lockVars, nodeVars, noticeVars, mailVars, timeVars, Go,
       Release, Finish, FinishCancelled, FinishInterrupted, FinishExpired,
       FinishTerminal, FinishWave, WaveOver, Unwind
  <1>7. ASSUME NEW p \in Proc, Notify(p)
       PROVE  ClaimByPc'
    BY <1>7, WorldAssumption DEF OneOwner, Inside, LockFree, Proc, TypeOK,
       PcOK, ClaimByPc, lockVars, nodeVars, noticeVars, mailVars, timeVars, Go,
       Release, Notify, NotifySkip, NotifyPut, NotifyReceipt
  <1>8. ASSUME NEW d \in Driver, HostStop(d)
       PROVE  ClaimByPc'
    BY <1>8, WorldAssumption DEF OneOwner, Inside, LockFree, Proc, TypeOK,
       PcOK, ClaimByPc, lockVars, nodeVars, noticeVars, mailVars, timeVars, Go,
       Release, HostStop
  <1>9. ASSUME NEW d \in Driver, BeatFails(d)
       PROVE  ClaimByPc'
    BY <1>9, WorldAssumption DEF OneOwner, Inside, LockFree, Proc, TypeOK,
       PcOK, ClaimByPc, lockVars, nodeVars, noticeVars, mailVars, timeVars, Go,
       Release, BeatFails, WaveOver, Unwind
  <1>10. ASSUME NEW c \in Canceller, CancelCheck(c)
       PROVE  ClaimByPc'
    BY <1>10, WorldAssumption DEF OneOwner, Inside, LockFree, Proc, TypeOK,
       PcOK, ClaimByPc, lockVars, nodeVars, noticeVars, mailVars, timeVars, Go,
       Release, CancelCheck
  <1>11. ASSUME NEW c \in Canceller, CancelMark(c)
       PROVE  ClaimByPc'
    BY <1>11, WorldAssumption DEF OneOwner, Inside, LockFree, Proc, TypeOK,
       PcOK, ClaimByPc, lockVars, nodeVars, noticeVars, mailVars, timeVars, Go,
       Release, CancelMark
  <1>12. ASSUME NEW c \in Canceller, CancelTooLate(c)
       PROVE  ClaimByPc'
    BY <1>12, WorldAssumption DEF OneOwner, Inside, LockFree, Proc, TypeOK,
       PcOK, ClaimByPc, lockVars, nodeVars, noticeVars, mailVars, timeVars, Go,
       Release, CancelTooLate
  <1>13. ASSUME NEW c \in Canceller, CancelLocked(c)
       PROVE  ClaimByPc'
    BY <1>13, WorldAssumption DEF OneOwner, Inside, LockFree, Proc, TypeOK,
       PcOK, ClaimByPc, lockVars, nodeVars, noticeVars, mailVars, timeVars, Go,
       Release, CancelLocked
  <1>14. ASSUME NEW p \in Proc, NotifyFails(p)
       PROVE  ClaimByPc'
    BY <1>14, WorldAssumption DEF OneOwner, Inside, LockFree, Proc, TypeOK,
       PcOK, ClaimByPc, lockVars, nodeVars, noticeVars, mailVars, timeVars, Go,
       Release, NotifyFails
  <1>15. ASSUME NEW p \in Proc, Crash(p)
       PROVE  ClaimByPc'
    BY <1>15, WorldAssumption DEF OneOwner, Inside, LockFree, Proc, TypeOK,
       PcOK, ClaimByPc, lockVars, nodeVars, noticeVars, mailVars, timeVars, Go,
       Release, Crash
  <1>16. ASSUME NEW n \in Node, ExecuteNode(n)
       PROVE  ClaimByPc'
    BY <1>16, WorldAssumption DEF OneOwner, Inside, LockFree, Proc, TypeOK,
       PcOK, ClaimByPc, lockVars, nodeVars, noticeVars, mailVars, timeVars, Go,
       Release, ExecuteNode, StartNode, WorkEnds, InTime, WorkCut, CheckEnds, CheckCut,
       Settle, Return
  <1>17. ASSUME NEW n \in Node, OrphanExits(n)
       PROVE  ClaimByPc'
    BY <1>17, WorldAssumption DEF OneOwner, Inside, LockFree, Proc, TypeOK,
       PcOK, ClaimByPc, lockVars, nodeVars, noticeVars, mailVars, timeVars, Go,
       Release, OrphanExits
  <1>18. ASSUME NEW n \in Node, LooseExits(n)
       PROVE  ClaimByPc'
    BY <1>18, WorldAssumption DEF OneOwner, Inside, LockFree, Proc, TypeOK,
       PcOK, ClaimByPc, lockVars, nodeVars, noticeVars, mailVars, timeVars, Go,
       Release, LooseExits
  <1>19. ASSUME NEW n \in Node, WaitDeadline(n)
       PROVE  ClaimByPc'
    BY <1>19, WorldAssumption DEF OneOwner, Inside, LockFree, Proc, TypeOK,
       PcOK, ClaimByPc, lockVars, nodeVars, noticeVars, mailVars, timeVars, Go,
       Release, WaitDeadline
  <1>20. ASSUME NEW s \in Signal, SignalRun(s) \/ NotifyRun(s)
       PROVE  ClaimByPc'
    BY <1>20, WorldAssumption DEF OneOwner, Inside, LockFree, Proc, TypeOK,
       PcOK, ClaimByPc, lockVars, nodeVars, noticeVars, mailVars, timeVars, Go,
       Release, SignalRun, NotifyRun, Deliver
  <1>21. CASE RunDeadline
    BY <1>21, WorldAssumption DEF OneOwner, Inside, LockFree, Proc, TypeOK,
       PcOK, ClaimByPc, lockVars, nodeVars, noticeVars, mailVars, timeVars, Go,
       Release, RunDeadline
  <1>22. ASSUME NEW n \in Node, NodeFails(n)
       PROVE  ClaimByPc'
    BY <1>22, FailedNode, WorldAssumption DEF OneOwner, Inside, LockFree, Proc, TypeOK,
       PcOK, ClaimByPc, lockVars, nodeVars, noticeVars, mailVars, timeVars, Go,
       Release
  <1> QED
    BY <1>1, <1>2, <1>3, <1>4, <1>5, <1>6, <1>7, <1>8, <1>9, <1>10, <1>11,
       <1>12, <1>13, <1>14, <1>15, <1>16, <1>17, <1>18, <1>19, <1>20, <1>21, <1>22
       DEF Next, BeatStep, CancelStep, Proc

\* A claim is recorded before it is acknowledged.
LEMMA NextNoSignalLost ==
  ASSUME TypeOK, ClaimByPc, NoSignalLost, [Next]_vars
  PROVE  NoSignalLost'
  <1>1. CASE UNCHANGED vars
    BY <1>1 DEF TypeOK, NoSignalLost, ClaimByPc, vars, lockVars, nodeVars,
       noticeVars, mailVars, timeVars
  <1>2. ASSUME NEW d \in Driver, BeatBegin(d)
       PROVE  NoSignalLost'
    BY <1>2, WorldAssumption DEF TypeOK, NoSignalLost, ClaimByPc, lockVars,
       nodeVars, noticeVars, mailVars, timeVars, Go, Release, BeatBegin,
       BeatTerminal, BeatCancelled, BeatExpired, BeatRun
  <1>3. ASSUME NEW d \in Driver, Ingest(d)
       PROVE  NoSignalLost'
    BY <1>3, WorldAssumption DEF TypeOK, NoSignalLost, ClaimByPc, lockVars,
       nodeVars, noticeVars, mailVars, timeVars, Go, Release, Ingest,
       IngestRecover, IngestClaim, IngestRecord, IngestAck, IngestDone,
       IngestReject, Unwind, OldestId
  <1>4. ASSUME NEW d \in Driver, AdvanceWaits(d)
       PROVE  NoSignalLost'
    BY <1>4, WorldAssumption DEF TypeOK, NoSignalLost, ClaimByPc, lockVars,
       nodeVars, noticeVars, mailVars, timeVars, Go, Release, AdvanceWaits
  <1>5. ASSUME NEW d \in Driver, Choose(d)
       PROVE  NoSignalLost'
    BY <1>5, WorldAssumption DEF TypeOK, NoSignalLost, ClaimByPc, lockVars,
       nodeVars, noticeVars, mailVars, timeVars, Go, Release, Choose,
       ChooseTerminal, ChooseNothing, ChooseWave
  <1>6. ASSUME NEW d \in Driver, Finish(d)
       PROVE  NoSignalLost'
    BY <1>6, WorldAssumption DEF TypeOK, NoSignalLost, ClaimByPc, lockVars,
       nodeVars, noticeVars, mailVars, timeVars, Go, Release, Finish,
       FinishCancelled, FinishInterrupted, FinishExpired, FinishTerminal,
       FinishWave, WaveOver, Unwind
  <1>7. ASSUME NEW p \in Proc, Notify(p)
       PROVE  NoSignalLost'
    BY <1>7, WorldAssumption DEF TypeOK, NoSignalLost, ClaimByPc, lockVars,
       nodeVars, noticeVars, mailVars, timeVars, Go, Release, Notify,
       NotifySkip, NotifyPut, NotifyReceipt
  <1>8. ASSUME NEW d \in Driver, HostStop(d)
       PROVE  NoSignalLost'
    BY <1>8, WorldAssumption DEF TypeOK, NoSignalLost, ClaimByPc, lockVars,
       nodeVars, noticeVars, mailVars, timeVars, Go, Release, HostStop
  <1>9. ASSUME NEW d \in Driver, BeatFails(d)
       PROVE  NoSignalLost'
    BY <1>9, WorldAssumption DEF TypeOK, NoSignalLost, ClaimByPc, lockVars,
       nodeVars, noticeVars, mailVars, timeVars, Go, Release, BeatFails, WaveOver, Unwind
  <1>10. ASSUME NEW c \in Canceller, CancelCheck(c)
       PROVE  NoSignalLost'
    BY <1>10, WorldAssumption DEF TypeOK, NoSignalLost, ClaimByPc, lockVars,
       nodeVars, noticeVars, mailVars, timeVars, Go, Release, CancelCheck
  <1>11. ASSUME NEW c \in Canceller, CancelMark(c)
       PROVE  NoSignalLost'
    BY <1>11, WorldAssumption DEF TypeOK, NoSignalLost, ClaimByPc, lockVars,
       nodeVars, noticeVars, mailVars, timeVars, Go, Release, CancelMark
  <1>12. ASSUME NEW c \in Canceller, CancelTooLate(c)
       PROVE  NoSignalLost'
    BY <1>12, WorldAssumption DEF TypeOK, NoSignalLost, ClaimByPc, lockVars,
       nodeVars, noticeVars, mailVars, timeVars, Go, Release, CancelTooLate
  <1>13. ASSUME NEW c \in Canceller, CancelLocked(c)
       PROVE  NoSignalLost'
    BY <1>13, WorldAssumption DEF TypeOK, NoSignalLost, ClaimByPc, lockVars,
       nodeVars, noticeVars, mailVars, timeVars, Go, Release, CancelLocked
  <1>14. ASSUME NEW p \in Proc, NotifyFails(p)
       PROVE  NoSignalLost'
    BY <1>14, WorldAssumption DEF TypeOK, NoSignalLost, ClaimByPc, lockVars,
       nodeVars, noticeVars, mailVars, timeVars, Go, Release, NotifyFails
  <1>15. ASSUME NEW p \in Proc, Crash(p)
       PROVE  NoSignalLost'
    BY <1>15, WorldAssumption DEF TypeOK, NoSignalLost, ClaimByPc, lockVars,
       nodeVars, noticeVars, mailVars, timeVars, Go, Release, Crash
  <1>16. ASSUME NEW n \in Node, ExecuteNode(n)
       PROVE  NoSignalLost'
    BY <1>16, WorldAssumption DEF TypeOK, NoSignalLost, ClaimByPc, lockVars,
       nodeVars, noticeVars, mailVars, timeVars, Go, Release, ExecuteNode,
       StartNode, WorkEnds, InTime, WorkCut, CheckEnds, CheckCut, Settle, Return
  <1>17. ASSUME NEW n \in Node, OrphanExits(n)
       PROVE  NoSignalLost'
    BY <1>17, WorldAssumption DEF TypeOK, NoSignalLost, ClaimByPc, lockVars,
       nodeVars, noticeVars, mailVars, timeVars, Go, Release, OrphanExits
  <1>18. ASSUME NEW n \in Node, LooseExits(n)
       PROVE  NoSignalLost'
    BY <1>18, WorldAssumption DEF TypeOK, NoSignalLost, ClaimByPc, lockVars,
       nodeVars, noticeVars, mailVars, timeVars, Go, Release, LooseExits
  <1>19. ASSUME NEW n \in Node, WaitDeadline(n)
       PROVE  NoSignalLost'
    BY <1>19, WorldAssumption DEF TypeOK, NoSignalLost, ClaimByPc, lockVars,
       nodeVars, noticeVars, mailVars, timeVars, Go, Release, WaitDeadline
  <1>20. ASSUME NEW s \in Signal, SignalRun(s) \/ NotifyRun(s)
       PROVE  NoSignalLost'
    BY <1>20, WorldAssumption DEF TypeOK, NoSignalLost, ClaimByPc, lockVars,
       nodeVars, noticeVars, mailVars, timeVars, Go, Release, SignalRun,
       NotifyRun, Deliver
  <1>21. CASE RunDeadline
    BY <1>21, WorldAssumption DEF TypeOK, NoSignalLost, ClaimByPc, lockVars,
       nodeVars, noticeVars, mailVars, timeVars, Go, Release, RunDeadline
  <1>22. ASSUME NEW n \in Node, NodeFails(n)
       PROVE  NoSignalLost'
    BY <1>22, FailedNode, WorldAssumption DEF TypeOK, NoSignalLost, ClaimByPc, lockVars,
       nodeVars, noticeVars, mailVars, timeVars, Go, Release
  <1> QED
    BY <1>1, <1>2, <1>3, <1>4, <1>5, <1>6, <1>7, <1>8, <1>9, <1>10, <1>11,
       <1>12, <1>13, <1>14, <1>15, <1>16, <1>17, <1>18, <1>19, <1>20, <1>21, <1>22
       DEF Next, BeatStep, CancelStep, Proc

\* The marker is withdrawn only from a run that ended otherwise.
LEMMA NextMarkByPc ==
  ASSUME TypeOK, OneOwner, StatusByPc, MarkByPc, [Next]_vars
  PROVE  MarkByPc'
  <1>1. CASE UNCHANGED vars
    BY <1>1 DEF OneOwner, Inside, LockFree, Proc, TypeOK, PcOK, StatusByPc,
       Body, Telling, Active, Terminal, MarkByPc, vars, lockVars, nodeVars,
       noticeVars, mailVars, timeVars
  <1>2. ASSUME NEW d \in Driver, BeatBegin(d)
       PROVE  MarkByPc'
    BY <1>2, WorldAssumption DEF OneOwner, Inside, LockFree, Proc, TypeOK,
       PcOK, StatusByPc, Body, Telling, Active, Terminal, MarkByPc, lockVars,
       nodeVars, noticeVars, mailVars, timeVars, Go, Release, BeatBegin,
       BeatTerminal, BeatCancelled, BeatExpired, BeatRun
  <1>3. ASSUME NEW d \in Driver, Ingest(d)
       PROVE  MarkByPc'
    BY <1>3, WorldAssumption DEF OneOwner, Inside, LockFree, Proc, TypeOK,
       PcOK, StatusByPc, Body, Telling, Active, Terminal, MarkByPc, lockVars,
       nodeVars, noticeVars, mailVars, timeVars, Go, Release, Ingest,
       IngestRecover, IngestClaim, IngestRecord, IngestAck, IngestDone,
       IngestReject, Unwind
  <1>4. ASSUME NEW d \in Driver, AdvanceWaits(d)
       PROVE  MarkByPc'
    BY <1>4, WorldAssumption DEF OneOwner, Inside, LockFree, Proc, TypeOK,
       PcOK, StatusByPc, Body, Telling, Active, Terminal, MarkByPc, lockVars,
       nodeVars, noticeVars, mailVars, timeVars, Go, Release, AdvanceWaits
  <1>5. ASSUME NEW d \in Driver, Choose(d)
       PROVE  MarkByPc'
    BY <1>5, WorldAssumption DEF OneOwner, Inside, LockFree, Proc, TypeOK,
       PcOK, StatusByPc, Body, Telling, Active, Terminal, MarkByPc, lockVars,
       nodeVars, noticeVars, mailVars, timeVars, Go, Release, Choose,
       ChooseTerminal, ChooseNothing, ChooseWave, TerminalStatuses
  <1>6. ASSUME NEW d \in Driver, Finish(d)
       PROVE  MarkByPc'
    BY <1>6, WorldAssumption DEF OneOwner, Inside, LockFree, Proc, TypeOK,
       PcOK, StatusByPc, Body, Telling, Active, Terminal, MarkByPc, lockVars,
       nodeVars, noticeVars, mailVars, timeVars, Go, Release, Finish,
       FinishCancelled, FinishInterrupted, FinishExpired, FinishTerminal,
       FinishWave, WaveOver, Unwind, TerminalStatuses, RestingStatus
  <1>7. ASSUME NEW p \in Proc, Notify(p)
       PROVE  MarkByPc'
    BY <1>7, WorldAssumption DEF OneOwner, Inside, LockFree, Proc, TypeOK,
       PcOK, StatusByPc, Body, Telling, Active, Terminal, MarkByPc, lockVars,
       nodeVars, noticeVars, mailVars, timeVars, Go, Release, Notify,
       NotifySkip, NotifyPut, NotifyReceipt
  <1>8. ASSUME NEW d \in Driver, HostStop(d)
       PROVE  MarkByPc'
    BY <1>8, WorldAssumption DEF OneOwner, Inside, LockFree, Proc, TypeOK,
       PcOK, StatusByPc, Body, Telling, Active, Terminal, MarkByPc, lockVars,
       nodeVars, noticeVars, mailVars, timeVars, Go, Release, HostStop
  <1>9. ASSUME NEW d \in Driver, BeatFails(d)
       PROVE  MarkByPc'
    BY <1>9, WorldAssumption DEF OneOwner, Inside, LockFree, Proc, TypeOK,
       PcOK, StatusByPc, Body, Telling, Active, Terminal, MarkByPc, lockVars,
       nodeVars, noticeVars, mailVars, timeVars, Go, Release, BeatFails, WaveOver, Unwind
  <1>10. ASSUME NEW c \in Canceller, CancelCheck(c)
       PROVE  MarkByPc'
    BY <1>10, WorldAssumption DEF OneOwner, Inside, LockFree, Proc, TypeOK,
       PcOK, StatusByPc, Body, Telling, Active, Terminal, MarkByPc, lockVars,
       nodeVars, noticeVars, mailVars, timeVars, Go, Release, CancelCheck
  <1>11. ASSUME NEW c \in Canceller, CancelMark(c)
       PROVE  MarkByPc'
    BY <1>11, WorldAssumption DEF OneOwner, Inside, LockFree, Proc, TypeOK,
       PcOK, StatusByPc, Body, Telling, Active, Terminal, MarkByPc, lockVars,
       nodeVars, noticeVars, mailVars, timeVars, Go, Release, CancelMark
  <1>12. ASSUME NEW c \in Canceller, CancelTooLate(c)
       PROVE  MarkByPc'
    BY <1>12, WorldAssumption DEF OneOwner, Inside, LockFree, Proc, TypeOK,
       PcOK, StatusByPc, Body, Telling, Active, Terminal, MarkByPc, lockVars,
       nodeVars, noticeVars, mailVars, timeVars, Go, Release, CancelTooLate
  <1>13. ASSUME NEW c \in Canceller, CancelLocked(c)
       PROVE  MarkByPc'
    BY <1>13, WorldAssumption DEF OneOwner, Inside, LockFree, Proc, TypeOK,
       PcOK, StatusByPc, Body, Telling, Active, Terminal, MarkByPc, lockVars,
       nodeVars, noticeVars, mailVars, timeVars, Go, Release, CancelLocked
  <1>14. ASSUME NEW p \in Proc, NotifyFails(p)
       PROVE  MarkByPc'
    BY <1>14, WorldAssumption DEF OneOwner, Inside, LockFree, Proc, TypeOK,
       PcOK, StatusByPc, Body, Telling, Active, Terminal, MarkByPc, lockVars,
       nodeVars, noticeVars, mailVars, timeVars, Go, Release, NotifyFails
  <1>15. ASSUME NEW p \in Proc, Crash(p)
       PROVE  MarkByPc'
    BY <1>15, WorldAssumption DEF OneOwner, Inside, LockFree, Proc, TypeOK,
       PcOK, StatusByPc, Body, Telling, Active, Terminal, MarkByPc, lockVars,
       nodeVars, noticeVars, mailVars, timeVars, Go, Release, Crash
  <1>16. ASSUME NEW n \in Node, ExecuteNode(n)
       PROVE  MarkByPc'
    BY <1>16, WorldAssumption DEF OneOwner, Inside, LockFree, Proc, TypeOK,
       PcOK, StatusByPc, Body, Telling, Active, Terminal, MarkByPc, lockVars,
       nodeVars, noticeVars, mailVars, timeVars, Go, Release, ExecuteNode,
       StartNode, WorkEnds, InTime, WorkCut, CheckEnds, CheckCut, Settle, Return
  <1>17. ASSUME NEW n \in Node, OrphanExits(n)
       PROVE  MarkByPc'
    BY <1>17, WorldAssumption DEF OneOwner, Inside, LockFree, Proc, TypeOK,
       PcOK, StatusByPc, Body, Telling, Active, Terminal, MarkByPc, lockVars,
       nodeVars, noticeVars, mailVars, timeVars, Go, Release, OrphanExits
  <1>18. ASSUME NEW n \in Node, LooseExits(n)
       PROVE  MarkByPc'
    BY <1>18, WorldAssumption DEF OneOwner, Inside, LockFree, Proc, TypeOK,
       PcOK, StatusByPc, Body, Telling, Active, Terminal, MarkByPc, lockVars,
       nodeVars, noticeVars, mailVars, timeVars, Go, Release, LooseExits
  <1>19. ASSUME NEW n \in Node, WaitDeadline(n)
       PROVE  MarkByPc'
    BY <1>19, WorldAssumption DEF OneOwner, Inside, LockFree, Proc, TypeOK,
       PcOK, StatusByPc, Body, Telling, Active, Terminal, MarkByPc, lockVars,
       nodeVars, noticeVars, mailVars, timeVars, Go, Release, WaitDeadline
  <1>20. ASSUME NEW s \in Signal, SignalRun(s) \/ NotifyRun(s)
       PROVE  MarkByPc'
    BY <1>20, WorldAssumption DEF OneOwner, Inside, LockFree, Proc, TypeOK,
       PcOK, StatusByPc, Body, Telling, Active, Terminal, MarkByPc, lockVars,
       nodeVars, noticeVars, mailVars, timeVars, Go, Release, SignalRun,
       NotifyRun, Deliver
  <1>21. CASE RunDeadline
    BY <1>21, WorldAssumption DEF OneOwner, Inside, LockFree, Proc, TypeOK,
       PcOK, StatusByPc, Body, Telling, Active, Terminal, MarkByPc, lockVars,
       nodeVars, noticeVars, mailVars, timeVars, Go, Release, RunDeadline
  <1>22. ASSUME NEW n \in Node, NodeFails(n)
       PROVE  MarkByPc'
    BY <1>22, FailedNode, WorldAssumption DEF OneOwner, Inside, LockFree, Proc, TypeOK,
       PcOK, StatusByPc, Body, Telling, Active, Terminal, MarkByPc, lockVars,
       nodeVars, noticeVars, mailVars, timeVars, Go, Release
  <1> QED
    BY <1>1, <1>2, <1>3, <1>4, <1>5, <1>6, <1>7, <1>8, <1>9, <1>10, <1>11,
       <1>12, <1>13, <1>14, <1>15, <1>16, <1>17, <1>18, <1>19, <1>20, <1>21, <1>22
       DEF Next, BeatStep, CancelStep, Proc

\* The outcome is decided from node statuses that no later step changes.
LEMMA NextOutcomeJustified ==
  ASSUME TypeOK, OneOwner, StatusByPc, MarkByPc, NodeByPhase, MemoryByPc,
         OutcomeJustified, [Next]_vars
  PROVE  OutcomeJustified'
  <1>1. CASE UNCHANGED vars
    BY <1>1 DEF OneOwner, Inside, LockFree, Proc, TypeOK, PcOK, InFlight,
       StatusByPc, Body, Telling, Active, Terminal, MarkByPc, NodeByPhase,
       OutcomeJustified, vars, lockVars, nodeVars, noticeVars, mailVars,
       timeVars
  <1>2. ASSUME NEW d \in Driver, BeatBegin(d)
       PROVE  OutcomeJustified'
    BY <1>2, WorldAssumption DEF OneOwner, Inside, LockFree, Proc, TypeOK,
       PcOK, InFlight, StatusByPc, Body, Telling, Active, Terminal, MarkByPc,
       NodeByPhase, OutcomeJustified, lockVars, nodeVars, noticeVars, mailVars,
       timeVars, Go, Release, BeatBegin, BeatTerminal, BeatCancelled,
       BeatExpired, BeatRun
  <1>3. ASSUME NEW d \in Driver, Ingest(d)
       PROVE  OutcomeJustified'
    BY <1>3, WorldAssumption DEF OneOwner, Inside, LockFree, Proc, TypeOK,
       PcOK, InFlight, StatusByPc, Body, Telling, Active, Terminal, MarkByPc,
       NodeByPhase, OutcomeJustified, lockVars, nodeVars, noticeVars, mailVars,
       timeVars, Go, Release, Ingest, IngestRecover, IngestClaim, IngestRecord,
       IngestAck, IngestDone, IngestReject, Unwind
  <1>4. ASSUME NEW d \in Driver, AdvanceWaits(d)
       PROVE  OutcomeJustified'
    BY <1>4, WorldAssumption DEF OneOwner, Inside, LockFree, Proc, TypeOK,
       PcOK, InFlight, StatusByPc, Body, Telling, Active, Terminal, MarkByPc,
       NodeByPhase, OutcomeJustified, lockVars, nodeVars, noticeVars, mailVars,
       timeVars, Go, Release, AdvanceWaits
  <1>5. ASSUME NEW d \in Driver, Choose(d)
       PROVE  OutcomeJustified'
    <2>1. CASE ChooseTerminal(d)
      <3>1. status' = "completed" => \A n \in Node : states[n] = "passed"
        BY <2>1 DEF ChooseTerminal, TerminalStatuses
      <3>2. node' = node /\ status' \in {"completed", "failed"}
        BY <2>1 DEF ChooseTerminal, TerminalStatuses, nodeVars
      <3> QED
        BY <2>1, <3>1, <3>2, FilesRead DEF ChooseTerminal, OutcomeJustified
    <2>2. CASE ChooseNothing(d)
      BY <2>2 DEF ChooseNothing, OutcomeJustified
    <2>3. CASE ChooseWave(d)
      BY <2>3 DEF ChooseWave, OutcomeJustified, StatusByPc, Body, Proc
    <2> QED
      BY <1>5, <2>1, <2>2, <2>3 DEF Choose
  <1>6. ASSUME NEW d \in Driver, Finish(d)
       PROVE  OutcomeJustified'
    <2>1. CASE FinishTerminal(d)
      <3>1. status' = "completed" => \A n \in Node : states[n] = "passed"
        BY <2>1 DEF FinishTerminal, TerminalStatuses
      <3>2. node' = node /\ status' \in {"completed", "failed"}
        BY <2>1 DEF FinishTerminal, TerminalStatuses, nodeVars
      <3>3. \A n \in Node : states[n] = "passed" => node[n] = "passed"
        BY <2>1 DEF FinishTerminal, WaveOver, MemoryByPc, Agrees, Reset, InFlight, Proc
      <3> QED
        BY <3>1, <3>2, <3>3 DEF OutcomeJustified
    <2>2. CASE FinishCancelled(d)
      BY <2>2 DEF FinishCancelled, OutcomeJustified
    <2>3. CASE FinishInterrupted(d) \/ FinishExpired(d) \/ FinishWave(d)
      BY <2>3 DEF FinishInterrupted, FinishExpired, FinishWave, Unwind, RestingStatus,
         OutcomeJustified
    <2> QED
      BY <1>6, <2>1, <2>2, <2>3 DEF Finish
  <1>7. ASSUME NEW p \in Proc, Notify(p)
       PROVE  OutcomeJustified'
    BY <1>7, WorldAssumption DEF OneOwner, Inside, LockFree, Proc, TypeOK,
       PcOK, InFlight, StatusByPc, Body, Telling, Active, Terminal, MarkByPc,
       NodeByPhase, OutcomeJustified, lockVars, nodeVars, noticeVars, mailVars,
       timeVars, Go, Release, Notify, NotifySkip, NotifyPut, NotifyReceipt
  <1>8. ASSUME NEW d \in Driver, HostStop(d)
       PROVE  OutcomeJustified'
    BY <1>8, WorldAssumption DEF OneOwner, Inside, LockFree, Proc, TypeOK,
       PcOK, InFlight, StatusByPc, Body, Telling, Active, Terminal, MarkByPc,
       NodeByPhase, OutcomeJustified, lockVars, nodeVars, noticeVars, mailVars,
       timeVars, Go, Release, HostStop
  <1>9. ASSUME NEW d \in Driver, BeatFails(d)
       PROVE  OutcomeJustified'
    BY <1>9, WorldAssumption DEF OneOwner, Inside, LockFree, Proc, TypeOK,
       PcOK, InFlight, StatusByPc, Body, Telling, Active, Terminal, MarkByPc,
       NodeByPhase, OutcomeJustified, lockVars, nodeVars, noticeVars, mailVars,
       timeVars, Go, Release, BeatFails, WaveOver, Unwind
  <1>10. ASSUME NEW c \in Canceller, CancelCheck(c)
       PROVE  OutcomeJustified'
    BY <1>10, WorldAssumption DEF OneOwner, Inside, LockFree, Proc, TypeOK,
       PcOK, InFlight, StatusByPc, Body, Telling, Active, Terminal, MarkByPc,
       NodeByPhase, OutcomeJustified, lockVars, nodeVars, noticeVars, mailVars,
       timeVars, Go, Release, CancelCheck
  <1>11. ASSUME NEW c \in Canceller, CancelMark(c)
       PROVE  OutcomeJustified'
    BY <1>11, WorldAssumption DEF OneOwner, Inside, LockFree, Proc, TypeOK,
       PcOK, InFlight, StatusByPc, Body, Telling, Active, Terminal, MarkByPc,
       NodeByPhase, OutcomeJustified, lockVars, nodeVars, noticeVars, mailVars,
       timeVars, Go, Release, CancelMark
  <1>12. ASSUME NEW c \in Canceller, CancelTooLate(c)
       PROVE  OutcomeJustified'
    BY <1>12, WorldAssumption DEF OneOwner, Inside, LockFree, Proc, TypeOK,
       PcOK, InFlight, StatusByPc, Body, Telling, Active, Terminal, MarkByPc,
       NodeByPhase, OutcomeJustified, lockVars, nodeVars, noticeVars, mailVars,
       timeVars, Go, Release, CancelTooLate
  <1>13. ASSUME NEW c \in Canceller, CancelLocked(c)
       PROVE  OutcomeJustified'
    BY <1>13, WorldAssumption DEF OneOwner, Inside, LockFree, Proc, TypeOK,
       PcOK, InFlight, StatusByPc, Body, Telling, Active, Terminal, MarkByPc,
       NodeByPhase, OutcomeJustified, lockVars, nodeVars, noticeVars, mailVars,
       timeVars, Go, Release, CancelLocked
  <1>14. ASSUME NEW p \in Proc, NotifyFails(p)
       PROVE  OutcomeJustified'
    BY <1>14, WorldAssumption DEF OneOwner, Inside, LockFree, Proc, TypeOK,
       PcOK, InFlight, StatusByPc, Body, Telling, Active, Terminal, MarkByPc,
       NodeByPhase, OutcomeJustified, lockVars, nodeVars, noticeVars, mailVars,
       timeVars, Go, Release, NotifyFails
  <1>15. ASSUME NEW p \in Proc, Crash(p)
       PROVE  OutcomeJustified'
    BY <1>15, WorldAssumption DEF OneOwner, Inside, LockFree, Proc, TypeOK,
       PcOK, InFlight, StatusByPc, Body, Telling, Active, Terminal, MarkByPc,
       NodeByPhase, OutcomeJustified, lockVars, nodeVars, noticeVars, mailVars,
       timeVars, Go, Release, Crash
  <1>16. ASSUME NEW n \in Node, ExecuteNode(n)
       PROVE  OutcomeJustified'
    BY <1>16, WorldAssumption DEF OneOwner, Inside, LockFree, Proc, TypeOK,
       PcOK, InFlight, StatusByPc, Body, Telling, Active, Terminal, MarkByPc,
       NodeByPhase, OutcomeJustified, lockVars, nodeVars, noticeVars, mailVars,
       timeVars, Go, Release, ExecuteNode, StartNode, WorkEnds, InTime, WorkCut,
       CheckEnds, CheckCut, Settle, Return, RetryOrFail
  <1>17. ASSUME NEW n \in Node, OrphanExits(n)
       PROVE  OutcomeJustified'
    BY <1>17, WorldAssumption DEF OneOwner, Inside, LockFree, Proc, TypeOK,
       PcOK, InFlight, StatusByPc, Body, Telling, Active, Terminal, MarkByPc,
       NodeByPhase, OutcomeJustified, lockVars, nodeVars, noticeVars, mailVars,
       timeVars, Go, Release, OrphanExits
  <1>18. ASSUME NEW n \in Node, LooseExits(n)
       PROVE  OutcomeJustified'
    BY <1>18, WorldAssumption DEF OneOwner, Inside, LockFree, Proc, TypeOK,
       PcOK, InFlight, StatusByPc, Body, Telling, Active, Terminal, MarkByPc,
       NodeByPhase, OutcomeJustified, lockVars, nodeVars, noticeVars, mailVars,
       timeVars, Go, Release, LooseExits
  <1>19. ASSUME NEW n \in Node, WaitDeadline(n)
       PROVE  OutcomeJustified'
    BY <1>19, WorldAssumption DEF OneOwner, Inside, LockFree, Proc, TypeOK,
       PcOK, InFlight, StatusByPc, Body, Telling, Active, Terminal, MarkByPc,
       NodeByPhase, OutcomeJustified, lockVars, nodeVars, noticeVars, mailVars,
       timeVars, Go, Release, WaitDeadline
  <1>20. ASSUME NEW s \in Signal, SignalRun(s) \/ NotifyRun(s)
       PROVE  OutcomeJustified'
    BY <1>20, WorldAssumption DEF OneOwner, Inside, LockFree, Proc, TypeOK,
       PcOK, InFlight, StatusByPc, Body, Telling, Active, Terminal, MarkByPc,
       NodeByPhase, OutcomeJustified, lockVars, nodeVars, noticeVars, mailVars,
       timeVars, Go, Release, SignalRun, NotifyRun, Deliver
  <1>21. CASE RunDeadline
    BY <1>21, WorldAssumption DEF OneOwner, Inside, LockFree, Proc, TypeOK,
       PcOK, InFlight, StatusByPc, Body, Telling, Active, Terminal, MarkByPc,
       NodeByPhase, OutcomeJustified, lockVars, nodeVars, noticeVars, mailVars,
       timeVars, Go, Release, RunDeadline
  <1>22. ASSUME NEW n \in Node, NodeFails(n)
       PROVE  OutcomeJustified'
    BY <1>22, FailedNode, WorldAssumption DEF OneOwner, Inside, LockFree, Proc, TypeOK,
       PcOK, InFlight, StatusByPc, Body, Telling, Active, Terminal, MarkByPc,
       NodeByPhase, OutcomeJustified, lockVars, nodeVars, noticeVars, mailVars,
       timeVars, Go, Release
  <1> QED
    BY <1>1, <1>2, <1>3, <1>4, <1>5, <1>6, <1>7, <1>8, <1>9, <1>10, <1>11,
       <1>12, <1>13, <1>14, <1>15, <1>16, <1>17, <1>18, <1>19, <1>20, <1>21, <1>22
       DEF Next, BeatStep, CancelStep, Proc

\* A notice beyond the first is paid for by a crash or a failed write.
LEMMA NextNoticeByPc ==
  ASSUME TypeOK, OneOwner, StatusByPc, NoticeTruthful, NoticeByPc, [Next]_vars
  PROVE  NoticeByPc'
  <1>1. CASE UNCHANGED vars
    BY <1>1 DEF OneOwner, Inside, LockFree, Proc, TypeOK, PcOK, StatusByPc,
       Body, Telling, Active, Terminal, NoticeTruthful, NoticeByPc, vars,
       lockVars, nodeVars, noticeVars, mailVars, timeVars
  <1>2. ASSUME NEW d \in Driver, BeatBegin(d)
       PROVE  NoticeByPc'
    BY <1>2, WorldAssumption DEF OneOwner, Inside, LockFree, Proc, TypeOK,
       PcOK, StatusByPc, Body, Telling, Active, Terminal, NoticeTruthful,
       NoticeByPc, lockVars, nodeVars, noticeVars, mailVars, timeVars, Go,
       Release, BeatBegin, BeatTerminal, BeatCancelled, BeatExpired, BeatRun
  <1>3. ASSUME NEW d \in Driver, Ingest(d)
       PROVE  NoticeByPc'
    BY <1>3, WorldAssumption DEF OneOwner, Inside, LockFree, Proc, TypeOK,
       PcOK, StatusByPc, Body, Telling, Active, Terminal, NoticeTruthful,
       NoticeByPc, lockVars, nodeVars, noticeVars, mailVars, timeVars, Go,
       Release, Ingest, IngestRecover, IngestClaim, IngestRecord, IngestAck,
       IngestDone, IngestReject, Unwind
  <1>4. ASSUME NEW d \in Driver, AdvanceWaits(d)
       PROVE  NoticeByPc'
    BY <1>4, WorldAssumption DEF OneOwner, Inside, LockFree, Proc, TypeOK,
       PcOK, StatusByPc, Body, Telling, Active, Terminal, NoticeTruthful,
       NoticeByPc, lockVars, nodeVars, noticeVars, mailVars, timeVars, Go,
       Release, AdvanceWaits
  <1>5. ASSUME NEW d \in Driver, Choose(d)
       PROVE  NoticeByPc'
    BY <1>5, WorldAssumption DEF OneOwner, Inside, LockFree, Proc, TypeOK,
       PcOK, StatusByPc, Body, Telling, Active, Terminal, NoticeTruthful,
       NoticeByPc, lockVars, nodeVars, noticeVars, mailVars, timeVars, Go,
       Release, Choose, ChooseTerminal, ChooseNothing, ChooseWave,
       TerminalStatuses
  <1>6. ASSUME NEW d \in Driver, Finish(d)
       PROVE  NoticeByPc'
    BY <1>6, WorldAssumption DEF OneOwner, Inside, LockFree, Proc, TypeOK,
       PcOK, StatusByPc, Body, Telling, Active, Terminal, NoticeTruthful,
       NoticeByPc, lockVars, nodeVars, noticeVars, mailVars, timeVars, Go,
       Release, Finish, FinishCancelled, FinishInterrupted, FinishExpired,
       FinishTerminal, FinishWave, WaveOver, Unwind, TerminalStatuses,
       RestingStatus
  <1>7. ASSUME NEW p \in Proc, Notify(p)
       PROVE  NoticeByPc'
    BY <1>7, WorldAssumption DEF OneOwner, Inside, LockFree, Proc, TypeOK,
       PcOK, StatusByPc, Body, Telling, Active, Terminal, NoticeTruthful,
       NoticeByPc, lockVars, nodeVars, noticeVars, mailVars, timeVars, Go,
       Release, Notify, NotifySkip, NotifyPut, NotifyReceipt
  <1>8. ASSUME NEW d \in Driver, HostStop(d)
       PROVE  NoticeByPc'
    BY <1>8, WorldAssumption DEF OneOwner, Inside, LockFree, Proc, TypeOK,
       PcOK, StatusByPc, Body, Telling, Active, Terminal, NoticeTruthful,
       NoticeByPc, lockVars, nodeVars, noticeVars, mailVars, timeVars, Go,
       Release, HostStop
  <1>9. ASSUME NEW d \in Driver, BeatFails(d)
       PROVE  NoticeByPc'
    BY <1>9, WorldAssumption DEF OneOwner, Inside, LockFree, Proc, TypeOK,
       PcOK, StatusByPc, Body, Telling, Active, Terminal, NoticeTruthful,
       NoticeByPc, lockVars, nodeVars, noticeVars, mailVars, timeVars, Go,
       Release, BeatFails, WaveOver, Unwind
  <1>10. ASSUME NEW c \in Canceller, CancelCheck(c)
       PROVE  NoticeByPc'
    BY <1>10, WorldAssumption DEF OneOwner, Inside, LockFree, Proc, TypeOK,
       PcOK, StatusByPc, Body, Telling, Active, Terminal, NoticeTruthful,
       NoticeByPc, lockVars, nodeVars, noticeVars, mailVars, timeVars, Go,
       Release, CancelCheck
  <1>11. ASSUME NEW c \in Canceller, CancelMark(c)
       PROVE  NoticeByPc'
    BY <1>11, WorldAssumption DEF OneOwner, Inside, LockFree, Proc, TypeOK,
       PcOK, StatusByPc, Body, Telling, Active, Terminal, NoticeTruthful,
       NoticeByPc, lockVars, nodeVars, noticeVars, mailVars, timeVars, Go,
       Release, CancelMark
  <1>12. ASSUME NEW c \in Canceller, CancelTooLate(c)
       PROVE  NoticeByPc'
    BY <1>12, WorldAssumption DEF OneOwner, Inside, LockFree, Proc, TypeOK,
       PcOK, StatusByPc, Body, Telling, Active, Terminal, NoticeTruthful,
       NoticeByPc, lockVars, nodeVars, noticeVars, mailVars, timeVars, Go,
       Release, CancelTooLate
  <1>13. ASSUME NEW c \in Canceller, CancelLocked(c)
       PROVE  NoticeByPc'
    BY <1>13, WorldAssumption DEF OneOwner, Inside, LockFree, Proc, TypeOK,
       PcOK, StatusByPc, Body, Telling, Active, Terminal, NoticeTruthful,
       NoticeByPc, lockVars, nodeVars, noticeVars, mailVars, timeVars, Go,
       Release, CancelLocked
  <1>14. ASSUME NEW p \in Proc, NotifyFails(p)
       PROVE  NoticeByPc'
    BY <1>14, WorldAssumption DEF OneOwner, Inside, LockFree, Proc, TypeOK,
       PcOK, StatusByPc, Body, Telling, Active, Terminal, NoticeTruthful,
       NoticeByPc, lockVars, nodeVars, noticeVars, mailVars, timeVars, Go,
       Release, NotifyFails
  <1>15. ASSUME NEW p \in Proc, Crash(p)
       PROVE  NoticeByPc'
    BY <1>15, WorldAssumption DEF OneOwner, Inside, LockFree, Proc, TypeOK,
       PcOK, StatusByPc, Body, Telling, Active, Terminal, NoticeTruthful,
       NoticeByPc, lockVars, nodeVars, noticeVars, mailVars, timeVars, Go,
       Release, Crash
  <1>16. ASSUME NEW n \in Node, ExecuteNode(n)
       PROVE  NoticeByPc'
    BY <1>16, WorldAssumption DEF OneOwner, Inside, LockFree, Proc, TypeOK,
       PcOK, StatusByPc, Body, Telling, Active, Terminal, NoticeTruthful,
       NoticeByPc, lockVars, nodeVars, noticeVars, mailVars, timeVars, Go,
       Release, ExecuteNode, StartNode, WorkEnds, InTime, WorkCut, CheckEnds, CheckCut,
       Settle, Return
  <1>17. ASSUME NEW n \in Node, OrphanExits(n)
       PROVE  NoticeByPc'
    BY <1>17, WorldAssumption DEF OneOwner, Inside, LockFree, Proc, TypeOK,
       PcOK, StatusByPc, Body, Telling, Active, Terminal, NoticeTruthful,
       NoticeByPc, lockVars, nodeVars, noticeVars, mailVars, timeVars, Go,
       Release, OrphanExits
  <1>18. ASSUME NEW n \in Node, LooseExits(n)
       PROVE  NoticeByPc'
    BY <1>18, WorldAssumption DEF OneOwner, Inside, LockFree, Proc, TypeOK,
       PcOK, StatusByPc, Body, Telling, Active, Terminal, NoticeTruthful,
       NoticeByPc, lockVars, nodeVars, noticeVars, mailVars, timeVars, Go,
       Release, LooseExits
  <1>19. ASSUME NEW n \in Node, WaitDeadline(n)
       PROVE  NoticeByPc'
    BY <1>19, WorldAssumption DEF OneOwner, Inside, LockFree, Proc, TypeOK,
       PcOK, StatusByPc, Body, Telling, Active, Terminal, NoticeTruthful,
       NoticeByPc, lockVars, nodeVars, noticeVars, mailVars, timeVars, Go,
       Release, WaitDeadline
  <1>20. ASSUME NEW s \in Signal, SignalRun(s) \/ NotifyRun(s)
       PROVE  NoticeByPc'
    BY <1>20, WorldAssumption DEF OneOwner, Inside, LockFree, Proc, TypeOK,
       PcOK, StatusByPc, Body, Telling, Active, Terminal, NoticeTruthful,
       NoticeByPc, lockVars, nodeVars, noticeVars, mailVars, timeVars, Go,
       Release, SignalRun, NotifyRun, Deliver
  <1>21. CASE RunDeadline
    BY <1>21, WorldAssumption DEF OneOwner, Inside, LockFree, Proc, TypeOK,
       PcOK, StatusByPc, Body, Telling, Active, Terminal, NoticeTruthful,
       NoticeByPc, lockVars, nodeVars, noticeVars, mailVars, timeVars, Go,
       Release, RunDeadline
  <1>22. ASSUME NEW n \in Node, NodeFails(n)
       PROVE  NoticeByPc'
    BY <1>22, FailedNode, WorldAssumption DEF OneOwner, Inside, LockFree, Proc, TypeOK,
       PcOK, StatusByPc, Body, Telling, Active, Terminal, NoticeTruthful,
       NoticeByPc, lockVars, nodeVars, noticeVars, mailVars, timeVars, Go,
       Release
  <1> QED
    BY <1>1, <1>2, <1>3, <1>4, <1>5, <1>6, <1>7, <1>8, <1>9, <1>10, <1>11,
       <1>12, <1>13, <1>14, <1>15, <1>16, <1>17, <1>18, <1>19, <1>20, <1>21, <1>22
       DEF Next, BeatStep, CancelStep, Proc

\* What was announced is the outcome, and stays so.
LEMMA NextNoticeTruthful ==
  ASSUME TypeOK, OneOwner, StatusByPc, NoticeTruthful, NoticeByPc, [Next]_vars
  PROVE  NoticeTruthful'
  <1>1. CASE UNCHANGED vars
    BY <1>1 DEF OneOwner, Inside, LockFree, Proc, TypeOK, PcOK, StatusByPc,
       Body, Telling, Active, Terminal, NoticeTruthful, NoticeByPc, vars,
       lockVars, nodeVars, noticeVars, mailVars, timeVars
  <1>2. ASSUME NEW d \in Driver, BeatBegin(d)
       PROVE  NoticeTruthful'
    BY <1>2, WorldAssumption DEF OneOwner, Inside, LockFree, Proc, TypeOK,
       PcOK, StatusByPc, Body, Telling, Active, Terminal, NoticeTruthful,
       NoticeByPc, lockVars, nodeVars, noticeVars, mailVars, timeVars, Go,
       Release, BeatBegin, BeatTerminal, BeatCancelled, BeatExpired, BeatRun
  <1>3. ASSUME NEW d \in Driver, Ingest(d)
       PROVE  NoticeTruthful'
    BY <1>3, WorldAssumption DEF OneOwner, Inside, LockFree, Proc, TypeOK,
       PcOK, StatusByPc, Body, Telling, Active, Terminal, NoticeTruthful,
       NoticeByPc, lockVars, nodeVars, noticeVars, mailVars, timeVars, Go,
       Release, Ingest, IngestRecover, IngestClaim, IngestRecord, IngestAck,
       IngestDone, IngestReject, Unwind
  <1>4. ASSUME NEW d \in Driver, AdvanceWaits(d)
       PROVE  NoticeTruthful'
    BY <1>4, WorldAssumption DEF OneOwner, Inside, LockFree, Proc, TypeOK,
       PcOK, StatusByPc, Body, Telling, Active, Terminal, NoticeTruthful,
       NoticeByPc, lockVars, nodeVars, noticeVars, mailVars, timeVars, Go,
       Release, AdvanceWaits
  <1>5. ASSUME NEW d \in Driver, Choose(d)
       PROVE  NoticeTruthful'
    BY <1>5, WorldAssumption DEF OneOwner, Inside, LockFree, Proc, TypeOK,
       PcOK, StatusByPc, Body, Telling, Active, Terminal, NoticeTruthful,
       NoticeByPc, lockVars, nodeVars, noticeVars, mailVars, timeVars, Go,
       Release, Choose, ChooseTerminal, ChooseNothing, ChooseWave,
       TerminalStatuses
  <1>6. ASSUME NEW d \in Driver, Finish(d)
       PROVE  NoticeTruthful'
    BY <1>6, WorldAssumption DEF OneOwner, Inside, LockFree, Proc, TypeOK,
       PcOK, StatusByPc, Body, Telling, Active, Terminal, NoticeTruthful,
       NoticeByPc, lockVars, nodeVars, noticeVars, mailVars, timeVars, Go,
       Release, Finish, FinishCancelled, FinishInterrupted, FinishExpired,
       FinishTerminal, FinishWave, WaveOver, Unwind, TerminalStatuses,
       RestingStatus
  <1>7. ASSUME NEW p \in Proc, Notify(p)
       PROVE  NoticeTruthful'
    BY <1>7, WorldAssumption DEF OneOwner, Inside, LockFree, Proc, TypeOK,
       PcOK, StatusByPc, Body, Telling, Active, Terminal, NoticeTruthful,
       NoticeByPc, lockVars, nodeVars, noticeVars, mailVars, timeVars, Go,
       Release, Notify, NotifySkip, NotifyPut, NotifyReceipt
  <1>8. ASSUME NEW d \in Driver, HostStop(d)
       PROVE  NoticeTruthful'
    BY <1>8, WorldAssumption DEF OneOwner, Inside, LockFree, Proc, TypeOK,
       PcOK, StatusByPc, Body, Telling, Active, Terminal, NoticeTruthful,
       NoticeByPc, lockVars, nodeVars, noticeVars, mailVars, timeVars, Go,
       Release, HostStop
  <1>9. ASSUME NEW d \in Driver, BeatFails(d)
       PROVE  NoticeTruthful'
    BY <1>9, WorldAssumption DEF OneOwner, Inside, LockFree, Proc, TypeOK,
       PcOK, StatusByPc, Body, Telling, Active, Terminal, NoticeTruthful,
       NoticeByPc, lockVars, nodeVars, noticeVars, mailVars, timeVars, Go,
       Release, BeatFails, WaveOver, Unwind
  <1>10. ASSUME NEW c \in Canceller, CancelCheck(c)
       PROVE  NoticeTruthful'
    BY <1>10, WorldAssumption DEF OneOwner, Inside, LockFree, Proc, TypeOK,
       PcOK, StatusByPc, Body, Telling, Active, Terminal, NoticeTruthful,
       NoticeByPc, lockVars, nodeVars, noticeVars, mailVars, timeVars, Go,
       Release, CancelCheck
  <1>11. ASSUME NEW c \in Canceller, CancelMark(c)
       PROVE  NoticeTruthful'
    BY <1>11, WorldAssumption DEF OneOwner, Inside, LockFree, Proc, TypeOK,
       PcOK, StatusByPc, Body, Telling, Active, Terminal, NoticeTruthful,
       NoticeByPc, lockVars, nodeVars, noticeVars, mailVars, timeVars, Go,
       Release, CancelMark
  <1>12. ASSUME NEW c \in Canceller, CancelTooLate(c)
       PROVE  NoticeTruthful'
    BY <1>12, WorldAssumption DEF OneOwner, Inside, LockFree, Proc, TypeOK,
       PcOK, StatusByPc, Body, Telling, Active, Terminal, NoticeTruthful,
       NoticeByPc, lockVars, nodeVars, noticeVars, mailVars, timeVars, Go,
       Release, CancelTooLate
  <1>13. ASSUME NEW c \in Canceller, CancelLocked(c)
       PROVE  NoticeTruthful'
    BY <1>13, WorldAssumption DEF OneOwner, Inside, LockFree, Proc, TypeOK,
       PcOK, StatusByPc, Body, Telling, Active, Terminal, NoticeTruthful,
       NoticeByPc, lockVars, nodeVars, noticeVars, mailVars, timeVars, Go,
       Release, CancelLocked
  <1>14. ASSUME NEW p \in Proc, NotifyFails(p)
       PROVE  NoticeTruthful'
    BY <1>14, WorldAssumption DEF OneOwner, Inside, LockFree, Proc, TypeOK,
       PcOK, StatusByPc, Body, Telling, Active, Terminal, NoticeTruthful,
       NoticeByPc, lockVars, nodeVars, noticeVars, mailVars, timeVars, Go,
       Release, NotifyFails
  <1>15. ASSUME NEW p \in Proc, Crash(p)
       PROVE  NoticeTruthful'
    BY <1>15, WorldAssumption DEF OneOwner, Inside, LockFree, Proc, TypeOK,
       PcOK, StatusByPc, Body, Telling, Active, Terminal, NoticeTruthful,
       NoticeByPc, lockVars, nodeVars, noticeVars, mailVars, timeVars, Go,
       Release, Crash
  <1>16. ASSUME NEW n \in Node, ExecuteNode(n)
       PROVE  NoticeTruthful'
    BY <1>16, WorldAssumption DEF OneOwner, Inside, LockFree, Proc, TypeOK,
       PcOK, StatusByPc, Body, Telling, Active, Terminal, NoticeTruthful,
       NoticeByPc, lockVars, nodeVars, noticeVars, mailVars, timeVars, Go,
       Release, ExecuteNode, StartNode, WorkEnds, InTime, WorkCut, CheckEnds, CheckCut,
       Settle, Return
  <1>17. ASSUME NEW n \in Node, OrphanExits(n)
       PROVE  NoticeTruthful'
    BY <1>17, WorldAssumption DEF OneOwner, Inside, LockFree, Proc, TypeOK,
       PcOK, StatusByPc, Body, Telling, Active, Terminal, NoticeTruthful,
       NoticeByPc, lockVars, nodeVars, noticeVars, mailVars, timeVars, Go,
       Release, OrphanExits
  <1>18. ASSUME NEW n \in Node, LooseExits(n)
       PROVE  NoticeTruthful'
    BY <1>18, WorldAssumption DEF OneOwner, Inside, LockFree, Proc, TypeOK,
       PcOK, StatusByPc, Body, Telling, Active, Terminal, NoticeTruthful,
       NoticeByPc, lockVars, nodeVars, noticeVars, mailVars, timeVars, Go,
       Release, LooseExits
  <1>19. ASSUME NEW n \in Node, WaitDeadline(n)
       PROVE  NoticeTruthful'
    BY <1>19, WorldAssumption DEF OneOwner, Inside, LockFree, Proc, TypeOK,
       PcOK, StatusByPc, Body, Telling, Active, Terminal, NoticeTruthful,
       NoticeByPc, lockVars, nodeVars, noticeVars, mailVars, timeVars, Go,
       Release, WaitDeadline
  <1>20. ASSUME NEW s \in Signal, SignalRun(s) \/ NotifyRun(s)
       PROVE  NoticeTruthful'
    BY <1>20, WorldAssumption DEF OneOwner, Inside, LockFree, Proc, TypeOK,
       PcOK, StatusByPc, Body, Telling, Active, Terminal, NoticeTruthful,
       NoticeByPc, lockVars, nodeVars, noticeVars, mailVars, timeVars, Go,
       Release, SignalRun, NotifyRun, Deliver
  <1>21. CASE RunDeadline
    BY <1>21, WorldAssumption DEF OneOwner, Inside, LockFree, Proc, TypeOK,
       PcOK, StatusByPc, Body, Telling, Active, Terminal, NoticeTruthful,
       NoticeByPc, lockVars, nodeVars, noticeVars, mailVars, timeVars, Go,
       Release, RunDeadline
  <1>22. ASSUME NEW n \in Node, NodeFails(n)
       PROVE  NoticeTruthful'
    BY <1>22, FailedNode, WorldAssumption DEF OneOwner, Inside, LockFree, Proc, TypeOK,
       PcOK, StatusByPc, Body, Telling, Active, Terminal, NoticeTruthful,
       NoticeByPc, lockVars, nodeVars, noticeVars, mailVars, timeVars, Go,
       Release
  <1> QED
    BY <1>1, <1>2, <1>3, <1>4, <1>5, <1>6, <1>7, <1>8, <1>9, <1>10, <1>11,
       <1>12, <1>13, <1>14, <1>15, <1>16, <1>17, <1>18, <1>19, <1>20, <1>21, <1>22
       DEF Next, BeatStep, CancelStep, Proc

\* Status files and processes change together.
LEMMA NextNodeByPhase ==
  ASSUME TypeOK, OneOwner, NodeByPhase, MemoryByPc, [Next]_vars
  PROVE  NodeByPhase'
  <1>1. CASE UNCHANGED vars
    BY <1>1 DEF OneOwner, Inside, Orphans, LockFree, InFlight, Proc, TypeOK,
       PcOK, NodeByPhase, vars, lockVars, nodeVars, noticeVars, mailVars,
       timeVars
  <1>2. ASSUME NEW d \in Driver, BeatBegin(d)
       PROVE  NodeByPhase'
    BY <1>2, TaskAssumption, WorldAssumption DEF OneOwner, Inside, Orphans,
       LockFree, InFlight, Proc, TypeOK, PcOK, NodeByPhase, lockVars, nodeVars,
       noticeVars, mailVars, timeVars, Go, Release, BeatBegin, BeatTerminal,
       BeatCancelled, BeatExpired, BeatRun, Reset
  <1>3. ASSUME NEW d \in Driver, Ingest(d)
       PROVE  NodeByPhase'
    BY <1>3, TaskAssumption, WorldAssumption DEF OneOwner, Inside, Orphans,
       LockFree, InFlight, Proc, TypeOK, PcOK, NodeByPhase, lockVars, nodeVars,
       noticeVars, mailVars, timeVars, Go, Release, Ingest, IngestRecover,
       IngestClaim, IngestRecord, IngestAck, IngestDone, IngestReject, Unwind
  <1>4. ASSUME NEW d \in Driver, AdvanceWaits(d)
       PROVE  NodeByPhase'
    BY <1>4, TaskAssumption, WorldAssumption DEF OneOwner, Inside, Orphans,
       LockFree, InFlight, Proc, TypeOK, PcOK, NodeByPhase, lockVars, nodeVars,
       noticeVars, mailVars, timeVars, Go, Release, AdvanceWaits, WaitResult
  <1>5. ASSUME NEW d \in Driver, ChooseTerminal(d)
       PROVE  NodeByPhase'
    BY <1>5, TaskAssumption, WorldAssumption DEF OneOwner, Inside, Orphans,
       LockFree, InFlight, Proc, TypeOK, PcOK, NodeByPhase, lockVars, nodeVars,
       noticeVars, mailVars, timeVars, Go, Release, ChooseTerminal,
       TerminalStatuses
  <1>6. ASSUME NEW d \in Driver, ChooseNothing(d)
       PROVE  NodeByPhase'
    BY <1>6, TaskAssumption, WorldAssumption DEF OneOwner, Inside, Orphans,
       LockFree, InFlight, Proc, TypeOK, PcOK, NodeByPhase, lockVars, nodeVars,
       noticeVars, mailVars, timeVars, Go, Release, ChooseNothing
  <1>7. ASSUME NEW d \in Driver, ChooseWave(d)
       PROVE  NodeByPhase'
    <2>1. \A n \in Runnable : node[n] = "pending"
      BY <1>7, FilesRead DEF ChooseWave
    <2> QED
      BY <1>7, <2>1, ChosenWave, TaskAssumption DEF NodeByPhase
  <1>8. ASSUME NEW d \in Driver, Finish(d)
       PROVE  NodeByPhase'
    BY <1>8, TaskAssumption, WorldAssumption DEF OneOwner, Inside, Orphans,
       LockFree, InFlight, Proc, TypeOK, PcOK, NodeByPhase, lockVars, nodeVars,
       noticeVars, mailVars, timeVars, Go, Release, Finish, FinishCancelled,
       FinishInterrupted, FinishExpired, FinishTerminal, FinishWave, WaveOver,
       Unwind, TerminalStatuses, RestingStatus
  <1>9. ASSUME NEW p \in Proc, Notify(p)
       PROVE  NodeByPhase'
    BY <1>9, TaskAssumption, WorldAssumption DEF OneOwner, Inside, Orphans,
       LockFree, InFlight, Proc, TypeOK, PcOK, NodeByPhase, lockVars, nodeVars,
       noticeVars, mailVars, timeVars, Go, Release, Notify, NotifySkip,
       NotifyPut, NotifyReceipt
  <1>10. ASSUME NEW d \in Driver, HostStop(d)
       PROVE  NodeByPhase'
    BY <1>10, TaskAssumption, WorldAssumption DEF OneOwner, Inside, Orphans,
       LockFree, InFlight, Proc, TypeOK, PcOK, NodeByPhase, lockVars, nodeVars,
       noticeVars, mailVars, timeVars, Go, Release, HostStop
  <1>11. ASSUME NEW d \in Driver, BeatFails(d)
       PROVE  NodeByPhase'
    BY <1>11, TaskAssumption, WorldAssumption DEF OneOwner, Inside, Orphans,
       LockFree, InFlight, Proc, TypeOK, PcOK, NodeByPhase, lockVars, nodeVars,
       noticeVars, mailVars, timeVars, Go, Release, BeatFails, WaveOver, Unwind
  <1>12. ASSUME NEW c \in Canceller, CancelCheck(c)
       PROVE  NodeByPhase'
    BY <1>12, TaskAssumption, WorldAssumption DEF OneOwner, Inside, Orphans,
       LockFree, InFlight, Proc, TypeOK, PcOK, NodeByPhase, lockVars, nodeVars,
       noticeVars, mailVars, timeVars, Go, Release, CancelCheck
  <1>13. ASSUME NEW c \in Canceller, CancelMark(c)
       PROVE  NodeByPhase'
    BY <1>13, TaskAssumption, WorldAssumption DEF OneOwner, Inside, Orphans,
       LockFree, InFlight, Proc, TypeOK, PcOK, NodeByPhase, lockVars, nodeVars,
       noticeVars, mailVars, timeVars, Go, Release, CancelMark
  <1>14. ASSUME NEW c \in Canceller, CancelTooLate(c)
       PROVE  NodeByPhase'
    BY <1>14, TaskAssumption, WorldAssumption DEF OneOwner, Inside, Orphans,
       LockFree, InFlight, Proc, TypeOK, PcOK, NodeByPhase, lockVars, nodeVars,
       noticeVars, mailVars, timeVars, Go, Release, CancelTooLate
  <1>15. ASSUME NEW c \in Canceller, CancelLocked(c)
       PROVE  NodeByPhase'
    BY <1>15, TaskAssumption, WorldAssumption DEF OneOwner, Inside, Orphans,
       LockFree, InFlight, Proc, TypeOK, PcOK, NodeByPhase, lockVars, nodeVars,
       noticeVars, mailVars, timeVars, Go, Release, CancelLocked
  <1>16. ASSUME NEW p \in Proc, NotifyFails(p)
       PROVE  NodeByPhase'
    BY <1>16, TaskAssumption, WorldAssumption DEF OneOwner, Inside, Orphans,
       LockFree, InFlight, Proc, TypeOK, PcOK, NodeByPhase, lockVars, nodeVars,
       noticeVars, mailVars, timeVars, Go, Release, NotifyFails
  <1>17. ASSUME NEW p \in Proc, Crash(p)
       PROVE  NodeByPhase'
    BY <1>17, TaskAssumption, WorldAssumption DEF OneOwner, Inside, Orphans,
       LockFree, InFlight, Proc, TypeOK, PcOK, NodeByPhase, lockVars, nodeVars,
       noticeVars, mailVars, timeVars, Go, Release, Crash
  <1>18. ASSUME NEW n \in Node, ExecuteNode(n)
       PROVE  NodeByPhase'
    BY <1>18, TaskAssumption, WorldAssumption DEF OneOwner, Inside, Orphans,
       LockFree, InFlight, Proc, TypeOK, PcOK, NodeByPhase, lockVars, nodeVars,
       noticeVars, mailVars, timeVars, Go, Release, ExecuteNode, StartNode,
       WorkEnds, InTime, WorkCut, CheckEnds, CheckCut, Settle, Return, RetryOrFail
  <1>19. ASSUME NEW n \in Node, OrphanExits(n)
       PROVE  NodeByPhase'
    BY <1>19, TaskAssumption, WorldAssumption DEF OneOwner, Inside, Orphans,
       LockFree, InFlight, Proc, TypeOK, PcOK, NodeByPhase, lockVars, nodeVars,
       noticeVars, mailVars, timeVars, Go, Release, OrphanExits
  <1>20. ASSUME NEW n \in Node, LooseExits(n)
       PROVE  NodeByPhase'
    BY <1>20, TaskAssumption, WorldAssumption DEF OneOwner, Inside, Orphans,
       LockFree, InFlight, Proc, TypeOK, PcOK, NodeByPhase, lockVars, nodeVars,
       noticeVars, mailVars, timeVars, Go, Release, LooseExits
  <1>21. ASSUME NEW n \in Node, WaitDeadline(n)
       PROVE  NodeByPhase'
    BY <1>21, TaskAssumption, WorldAssumption DEF OneOwner, Inside, Orphans,
       LockFree, InFlight, Proc, TypeOK, PcOK, NodeByPhase, lockVars, nodeVars,
       noticeVars, mailVars, timeVars, Go, Release, WaitDeadline
  <1>22. ASSUME NEW s \in Signal, SignalRun(s) \/ NotifyRun(s)
       PROVE  NodeByPhase'
    BY <1>22, TaskAssumption, WorldAssumption DEF OneOwner, Inside, Orphans,
       LockFree, InFlight, Proc, TypeOK, PcOK, NodeByPhase, lockVars, nodeVars,
       noticeVars, mailVars, timeVars, Go, Release, SignalRun, NotifyRun,
       Deliver
  <1>23. CASE RunDeadline
    BY <1>23, TaskAssumption, WorldAssumption DEF OneOwner, Inside, Orphans,
       LockFree, InFlight, Proc, TypeOK, PcOK, NodeByPhase, lockVars, nodeVars,
       noticeVars, mailVars, timeVars, Go, Release, RunDeadline
  <1>24. ASSUME NEW n \in Node, NodeFails(n)
       PROVE  NodeByPhase'
    BY <1>24, FailedNode, TaskAssumption, WorldAssumption DEF OneOwner, Inside, Orphans,
       LockFree, InFlight, Proc, TypeOK, PcOK, NodeByPhase, lockVars, nodeVars,
       noticeVars, mailVars, timeVars, Go, Release
  <1> QED
    BY <1>1, <1>2, <1>3, <1>4, <1>5, <1>6, <1>7, <1>8, <1>9, <1>10, <1>11,
       <1>12, <1>13, <1>14, <1>15, <1>16, <1>17, <1>18, <1>19, <1>20, <1>21,
       <1>22, <1>23, <1>24
       DEF Next, BeatStep, CancelStep, Proc, Choose

\* A node leaves pending behind its dependencies; a passed node stays passed.
LEMMA NextDependencyOrder ==
  ASSUME TypeOK, OneOwner, NodeByPhase, MemoryByPc, DependencyOrder, [Next]_vars
  PROVE  DependencyOrder'
  <1>1. CASE UNCHANGED vars
    BY <1>1 DEF OneOwner, Inside, Orphans, LockFree, InFlight, Proc, TypeOK,
       PcOK, NodeByPhase, DependencyOrder, vars, lockVars, nodeVars,
       noticeVars, mailVars, timeVars
  <1>2. ASSUME NEW d \in Driver, BeatBegin(d)
       PROVE  DependencyOrder'
    BY <1>2, TaskAssumption, WorldAssumption DEF OneOwner, Inside, Orphans,
       LockFree, InFlight, Proc, TypeOK, PcOK, NodeByPhase, DependencyOrder,
       lockVars, nodeVars, noticeVars, mailVars, timeVars, Go, Release,
       BeatBegin, BeatTerminal, BeatCancelled, BeatExpired, BeatRun, Reset
  <1>3. ASSUME NEW d \in Driver, Ingest(d)
       PROVE  DependencyOrder'
    BY <1>3, TaskAssumption, WorldAssumption DEF OneOwner, Inside, Orphans,
       LockFree, InFlight, Proc, TypeOK, PcOK, NodeByPhase, DependencyOrder,
       lockVars, nodeVars, noticeVars, mailVars, timeVars, Go, Release, Ingest,
       IngestRecover, IngestClaim, IngestRecord, IngestAck, IngestDone,
       IngestReject, Unwind
  <1>4. ASSUME NEW d \in Driver, AdvanceWaits(d)
       PROVE  DependencyOrder'
    <2>1. /\ phase' = phase
          /\ \A n \in Node : \/ node'[n] = node[n]
                             \/ node[n] = "waiting" /\ node'[n] # "pending"
      BY <1>4, FilesRead DEF AdvanceWaits, WaitResult
    <2> QED
      BY <2>1, TaskAssumption DEF DependencyOrder
  <1>5. ASSUME NEW d \in Driver, ChooseTerminal(d)
       PROVE  DependencyOrder'
    BY <1>5, TaskAssumption, WorldAssumption DEF OneOwner, Inside, Orphans,
       LockFree, InFlight, Proc, TypeOK, PcOK, NodeByPhase, DependencyOrder,
       lockVars, nodeVars, noticeVars, mailVars, timeVars, Go, Release,
       ChooseTerminal, TerminalStatuses
  <1>6. ASSUME NEW d \in Driver, ChooseNothing(d)
       PROVE  DependencyOrder'
    BY <1>6, TaskAssumption, WorldAssumption DEF OneOwner, Inside, Orphans,
       LockFree, InFlight, Proc, TypeOK, PcOK, NodeByPhase, DependencyOrder,
       lockVars, nodeVars, noticeVars, mailVars, timeVars, Go, Release,
       ChooseNothing
  <1>7. ASSUME NEW d \in Driver, ChooseWave(d)
       PROVE  DependencyOrder'
    <2>1. \A n \in Runnable :
             node[n] = "pending" /\ \A m \in After[n] : node[m] = "passed"
      BY <1>7, FilesRead DEF ChooseWave
    <2>2. \A n \in Node : node'[n] = node[n] \/ n \in Runnable
      BY <1>7, ChosenWave
    <2>3. \A n \in Node : phase'[n] # "off" => n \in Runnable
      BY <1>7, ChosenWave
    <2> QED
      BY <2>1, <2>2, <2>3, TaskAssumption DEF DependencyOrder
  <1>8. ASSUME NEW d \in Driver, Finish(d)
       PROVE  DependencyOrder'
    BY <1>8, TaskAssumption, WorldAssumption DEF OneOwner, Inside, Orphans,
       LockFree, InFlight, Proc, TypeOK, PcOK, NodeByPhase, DependencyOrder,
       lockVars, nodeVars, noticeVars, mailVars, timeVars, Go, Release, Finish,
       FinishCancelled, FinishInterrupted, FinishExpired, FinishTerminal,
       FinishWave, WaveOver, Unwind, TerminalStatuses, RestingStatus
  <1>9. ASSUME NEW p \in Proc, Notify(p)
       PROVE  DependencyOrder'
    BY <1>9, TaskAssumption, WorldAssumption DEF OneOwner, Inside, Orphans,
       LockFree, InFlight, Proc, TypeOK, PcOK, NodeByPhase, DependencyOrder,
       lockVars, nodeVars, noticeVars, mailVars, timeVars, Go, Release, Notify,
       NotifySkip, NotifyPut, NotifyReceipt
  <1>10. ASSUME NEW d \in Driver, HostStop(d)
       PROVE  DependencyOrder'
    BY <1>10, TaskAssumption, WorldAssumption DEF OneOwner, Inside, Orphans,
       LockFree, InFlight, Proc, TypeOK, PcOK, NodeByPhase, DependencyOrder,
       lockVars, nodeVars, noticeVars, mailVars, timeVars, Go, Release,
       HostStop
  <1>11. ASSUME NEW d \in Driver, BeatFails(d)
       PROVE  DependencyOrder'
    BY <1>11, TaskAssumption, WorldAssumption DEF OneOwner, Inside, Orphans,
       LockFree, InFlight, Proc, TypeOK, PcOK, NodeByPhase, DependencyOrder,
       lockVars, nodeVars, noticeVars, mailVars, timeVars, Go, Release,
       BeatFails, WaveOver, Unwind
  <1>12. ASSUME NEW c \in Canceller, CancelCheck(c)
       PROVE  DependencyOrder'
    BY <1>12, TaskAssumption, WorldAssumption DEF OneOwner, Inside, Orphans,
       LockFree, InFlight, Proc, TypeOK, PcOK, NodeByPhase, DependencyOrder,
       lockVars, nodeVars, noticeVars, mailVars, timeVars, Go, Release,
       CancelCheck
  <1>13. ASSUME NEW c \in Canceller, CancelMark(c)
       PROVE  DependencyOrder'
    BY <1>13, TaskAssumption, WorldAssumption DEF OneOwner, Inside, Orphans,
       LockFree, InFlight, Proc, TypeOK, PcOK, NodeByPhase, DependencyOrder,
       lockVars, nodeVars, noticeVars, mailVars, timeVars, Go, Release,
       CancelMark
  <1>14. ASSUME NEW c \in Canceller, CancelTooLate(c)
       PROVE  DependencyOrder'
    BY <1>14, TaskAssumption, WorldAssumption DEF OneOwner, Inside, Orphans,
       LockFree, InFlight, Proc, TypeOK, PcOK, NodeByPhase, DependencyOrder,
       lockVars, nodeVars, noticeVars, mailVars, timeVars, Go, Release,
       CancelTooLate
  <1>15. ASSUME NEW c \in Canceller, CancelLocked(c)
       PROVE  DependencyOrder'
    BY <1>15, TaskAssumption, WorldAssumption DEF OneOwner, Inside, Orphans,
       LockFree, InFlight, Proc, TypeOK, PcOK, NodeByPhase, DependencyOrder,
       lockVars, nodeVars, noticeVars, mailVars, timeVars, Go, Release,
       CancelLocked
  <1>16. ASSUME NEW p \in Proc, NotifyFails(p)
       PROVE  DependencyOrder'
    BY <1>16, TaskAssumption, WorldAssumption DEF OneOwner, Inside, Orphans,
       LockFree, InFlight, Proc, TypeOK, PcOK, NodeByPhase, DependencyOrder,
       lockVars, nodeVars, noticeVars, mailVars, timeVars, Go, Release,
       NotifyFails
  <1>17. ASSUME NEW p \in Proc, Crash(p)
       PROVE  DependencyOrder'
    BY <1>17, TaskAssumption, WorldAssumption DEF OneOwner, Inside, Orphans,
       LockFree, InFlight, Proc, TypeOK, PcOK, NodeByPhase, DependencyOrder,
       lockVars, nodeVars, noticeVars, mailVars, timeVars, Go, Release, Crash
  <1>18. ASSUME NEW n \in Node, ExecuteNode(n)
       PROVE  DependencyOrder'
    BY <1>18, TaskAssumption, WorldAssumption DEF OneOwner, Inside, Orphans,
       LockFree, InFlight, Proc, TypeOK, PcOK, NodeByPhase, DependencyOrder,
       lockVars, nodeVars, noticeVars, mailVars, timeVars, Go, Release,
       ExecuteNode, StartNode, WorkEnds, InTime, WorkCut, CheckEnds, CheckCut, Settle, Return,
       RetryOrFail
  <1>19. ASSUME NEW n \in Node, OrphanExits(n)
       PROVE  DependencyOrder'
    BY <1>19, TaskAssumption, WorldAssumption DEF OneOwner, Inside, Orphans,
       LockFree, InFlight, Proc, TypeOK, PcOK, NodeByPhase, DependencyOrder,
       lockVars, nodeVars, noticeVars, mailVars, timeVars, Go, Release,
       OrphanExits
  <1>20. ASSUME NEW n \in Node, LooseExits(n)
       PROVE  DependencyOrder'
    BY <1>20, TaskAssumption, WorldAssumption DEF OneOwner, Inside, Orphans,
       LockFree, InFlight, Proc, TypeOK, PcOK, NodeByPhase, DependencyOrder,
       lockVars, nodeVars, noticeVars, mailVars, timeVars, Go, Release,
       LooseExits
  <1>21. ASSUME NEW n \in Node, WaitDeadline(n)
       PROVE  DependencyOrder'
    BY <1>21, TaskAssumption, WorldAssumption DEF OneOwner, Inside, Orphans,
       LockFree, InFlight, Proc, TypeOK, PcOK, NodeByPhase, DependencyOrder,
       lockVars, nodeVars, noticeVars, mailVars, timeVars, Go, Release,
       WaitDeadline
  <1>22. ASSUME NEW s \in Signal, SignalRun(s) \/ NotifyRun(s)
       PROVE  DependencyOrder'
    BY <1>22, TaskAssumption, WorldAssumption DEF OneOwner, Inside, Orphans,
       LockFree, InFlight, Proc, TypeOK, PcOK, NodeByPhase, DependencyOrder,
       lockVars, nodeVars, noticeVars, mailVars, timeVars, Go, Release,
       SignalRun, NotifyRun, Deliver
  <1>23. CASE RunDeadline
    BY <1>23, TaskAssumption, WorldAssumption DEF OneOwner, Inside, Orphans,
       LockFree, InFlight, Proc, TypeOK, PcOK, NodeByPhase, DependencyOrder,
       lockVars, nodeVars, noticeVars, mailVars, timeVars, Go, Release,
       RunDeadline
  <1>24. ASSUME NEW n \in Node, NodeFails(n)
       PROVE  DependencyOrder'
    BY <1>24, FailedNode, TaskAssumption, WorldAssumption DEF OneOwner, Inside, Orphans,
       LockFree, InFlight, Proc, TypeOK, PcOK, NodeByPhase, DependencyOrder,
       lockVars, nodeVars, noticeVars, mailVars, timeVars, Go, Release
  <1> QED
    BY <1>1, <1>2, <1>3, <1>4, <1>5, <1>6, <1>7, <1>8, <1>9, <1>10, <1>11,
       <1>12, <1>13, <1>14, <1>15, <1>16, <1>17, <1>18, <1>19, <1>20, <1>21,
       <1>22, <1>23, <1>24
       DEF Next, BeatStep, CancelStep, Proc, Choose

\* A wave that holds a writer holds nothing else.
LEMMA NextWriterAlone ==
  ASSUME TypeOK, OneOwner, WriterAlone, [Next]_vars
  PROVE  WriterAlone'
  <1>1. CASE UNCHANGED vars
    BY <1>1 DEF OneOwner, Inside, Orphans, LockFree, InFlight, Proc, TypeOK,
       PcOK, WriterAlone, vars, lockVars, nodeVars, noticeVars, mailVars,
       timeVars
  <1>2. ASSUME NEW d \in Driver, BeatBegin(d)
       PROVE  WriterAlone'
    BY <1>2, TaskAssumption, WorldAssumption DEF OneOwner, Inside, Orphans,
       LockFree, InFlight, Proc, TypeOK, PcOK, WriterAlone, lockVars, nodeVars,
       noticeVars, mailVars, timeVars, Go, Release, BeatBegin, BeatTerminal,
       BeatCancelled, BeatExpired, BeatRun, Reset
  <1>3. ASSUME NEW d \in Driver, Ingest(d)
       PROVE  WriterAlone'
    BY <1>3, TaskAssumption, WorldAssumption DEF OneOwner, Inside, Orphans,
       LockFree, InFlight, Proc, TypeOK, PcOK, WriterAlone, lockVars, nodeVars,
       noticeVars, mailVars, timeVars, Go, Release, Ingest, IngestRecover,
       IngestClaim, IngestRecord, IngestAck, IngestDone, IngestReject, Unwind
  <1>4. ASSUME NEW d \in Driver, AdvanceWaits(d)
       PROVE  WriterAlone'
    BY <1>4, TaskAssumption, WorldAssumption DEF OneOwner, Inside, Orphans,
       LockFree, InFlight, Proc, TypeOK, PcOK, WriterAlone, lockVars, nodeVars,
       noticeVars, mailVars, timeVars, Go, Release, AdvanceWaits, WaitResult
  <1>5. ASSUME NEW d \in Driver, ChooseTerminal(d)
       PROVE  WriterAlone'
    BY <1>5, TaskAssumption, WorldAssumption DEF OneOwner, Inside, Orphans,
       LockFree, InFlight, Proc, TypeOK, PcOK, WriterAlone, lockVars, nodeVars,
       noticeVars, mailVars, timeVars, Go, Release, ChooseTerminal,
       TerminalStatuses
  <1>6. ASSUME NEW d \in Driver, ChooseNothing(d)
       PROVE  WriterAlone'
    BY <1>6, TaskAssumption, WorldAssumption DEF OneOwner, Inside, Orphans,
       LockFree, InFlight, Proc, TypeOK, PcOK, WriterAlone, lockVars, nodeVars,
       noticeVars, mailVars, timeVars, Go, Release, ChooseNothing
  <1>7. ASSUME NEW d \in Driver, ChooseWave(d)
       PROVE  WriterAlone'
    BY <1>7, NoPhase, WriterWave, TaskAssumption, WorldAssumption DEF TypeOK,
       WriterAlone, Runnable, ChooseWave
  <1>8. ASSUME NEW d \in Driver, Finish(d)
       PROVE  WriterAlone'
    BY <1>8, TaskAssumption, WorldAssumption DEF OneOwner, Inside, Orphans,
       LockFree, InFlight, Proc, TypeOK, PcOK, WriterAlone, lockVars, nodeVars,
       noticeVars, mailVars, timeVars, Go, Release, Finish, FinishCancelled,
       FinishInterrupted, FinishExpired, FinishTerminal, FinishWave, WaveOver,
       Unwind, TerminalStatuses, RestingStatus
  <1>9. ASSUME NEW p \in Proc, Notify(p)
       PROVE  WriterAlone'
    BY <1>9, TaskAssumption, WorldAssumption DEF OneOwner, Inside, Orphans,
       LockFree, InFlight, Proc, TypeOK, PcOK, WriterAlone, lockVars, nodeVars,
       noticeVars, mailVars, timeVars, Go, Release, Notify, NotifySkip,
       NotifyPut, NotifyReceipt
  <1>10. ASSUME NEW d \in Driver, HostStop(d)
       PROVE  WriterAlone'
    BY <1>10, TaskAssumption, WorldAssumption DEF OneOwner, Inside, Orphans,
       LockFree, InFlight, Proc, TypeOK, PcOK, WriterAlone, lockVars, nodeVars,
       noticeVars, mailVars, timeVars, Go, Release, HostStop
  <1>11. ASSUME NEW d \in Driver, BeatFails(d)
       PROVE  WriterAlone'
    BY <1>11, TaskAssumption, WorldAssumption DEF OneOwner, Inside, Orphans,
       LockFree, InFlight, Proc, TypeOK, PcOK, WriterAlone, lockVars, nodeVars,
       noticeVars, mailVars, timeVars, Go, Release, BeatFails, WaveOver, Unwind
  <1>12. ASSUME NEW c \in Canceller, CancelCheck(c)
       PROVE  WriterAlone'
    BY <1>12, TaskAssumption, WorldAssumption DEF OneOwner, Inside, Orphans,
       LockFree, InFlight, Proc, TypeOK, PcOK, WriterAlone, lockVars, nodeVars,
       noticeVars, mailVars, timeVars, Go, Release, CancelCheck
  <1>13. ASSUME NEW c \in Canceller, CancelMark(c)
       PROVE  WriterAlone'
    BY <1>13, TaskAssumption, WorldAssumption DEF OneOwner, Inside, Orphans,
       LockFree, InFlight, Proc, TypeOK, PcOK, WriterAlone, lockVars, nodeVars,
       noticeVars, mailVars, timeVars, Go, Release, CancelMark
  <1>14. ASSUME NEW c \in Canceller, CancelTooLate(c)
       PROVE  WriterAlone'
    BY <1>14, TaskAssumption, WorldAssumption DEF OneOwner, Inside, Orphans,
       LockFree, InFlight, Proc, TypeOK, PcOK, WriterAlone, lockVars, nodeVars,
       noticeVars, mailVars, timeVars, Go, Release, CancelTooLate
  <1>15. ASSUME NEW c \in Canceller, CancelLocked(c)
       PROVE  WriterAlone'
    BY <1>15, TaskAssumption, WorldAssumption DEF OneOwner, Inside, Orphans,
       LockFree, InFlight, Proc, TypeOK, PcOK, WriterAlone, lockVars, nodeVars,
       noticeVars, mailVars, timeVars, Go, Release, CancelLocked
  <1>16. ASSUME NEW p \in Proc, NotifyFails(p)
       PROVE  WriterAlone'
    BY <1>16, TaskAssumption, WorldAssumption DEF OneOwner, Inside, Orphans,
       LockFree, InFlight, Proc, TypeOK, PcOK, WriterAlone, lockVars, nodeVars,
       noticeVars, mailVars, timeVars, Go, Release, NotifyFails
  <1>17. ASSUME NEW p \in Proc, Crash(p)
       PROVE  WriterAlone'
    BY <1>17, TaskAssumption, WorldAssumption DEF OneOwner, Inside, Orphans,
       LockFree, InFlight, Proc, TypeOK, PcOK, WriterAlone, lockVars, nodeVars,
       noticeVars, mailVars, timeVars, Go, Release, Crash
  <1>18. ASSUME NEW n \in Node, ExecuteNode(n)
       PROVE  WriterAlone'
    BY <1>18, TaskAssumption, WorldAssumption DEF OneOwner, Inside, Orphans,
       LockFree, InFlight, Proc, TypeOK, PcOK, WriterAlone, lockVars, nodeVars,
       noticeVars, mailVars, timeVars, Go, Release, ExecuteNode, StartNode,
       WorkEnds, InTime, WorkCut, CheckEnds, CheckCut, Settle, Return, RetryOrFail
  <1>19. ASSUME NEW n \in Node, OrphanExits(n)
       PROVE  WriterAlone'
    BY <1>19, TaskAssumption, WorldAssumption DEF OneOwner, Inside, Orphans,
       LockFree, InFlight, Proc, TypeOK, PcOK, WriterAlone, lockVars, nodeVars,
       noticeVars, mailVars, timeVars, Go, Release, OrphanExits
  <1>20. ASSUME NEW n \in Node, LooseExits(n)
       PROVE  WriterAlone'
    BY <1>20, TaskAssumption, WorldAssumption DEF OneOwner, Inside, Orphans,
       LockFree, InFlight, Proc, TypeOK, PcOK, WriterAlone, lockVars, nodeVars,
       noticeVars, mailVars, timeVars, Go, Release, LooseExits
  <1>21. ASSUME NEW n \in Node, WaitDeadline(n)
       PROVE  WriterAlone'
    BY <1>21, TaskAssumption, WorldAssumption DEF OneOwner, Inside, Orphans,
       LockFree, InFlight, Proc, TypeOK, PcOK, WriterAlone, lockVars, nodeVars,
       noticeVars, mailVars, timeVars, Go, Release, WaitDeadline
  <1>22. ASSUME NEW s \in Signal, SignalRun(s) \/ NotifyRun(s)
       PROVE  WriterAlone'
    BY <1>22, TaskAssumption, WorldAssumption DEF OneOwner, Inside, Orphans,
       LockFree, InFlight, Proc, TypeOK, PcOK, WriterAlone, lockVars, nodeVars,
       noticeVars, mailVars, timeVars, Go, Release, SignalRun, NotifyRun,
       Deliver
  <1>23. CASE RunDeadline
    BY <1>23, TaskAssumption, WorldAssumption DEF OneOwner, Inside, Orphans,
       LockFree, InFlight, Proc, TypeOK, PcOK, WriterAlone, lockVars, nodeVars,
       noticeVars, mailVars, timeVars, Go, Release, RunDeadline
  <1>24. ASSUME NEW n \in Node, NodeFails(n)
       PROVE  WriterAlone'
    BY <1>24, FailedNode, TaskAssumption, WorldAssumption DEF OneOwner, Inside, Orphans,
       LockFree, InFlight, Proc, TypeOK, PcOK, WriterAlone, lockVars, nodeVars,
       noticeVars, mailVars, timeVars, Go, Release
  <1> QED
    BY <1>1, <1>2, <1>3, <1>4, <1>5, <1>6, <1>7, <1>8, <1>9, <1>10, <1>11,
       <1>12, <1>13, <1>14, <1>15, <1>16, <1>17, <1>18, <1>19, <1>20, <1>21,
       <1>22, <1>23, <1>24
       DEF Next, BeatStep, CancelStep, Proc, Choose

\* What a beat remembers of its nodes follows their files and processes.
LEMMA NextMemoryByPc ==
  ASSUME TypeOK, OneOwner, StatusByPc, NodeByPhase, MemoryByPc, [Next]_vars
  PROVE  MemoryByPc'
  <1>1. CASE UNCHANGED vars
    BY <1>1 DEF OneOwner, Inside, Orphans, LockFree, InFlight, Proc, TypeOK,
       PcOK, StatusByPc, Body, MemoryByPc, Agrees, ContextDone, Active, Terminal,
       vars, lockVars, nodeVars, noticeVars, mailVars, timeVars
  <1>2. ASSUME NEW d \in Driver, BeatBegin(d)
       PROVE  MemoryByPc'
    BY <1>2, TaskAssumption, WorldAssumption DEF OneOwner, Inside, Orphans,
       LockFree, InFlight, Proc, TypeOK, PcOK, StatusByPc, Body, MemoryByPc,
       Agrees, ContextDone, Active, Terminal, lockVars, nodeVars, noticeVars,
       mailVars, timeVars, Go, Release, BeatBegin, BeatTerminal, BeatCancelled,
       BeatExpired, BeatRun, Reset
  <1>3. ASSUME NEW d \in Driver, Ingest(d)
       PROVE  MemoryByPc'
    BY <1>3, TaskAssumption, WorldAssumption DEF OneOwner, Inside, Orphans,
       LockFree, InFlight, Proc, TypeOK, PcOK, StatusByPc, Body, MemoryByPc,
       Agrees, ContextDone, Active, Terminal, lockVars, nodeVars, noticeVars,
       mailVars, timeVars, Go, Release, Ingest, IngestRecover, IngestClaim,
       IngestRecord, IngestAck, IngestDone, IngestReject, Unwind
  <1>4. ASSUME NEW d \in Driver, AdvanceWaits(d)
       PROVE  MemoryByPc'
    <2>1. /\ status' = "running" /\ states' = node'
          /\ \A p \in Proc : pc'[p] # "wave"
      BY <1>4 DEF AdvanceWaits, StatusByPc, Body, Proc, OneOwner, Inside, TypeOK, PcOK, Go
    <2>2. \A n \in Node : Agrees(n) /\ node[n] = states[n]
      BY <1>4 DEF AdvanceWaits, MemoryByPc, Body, Proc
    <2>3. \A n \in Node : Agrees(n)'
      BY <1>4, <2>1, <2>2 DEF AdvanceWaits, WaitResult, Agrees, Reset
    <2> QED
      BY <2>1, <2>3 DEF MemoryByPc, Body
  <1>5. ASSUME NEW d \in Driver, ChooseTerminal(d)
       PROVE  MemoryByPc'
    BY <1>5, TaskAssumption, WorldAssumption DEF OneOwner, Inside, Orphans,
       LockFree, InFlight, Proc, TypeOK, PcOK, StatusByPc, Body, MemoryByPc,
       Agrees, ContextDone, Active, Terminal, lockVars, nodeVars, noticeVars,
       mailVars, timeVars, Go, Release, ChooseTerminal, TerminalStatuses
  <1>6. ASSUME NEW d \in Driver, ChooseNothing(d)
       PROVE  MemoryByPc'
    BY <1>6, NoPhase, TaskAssumption, WorldAssumption DEF OneOwner, Inside,
       Orphans, LockFree, InFlight, Proc, TypeOK, PcOK, StatusByPc, Body,
       MemoryByPc, Agrees, ContextDone, Active, Terminal, lockVars, nodeVars,
       noticeVars, mailVars, timeVars, Go, Release, ChooseNothing
  <1>7. ASSUME NEW d \in Driver, ChooseWave(d)
       PROVE  MemoryByPc'
    <2>1. /\ status = "running" /\ status' = "running"
          /\ \A n \in Node : Agrees(n) /\ node[n] = states[n]
      BY <1>7 DEF ChooseWave, StatusByPc, MemoryByPc, Body, Proc
    <2>2. \A n \in Node : Agrees(n)' /\ (phase'[n] = "starting" => states'[n] = "pending")
      BY <1>7, <2>1, ChosenWave DEF Agrees, Reset, Runnable
    <2>3. \A n \in Node : phase'[n] \in {"off", "starting"}
      BY <1>7, ChosenWave
    <2>4. \A p \in Proc : pc'[p] \in Body => pc'[p] = "wave"
      BY <1>7 DEF ChooseWave, OneOwner, Inside, TypeOK, PcOK, Proc, Body, Go
    <2> QED
      BY <2>1, <2>2, <2>3, <2>4 DEF MemoryByPc, InFlight
  <1>8. ASSUME NEW d \in Driver, Finish(d)
       PROVE  MemoryByPc'
    <2>1. /\ pc[d] = "wave" /\ UNCHANGED <<node, states>>
          /\ pc'[d] \in {"idle", "notify"}
          /\ \A p \in Proc \ {d} : pc[p] \notin Body /\ pc'[p] = pc[p]
      BY <1>8 DEF Finish, FinishCancelled, FinishInterrupted, FinishExpired,
         FinishTerminal, FinishWave, WaveOver, Unwind, Release, Go, nodeVars,
         OneOwner, Inside, TypeOK, PcOK, Proc, Body
    <2>2. \A p \in Proc : pc'[p] \notin Body
      BY <2>1 DEF Body
    <2>3. CASE FinishWave(d)
      <3>1. ~ContextDone /\ \A n \in Node : states[n] # "failed"
        BY <2>3, <2>1 DEF FinishWave, TerminalStatuses, ContextDone, OneOwner, Inside, Proc
      <3>2. \A n \in Node : Agrees(n)
        BY <2>3, <2>1, <3>1 DEF FinishWave, WaveOver, MemoryByPc, Proc
      <3> QED
        BY <2>1, <2>2, <3>2 DEF MemoryByPc, Agrees, Body
    <2>4. CASE ~FinishWave(d)
      <3>1. status' \notin {"ready", "waiting"}
        BY <1>8, <2>4 DEF Finish, FinishCancelled, FinishInterrupted, FinishExpired,
           FinishTerminal, TerminalStatuses, Unwind
      <3> QED
        BY <2>2, <3>1 DEF MemoryByPc, Body
    <2> QED
      BY <2>3, <2>4
  <1>9. ASSUME NEW p \in Proc, Notify(p)
       PROVE  MemoryByPc'
    BY <1>9, TaskAssumption, WorldAssumption DEF OneOwner, Inside, Orphans,
       LockFree, InFlight, Proc, TypeOK, PcOK, StatusByPc, Body, MemoryByPc,
       Agrees, ContextDone, Active, Terminal, lockVars, nodeVars, noticeVars,
       mailVars, timeVars, Go, Release, Notify, NotifySkip, NotifyPut,
       NotifyReceipt
  <1>10. ASSUME NEW d \in Driver, HostStop(d)
       PROVE  MemoryByPc'
    BY <1>10, TaskAssumption, WorldAssumption DEF OneOwner, Inside, Orphans,
       LockFree, InFlight, Proc, TypeOK, PcOK, StatusByPc, Body, MemoryByPc,
       Agrees, ContextDone, Active, Terminal, lockVars, nodeVars, noticeVars,
       mailVars, timeVars, Go, Release, HostStop
  <1>11. ASSUME NEW d \in Driver, BeatFails(d)
       PROVE  MemoryByPc'
    BY <1>11, TaskAssumption, WorldAssumption DEF OneOwner, Inside, Orphans,
       LockFree, InFlight, Proc, TypeOK, PcOK, StatusByPc, Body, MemoryByPc,
       Agrees, ContextDone, Active, Terminal, lockVars, nodeVars, noticeVars,
       mailVars, timeVars, Go, Release, BeatFails, WaveOver, Unwind
  <1>12. ASSUME NEW c \in Canceller, CancelCheck(c)
       PROVE  MemoryByPc'
    BY <1>12, TaskAssumption, WorldAssumption DEF OneOwner, Inside, Orphans,
       LockFree, InFlight, Proc, TypeOK, PcOK, StatusByPc, Body, MemoryByPc,
       Agrees, ContextDone, Active, Terminal, lockVars, nodeVars, noticeVars,
       mailVars, timeVars, Go, Release, CancelCheck
  <1>13. ASSUME NEW c \in Canceller, CancelMark(c)
       PROVE  MemoryByPc'
    BY <1>13, TaskAssumption, WorldAssumption DEF OneOwner, Inside, Orphans,
       LockFree, InFlight, Proc, TypeOK, PcOK, StatusByPc, Body, MemoryByPc,
       Agrees, ContextDone, Active, Terminal, lockVars, nodeVars, noticeVars,
       mailVars, timeVars, Go, Release, CancelMark
  <1>14. ASSUME NEW c \in Canceller, CancelTooLate(c)
       PROVE  MemoryByPc'
    BY <1>14, TaskAssumption, WorldAssumption DEF OneOwner, Inside, Orphans,
       LockFree, InFlight, Proc, TypeOK, PcOK, StatusByPc, Body, MemoryByPc,
       Agrees, ContextDone, Active, Terminal, lockVars, nodeVars, noticeVars,
       mailVars, timeVars, Go, Release, CancelTooLate
  <1>15. ASSUME NEW c \in Canceller, CancelLocked(c)
       PROVE  MemoryByPc'
    BY <1>15, TaskAssumption, WorldAssumption DEF OneOwner, Inside, Orphans,
       LockFree, InFlight, Proc, TypeOK, PcOK, StatusByPc, Body, MemoryByPc,
       Agrees, ContextDone, Active, Terminal, lockVars, nodeVars, noticeVars,
       mailVars, timeVars, Go, Release, CancelLocked
  <1>16. ASSUME NEW p \in Proc, NotifyFails(p)
       PROVE  MemoryByPc'
    BY SMTT(30), <1>16, TaskAssumption, WorldAssumption DEF OneOwner, Inside, Orphans,
       LockFree, InFlight, Proc, TypeOK, PcOK, StatusByPc, Body, MemoryByPc,
       Agrees, ContextDone, Active, Terminal, lockVars, nodeVars, noticeVars,
       mailVars, timeVars, Go, Release, NotifyFails
  <1>17. ASSUME NEW p \in Proc, Crash(p)
       PROVE  MemoryByPc'
    BY SMTT(30), <1>17, TaskAssumption, WorldAssumption DEF OneOwner, Inside, Orphans,
       LockFree, InFlight, Proc, TypeOK, PcOK, StatusByPc, Body, MemoryByPc,
       Agrees, ContextDone, Active, Terminal, lockVars, nodeVars, noticeVars,
       mailVars, timeVars, Go, Release, Crash
  <1>18. ASSUME NEW n \in Node, ExecuteNode(n)
       PROVE  MemoryByPc'
    <2>1. /\ phase[n] \in InFlight /\ owner \in Driver /\ pc[owner] = "wave"
          /\ status = "running" /\ UNCHANGED <<status, pc>>
      BY <1>18 DEF ExecuteNode, StartNode, WorkEnds, WorkCut, CheckEnds, CheckCut,
         OneOwner, InFlight, lockVars, StatusByPc, Body, Proc
    <2>2. \A p \in Proc : pc[p] \in Body => p = owner
      BY DEF OneOwner, Inside, Body
    <2>3. \A m \in Node \ {n} : phase'[m] = phase[m] /\ node'[m] = node[m]
                               /\ states'[m] = states[m]
      BY <1>18 DEF ExecuteNode, StartNode, WorkEnds, WorkCut, CheckEnds, CheckCut,
         Settle, Return, TypeOK
    <2>4. ContextDone' = ContextDone
      BY <1>18 DEF ExecuteNode, StartNode, WorkEnds, WorkCut, CheckEnds, CheckCut,
         ContextDone, timeVars, lockVars
    <2>5. IF phase'[n] \in InFlight THEN states'[n] = "pending"
          ELSE Agrees(n)' \/ (states'[n] = "interrupted" /\ ContextDone)
      BY <1>18, <2>1 DEF ExecuteNode, StartNode, WorkEnds, WorkCut, CheckEnds, CheckCut,
         Settle, Return, RetryOrFail, Agrees, Reset, InFlight, TypeOK, MemoryByPc, Proc
    <2> QED
      BY <2>1, <2>2, <2>3, <2>4, <2>5 DEF MemoryByPc, Agrees, Proc
  <1>19. ASSUME NEW n \in Node, OrphanExits(n)
       PROVE  MemoryByPc'
    BY <1>19, TaskAssumption, WorldAssumption DEF OneOwner, Inside, Orphans,
       LockFree, InFlight, Proc, TypeOK, PcOK, StatusByPc, Body, MemoryByPc,
       Agrees, ContextDone, Active, Terminal, lockVars, nodeVars, noticeVars,
       mailVars, timeVars, Go, Release, OrphanExits
  <1>20. ASSUME NEW n \in Node, LooseExits(n)
       PROVE  MemoryByPc'
    BY <1>20, TaskAssumption, WorldAssumption DEF OneOwner, Inside, Orphans,
       LockFree, InFlight, Proc, TypeOK, PcOK, StatusByPc, Body, MemoryByPc,
       Agrees, ContextDone, Active, Terminal, lockVars, nodeVars, noticeVars,
       mailVars, timeVars, Go, Release, LooseExits
  <1>21. ASSUME NEW n \in Node, WaitDeadline(n)
       PROVE  MemoryByPc'
    BY <1>21, TaskAssumption, WorldAssumption DEF OneOwner, Inside, Orphans,
       LockFree, InFlight, Proc, TypeOK, PcOK, StatusByPc, Body, MemoryByPc,
       Agrees, ContextDone, Active, Terminal, lockVars, nodeVars, noticeVars,
       mailVars, timeVars, Go, Release, WaitDeadline
  <1>22. ASSUME NEW s \in Signal, SignalRun(s) \/ NotifyRun(s)
       PROVE  MemoryByPc'
    BY <1>22, TaskAssumption, WorldAssumption DEF OneOwner, Inside, Orphans,
       LockFree, InFlight, Proc, TypeOK, PcOK, StatusByPc, Body, MemoryByPc,
       Agrees, ContextDone, Active, Terminal, lockVars, nodeVars, noticeVars,
       mailVars, timeVars, Go, Release, SignalRun, NotifyRun, Deliver
  <1>23. CASE RunDeadline
    BY <1>23, TaskAssumption, WorldAssumption DEF OneOwner, Inside, Orphans,
       LockFree, InFlight, Proc, TypeOK, PcOK, StatusByPc, Body, MemoryByPc,
       Agrees, ContextDone, Active, Terminal, lockVars, nodeVars, noticeVars,
       mailVars, timeVars, Go, Release, RunDeadline
  <1>24. ASSUME NEW n \in Node, NodeFails(n)
       PROVE  MemoryByPc'
    <2>1. /\ phase[n] \in InFlight /\ owner \in Driver /\ pc[owner] = "wave"
          /\ status = "running" /\ UNCHANGED <<status, pc>>
      BY <1>24, FailedNode DEF OneOwner, StatusByPc, Body, Proc
    <2>2. \A p \in Proc : pc[p] \in Body => p = owner
      BY DEF OneOwner, Inside, Body
    <2>3. \A m \in Node \ {n} : phase'[m] = phase[m] /\ node'[m] = node[m]
                               /\ states'[m] = states[m]
      BY <1>24, FailedNode DEF TypeOK
    <2>4. ContextDone' = ContextDone
      BY <1>24, FailedNode DEF ContextDone
    <2>5. /\ phase'[n] \notin InFlight
          /\ Agrees(n)' \/ states'[n] = "failed" \/ (states'[n] = "interrupted" /\ ContextDone)
      BY <1>24, FailedNode DEF NodeByPhase, Agrees, Reset, InFlight, TypeOK
    <2> QED
      BY <2>1, <2>2, <2>3, <2>4, <2>5 DEF MemoryByPc, Agrees, Proc
  <1> QED
    BY <1>1, <1>2, <1>3, <1>4, <1>5, <1>6, <1>7, <1>8, <1>9, <1>10, <1>11,
       <1>12, <1>13, <1>14, <1>15, <1>16, <1>17, <1>18, <1>19, <1>20, <1>21,
       <1>22, <1>23, <1>24
       DEF Next, BeatStep, CancelStep, Proc, Choose

\* A stop signal is charged to the beat it reaches.
LEMMA NextStopsOwner ==
  ASSUME TypeOK, OneOwner, StopsOwner, [Next]_vars
  PROVE  StopsOwner'
  <1>1. CASE UNCHANGED vars
    BY <1>1 DEF OneOwner, Inside, Orphans, LockFree, InFlight, Proc, TypeOK,
       PcOK, BeatPc, StopsOwner, vars, lockVars, nodeVars, noticeVars,
       mailVars, timeVars
  <1>2. ASSUME NEW d \in Driver, BeatBegin(d)
       PROVE  StopsOwner'
    BY <1>2, WorldAssumption DEF OneOwner, Inside, Orphans, LockFree, InFlight,
       Proc, TypeOK, PcOK, BeatPc, StopsOwner, lockVars, nodeVars, noticeVars,
       mailVars, timeVars, Go, Release, BeatBegin, BeatTerminal, BeatCancelled,
       BeatExpired, BeatRun
  <1>3. ASSUME NEW d \in Driver, Ingest(d)
       PROVE  StopsOwner'
    BY <1>3, WorldAssumption DEF OneOwner, Inside, Orphans, LockFree, InFlight,
       Proc, TypeOK, PcOK, BeatPc, StopsOwner, lockVars, nodeVars, noticeVars,
       mailVars, timeVars, Go, Release, Ingest, IngestRecover, IngestClaim,
       IngestRecord, IngestAck, IngestDone, IngestReject, Unwind
  <1>4. ASSUME NEW d \in Driver, AdvanceWaits(d)
       PROVE  StopsOwner'
    BY <1>4, WorldAssumption DEF OneOwner, Inside, Orphans, LockFree, InFlight,
       Proc, TypeOK, PcOK, BeatPc, StopsOwner, lockVars, nodeVars, noticeVars,
       mailVars, timeVars, Go, Release, AdvanceWaits
  <1>5. ASSUME NEW d \in Driver, Choose(d)
       PROVE  StopsOwner'
    BY <1>5, WorldAssumption DEF OneOwner, Inside, Orphans, LockFree, InFlight,
       Proc, TypeOK, PcOK, BeatPc, StopsOwner, lockVars, nodeVars, noticeVars,
       mailVars, timeVars, Go, Release, Choose, ChooseTerminal, ChooseNothing,
       ChooseWave
  <1>6. ASSUME NEW d \in Driver, Finish(d)
       PROVE  StopsOwner'
    BY <1>6, WorldAssumption DEF OneOwner, Inside, Orphans, LockFree, InFlight,
       Proc, TypeOK, PcOK, BeatPc, StopsOwner, lockVars, nodeVars, noticeVars,
       mailVars, timeVars, Go, Release, Finish, FinishCancelled,
       FinishInterrupted, FinishExpired, FinishTerminal, FinishWave, WaveOver,
       Unwind
  <1>7. ASSUME NEW p \in Proc, Notify(p)
       PROVE  StopsOwner'
    BY <1>7, WorldAssumption DEF OneOwner, Inside, Orphans, LockFree, InFlight,
       Proc, TypeOK, PcOK, BeatPc, StopsOwner, lockVars, nodeVars, noticeVars,
       mailVars, timeVars, Go, Release, Notify, NotifySkip, NotifyPut,
       NotifyReceipt
  <1>8. ASSUME NEW d \in Driver, HostStop(d)
       PROVE  StopsOwner'
    BY <1>8, WorldAssumption DEF OneOwner, Inside, Orphans, LockFree, InFlight,
       Proc, TypeOK, PcOK, BeatPc, StopsOwner, lockVars, nodeVars, noticeVars,
       mailVars, timeVars, Go, Release, HostStop
  <1>9. ASSUME NEW d \in Driver, BeatFails(d)
       PROVE  StopsOwner'
    BY <1>9, WorldAssumption DEF OneOwner, Inside, Orphans, LockFree, InFlight,
       Proc, TypeOK, PcOK, BeatPc, StopsOwner, lockVars, nodeVars, noticeVars,
       mailVars, timeVars, Go, Release, BeatFails, WaveOver, Unwind
  <1>10. ASSUME NEW c \in Canceller, CancelCheck(c)
       PROVE  StopsOwner'
    BY <1>10, WorldAssumption DEF OneOwner, Inside, Orphans, LockFree,
       InFlight, Proc, TypeOK, PcOK, BeatPc, StopsOwner, lockVars, nodeVars,
       noticeVars, mailVars, timeVars, Go, Release, CancelCheck
  <1>11. ASSUME NEW c \in Canceller, CancelMark(c)
       PROVE  StopsOwner'
    BY <1>11, WorldAssumption DEF OneOwner, Inside, Orphans, LockFree,
       InFlight, Proc, TypeOK, PcOK, BeatPc, StopsOwner, lockVars, nodeVars,
       noticeVars, mailVars, timeVars, Go, Release, CancelMark
  <1>12. ASSUME NEW c \in Canceller, CancelTooLate(c)
       PROVE  StopsOwner'
    BY <1>12, WorldAssumption DEF OneOwner, Inside, Orphans, LockFree,
       InFlight, Proc, TypeOK, PcOK, BeatPc, StopsOwner, lockVars, nodeVars,
       noticeVars, mailVars, timeVars, Go, Release, CancelTooLate
  <1>13. ASSUME NEW c \in Canceller, CancelLocked(c)
       PROVE  StopsOwner'
    BY <1>13, WorldAssumption DEF OneOwner, Inside, Orphans, LockFree,
       InFlight, Proc, TypeOK, PcOK, BeatPc, StopsOwner, lockVars, nodeVars,
       noticeVars, mailVars, timeVars, Go, Release, CancelLocked
  <1>14. ASSUME NEW p \in Proc, NotifyFails(p)
       PROVE  StopsOwner'
    BY <1>14, WorldAssumption DEF OneOwner, Inside, Orphans, LockFree,
       InFlight, Proc, TypeOK, PcOK, BeatPc, StopsOwner, lockVars, nodeVars,
       noticeVars, mailVars, timeVars, Go, Release, NotifyFails
  <1>15. ASSUME NEW p \in Proc, Crash(p)
       PROVE  StopsOwner'
    BY <1>15, WorldAssumption DEF OneOwner, Inside, Orphans, LockFree,
       InFlight, Proc, TypeOK, PcOK, BeatPc, StopsOwner, lockVars, nodeVars,
       noticeVars, mailVars, timeVars, Go, Release, Crash
  <1>16. ASSUME NEW n \in Node, ExecuteNode(n)
       PROVE  StopsOwner'
    BY <1>16, WorldAssumption DEF OneOwner, Inside, Orphans, LockFree,
       InFlight, Proc, TypeOK, PcOK, BeatPc, StopsOwner, lockVars, nodeVars,
       noticeVars, mailVars, timeVars, Go, Release, ExecuteNode, StartNode,
       WorkEnds, InTime, WorkCut, CheckEnds, CheckCut, Settle, Return
  <1>17. ASSUME NEW n \in Node, OrphanExits(n)
       PROVE  StopsOwner'
    BY <1>17, WorldAssumption DEF OneOwner, Inside, Orphans, LockFree,
       InFlight, Proc, TypeOK, PcOK, BeatPc, StopsOwner, lockVars, nodeVars,
       noticeVars, mailVars, timeVars, Go, Release, OrphanExits
  <1>18. ASSUME NEW n \in Node, LooseExits(n)
       PROVE  StopsOwner'
    BY <1>18, WorldAssumption DEF OneOwner, Inside, Orphans, LockFree,
       InFlight, Proc, TypeOK, PcOK, BeatPc, StopsOwner, lockVars, nodeVars,
       noticeVars, mailVars, timeVars, Go, Release, LooseExits
  <1>19. ASSUME NEW n \in Node, WaitDeadline(n)
       PROVE  StopsOwner'
    BY <1>19, WorldAssumption DEF OneOwner, Inside, Orphans, LockFree,
       InFlight, Proc, TypeOK, PcOK, BeatPc, StopsOwner, lockVars, nodeVars,
       noticeVars, mailVars, timeVars, Go, Release, WaitDeadline
  <1>20. ASSUME NEW s \in Signal, SignalRun(s) \/ NotifyRun(s)
       PROVE  StopsOwner'
    BY <1>20, WorldAssumption DEF OneOwner, Inside, Orphans, LockFree,
       InFlight, Proc, TypeOK, PcOK, BeatPc, StopsOwner, lockVars, nodeVars,
       noticeVars, mailVars, timeVars, Go, Release, SignalRun, NotifyRun,
       Deliver
  <1>21. CASE RunDeadline
    BY <1>21, WorldAssumption DEF OneOwner, Inside, Orphans, LockFree,
       InFlight, Proc, TypeOK, PcOK, BeatPc, StopsOwner, lockVars, nodeVars,
       noticeVars, mailVars, timeVars, Go, Release, RunDeadline
  <1>22. ASSUME NEW n \in Node, NodeFails(n)
       PROVE  StopsOwner'
    BY <1>22, FailedNode, WorldAssumption DEF OneOwner, Inside, Orphans, LockFree,
       InFlight, Proc, TypeOK, PcOK, BeatPc, StopsOwner, lockVars, nodeVars,
       noticeVars, mailVars, timeVars, Go, Release
  <1> QED
    BY <1>1, <1>2, <1>3, <1>4, <1>5, <1>6, <1>7, <1>8, <1>9, <1>10, <1>11,
       <1>12, <1>13, <1>14, <1>15, <1>16, <1>17, <1>18, <1>19, <1>20, <1>21, <1>22
       DEF Next, BeatStep, CancelStep, Proc

\* An attempt more than (max N) needs a fault that wasted one.
LEMMA NextTriesByNode ==
  ASSUME TypeOK, OneOwner, StatusByPc, MarkByPc, NodeByPhase, StopsOwner,
         TriesByNode, NEW m \in Loop, [Next]_vars
  PROVE  TriesOf(m)'
  <1>m. /\ TriesOf(m) /\ m \in Node \ Wait
        /\ MaxTries[m] \in Nat /\ tries[m] \in Nat /\ faults \in Nat
    BY TaskAssumption DEF TriesByNode, TypeOK
  <1>1. CASE UNCHANGED vars
    BY <1>1, <1>m DEF OneOwner, Inside, Orphans, LockFree, InFlight, Proc,
       TypeOK, PcOK, NodeByPhase, StatusByPc, Body, MarkByPc, StopsOwner,
       TriesOf, Charged, ContextDone, Active, Terminal, vars, lockVars,
       nodeVars, noticeVars, mailVars, timeVars
  <1>2. ASSUME NEW d \in Driver, BeatBegin(d)
       PROVE  TriesOf(m)'
    BY <1>2, <1>m, TaskAssumption, WorldAssumption DEF OneOwner, Inside,
       Orphans, LockFree, InFlight, Proc, TypeOK, PcOK, NodeByPhase,
       StatusByPc, Body, MarkByPc, StopsOwner, TriesOf, Charged, ContextDone,
       Active, Terminal, lockVars, nodeVars, noticeVars, mailVars, timeVars,
       Go, Release, BeatBegin, BeatTerminal, BeatCancelled, BeatExpired,
       BeatRun, Reset
  <1>3. ASSUME NEW d \in Driver, Ingest(d)
       PROVE  TriesOf(m)'
    BY <1>3, <1>m, TaskAssumption, WorldAssumption DEF OneOwner, Inside,
       Orphans, LockFree, InFlight, Proc, TypeOK, PcOK, NodeByPhase,
       StatusByPc, Body, MarkByPc, StopsOwner, TriesOf, Charged, ContextDone,
       Active, Terminal, lockVars, nodeVars, noticeVars, mailVars, timeVars,
       Go, Release, Ingest, IngestRecover, IngestClaim, IngestRecord,
       IngestAck, IngestDone, IngestReject, Unwind
  <1>4. ASSUME NEW d \in Driver, AdvanceWaits(d)
       PROVE  TriesOf(m)'
    BY <1>4, NoPhase, <1>m, TaskAssumption, WorldAssumption DEF OneOwner,
       Inside, Orphans, LockFree, InFlight, Proc, TypeOK, PcOK, NodeByPhase,
       StatusByPc, Body, MarkByPc, StopsOwner, TriesOf, Charged, ContextDone,
       Active, Terminal, lockVars, nodeVars, noticeVars, mailVars, timeVars,
       Go, Release, AdvanceWaits, WaitResult
  <1>5. ASSUME NEW d \in Driver, ChooseTerminal(d)
       PROVE  TriesOf(m)'
    BY <1>5, <1>m, TaskAssumption, WorldAssumption DEF OneOwner, Inside,
       Orphans, LockFree, InFlight, Proc, TypeOK, PcOK, NodeByPhase,
       StatusByPc, Body, MarkByPc, StopsOwner, TriesOf, Charged, ContextDone,
       Active, Terminal, lockVars, nodeVars, noticeVars, mailVars, timeVars,
       Go, Release, ChooseTerminal, TerminalStatuses
  <1>6. ASSUME NEW d \in Driver, ChooseNothing(d)
       PROVE  TriesOf(m)'
    BY <1>6, NoPhase, <1>m, TaskAssumption, WorldAssumption DEF OneOwner,
       Inside, Orphans, LockFree, InFlight, Proc, TypeOK, PcOK, NodeByPhase,
       StatusByPc, Body, MarkByPc, StopsOwner, TriesOf, Charged, ContextDone,
       Active, Terminal, lockVars, nodeVars, noticeVars, mailVars, timeVars,
       Go, Release, ChooseNothing
  <1>7. ASSUME NEW d \in Driver, ChooseWave(d)
       PROVE  TriesOf(m)'
    BY <1>7, ChosenWave, <1>m, TaskAssumption, WorldAssumption DEF OneOwner,
       Inside, Orphans, LockFree, InFlight, Proc, TypeOK, PcOK, NodeByPhase,
       StatusByPc, Body, MarkByPc, StopsOwner, TriesOf, Charged, ContextDone,
       Active, Terminal, lockVars, nodeVars, noticeVars, mailVars, timeVars,
       Go, Release, ChooseWave
  <1>8. ASSUME NEW d \in Driver, Finish(d)
       PROVE  TriesOf(m)'
    BY <1>8, <1>m, TaskAssumption, WorldAssumption DEF OneOwner, Inside,
       Orphans, LockFree, InFlight, Proc, TypeOK, PcOK, NodeByPhase,
       StatusByPc, Body, MarkByPc, StopsOwner, TriesOf, Charged, ContextDone,
       Active, Terminal, lockVars, nodeVars, noticeVars, mailVars, timeVars,
       Go, Release, Finish, FinishCancelled, FinishInterrupted, FinishExpired,
       FinishTerminal, FinishWave, WaveOver, Unwind, TerminalStatuses,
       RestingStatus
  <1>9. ASSUME NEW p \in Proc, Notify(p)
       PROVE  TriesOf(m)'
    BY <1>9, <1>m, TaskAssumption, WorldAssumption DEF OneOwner, Inside,
       Orphans, LockFree, InFlight, Proc, TypeOK, PcOK, NodeByPhase,
       StatusByPc, Body, MarkByPc, StopsOwner, TriesOf, Charged, ContextDone,
       Active, Terminal, lockVars, nodeVars, noticeVars, mailVars, timeVars,
       Go, Release, Notify, NotifySkip, NotifyPut, NotifyReceipt
  <1>10. ASSUME NEW d \in Driver, HostStop(d)
       PROVE  TriesOf(m)'
    BY <1>10, <1>m, TaskAssumption, WorldAssumption DEF OneOwner, Inside,
       Orphans, LockFree, InFlight, Proc, TypeOK, PcOK, NodeByPhase,
       StatusByPc, Body, MarkByPc, StopsOwner, TriesOf, Charged, ContextDone,
       Active, Terminal, lockVars, nodeVars, noticeVars, mailVars, timeVars,
       Go, Release, HostStop
  <1>11. ASSUME NEW d \in Driver, BeatFails(d)
       PROVE  TriesOf(m)'
    BY <1>11, <1>m, TaskAssumption, WorldAssumption DEF OneOwner, Inside,
       Orphans, LockFree, InFlight, Proc, TypeOK, PcOK, NodeByPhase,
       StatusByPc, Body, MarkByPc, StopsOwner, TriesOf, Charged, ContextDone,
       Active, Terminal, lockVars, nodeVars, noticeVars, mailVars, timeVars,
       Go, Release, BeatFails, WaveOver, Unwind
  <1>12. ASSUME NEW c \in Canceller, CancelCheck(c)
       PROVE  TriesOf(m)'
    BY <1>12, <1>m, TaskAssumption, WorldAssumption DEF OneOwner, Inside,
       Orphans, LockFree, InFlight, Proc, TypeOK, PcOK, NodeByPhase,
       StatusByPc, Body, MarkByPc, StopsOwner, TriesOf, Charged, ContextDone,
       Active, Terminal, lockVars, nodeVars, noticeVars, mailVars, timeVars,
       Go, Release, CancelCheck
  <1>13. ASSUME NEW c \in Canceller, CancelMark(c)
       PROVE  TriesOf(m)'
    BY <1>13, <1>m, TaskAssumption, WorldAssumption DEF OneOwner, Inside,
       Orphans, LockFree, InFlight, Proc, TypeOK, PcOK, NodeByPhase,
       StatusByPc, Body, MarkByPc, StopsOwner, TriesOf, Charged, ContextDone,
       Active, Terminal, lockVars, nodeVars, noticeVars, mailVars, timeVars,
       Go, Release, CancelMark
  <1>14. ASSUME NEW c \in Canceller, CancelTooLate(c)
       PROVE  TriesOf(m)'
    BY <1>14, <1>m, TaskAssumption, WorldAssumption DEF OneOwner, Inside,
       Orphans, LockFree, InFlight, Proc, TypeOK, PcOK, NodeByPhase,
       StatusByPc, Body, MarkByPc, StopsOwner, TriesOf, Charged, ContextDone,
       Active, Terminal, lockVars, nodeVars, noticeVars, mailVars, timeVars,
       Go, Release, CancelTooLate
  <1>15. ASSUME NEW c \in Canceller, CancelLocked(c)
       PROVE  TriesOf(m)'
    BY <1>15, <1>m, TaskAssumption, WorldAssumption DEF OneOwner, Inside,
       Orphans, LockFree, InFlight, Proc, TypeOK, PcOK, NodeByPhase,
       StatusByPc, Body, MarkByPc, StopsOwner, TriesOf, Charged, ContextDone,
       Active, Terminal, lockVars, nodeVars, noticeVars, mailVars, timeVars,
       Go, Release, CancelLocked
  <1>16. ASSUME NEW p \in Proc, NotifyFails(p)
       PROVE  TriesOf(m)'
    BY <1>16, <1>m, TaskAssumption, WorldAssumption DEF OneOwner, Inside,
       Orphans, LockFree, InFlight, Proc, TypeOK, PcOK, NodeByPhase,
       StatusByPc, Body, MarkByPc, StopsOwner, TriesOf, Charged, ContextDone,
       Active, Terminal, lockVars, nodeVars, noticeVars, mailVars, timeVars,
       Go, Release, NotifyFails
  <1>17. ASSUME NEW p \in Proc, Crash(p)
       PROVE  TriesOf(m)'
    BY <1>17, <1>m, TaskAssumption, WorldAssumption DEF OneOwner, Inside,
       Orphans, LockFree, InFlight, Proc, TypeOK, PcOK, NodeByPhase,
       StatusByPc, Body, MarkByPc, StopsOwner, TriesOf, Charged, ContextDone,
       Active, Terminal, lockVars, nodeVars, noticeVars, mailVars, timeVars,
       Go, Release, Crash
  <1>18. ASSUME NEW n \in Node, StartNode(n)
       PROVE  TriesOf(m)'
    BY <1>18, <1>m, TaskAssumption, WorldAssumption DEF OneOwner, Inside,
       Orphans, LockFree, InFlight, Proc, TypeOK, PcOK, NodeByPhase,
       StatusByPc, Body, MarkByPc, StopsOwner, TriesOf, Charged, ContextDone,
       Active, Terminal, lockVars, nodeVars, noticeVars, mailVars, timeVars,
       Go, Release, StartNode
  <1>19. ASSUME NEW n \in Node, WorkEnds(n)
       PROVE  TriesOf(m)'
    BY <1>19, <1>m, TaskAssumption, WorldAssumption DEF OneOwner, Inside,
       Orphans, LockFree, InFlight, Proc, TypeOK, PcOK, NodeByPhase,
       StatusByPc, Body, MarkByPc, StopsOwner, TriesOf, Charged, ContextDone,
       Active, Terminal, lockVars, nodeVars, noticeVars, mailVars, timeVars,
       Go, Release, WorkEnds, InTime, Settle, Return, RetryOrFail
  <1>20. ASSUME NEW n \in Node, WorkCut(n)
       PROVE  TriesOf(m)'
    BY <1>20, <1>m, TaskAssumption, WorldAssumption DEF OneOwner, Inside,
       Orphans, LockFree, InFlight, Proc, TypeOK, PcOK, NodeByPhase,
       StatusByPc, Body, MarkByPc, StopsOwner, TriesOf, Charged, ContextDone,
       Active, Terminal, lockVars, nodeVars, noticeVars, mailVars, timeVars,
       Go, Release, WorkCut, Settle, Return
  <1>21. ASSUME NEW n \in Node, CheckEnds(n)
       PROVE  TriesOf(m)'
    BY <1>21, <1>m, TaskAssumption, WorldAssumption DEF OneOwner, Inside,
       Orphans, LockFree, InFlight, Proc, TypeOK, PcOK, NodeByPhase,
       StatusByPc, Body, MarkByPc, StopsOwner, TriesOf, Charged, ContextDone,
       Active, Terminal, lockVars, nodeVars, noticeVars, mailVars, timeVars,
       Go, Release, CheckEnds, Settle, Return, RetryOrFail
  <1>22. ASSUME NEW n \in Node, CheckCut(n)
       PROVE  TriesOf(m)'
    BY <1>22, <1>m, TaskAssumption, WorldAssumption DEF OneOwner, Inside,
       Orphans, LockFree, InFlight, Proc, TypeOK, PcOK, NodeByPhase,
       StatusByPc, Body, MarkByPc, StopsOwner, TriesOf, Charged, ContextDone,
       Active, Terminal, lockVars, nodeVars, noticeVars, mailVars, timeVars,
       Go, Release, CheckCut, Settle, Return, RetryOrFail
  <1>23. ASSUME NEW n \in Node, OrphanExits(n)
       PROVE  TriesOf(m)'
    BY <1>23, <1>m, TaskAssumption, WorldAssumption DEF OneOwner, Inside,
       Orphans, LockFree, InFlight, Proc, TypeOK, PcOK, NodeByPhase,
       StatusByPc, Body, MarkByPc, StopsOwner, TriesOf, Charged, ContextDone,
       Active, Terminal, lockVars, nodeVars, noticeVars, mailVars, timeVars,
       Go, Release, OrphanExits
  <1>24. ASSUME NEW n \in Node, LooseExits(n)
       PROVE  TriesOf(m)'
    BY <1>24, <1>m, TaskAssumption, WorldAssumption DEF OneOwner, Inside,
       Orphans, LockFree, InFlight, Proc, TypeOK, PcOK, NodeByPhase,
       StatusByPc, Body, MarkByPc, StopsOwner, TriesOf, Charged, ContextDone,
       Active, Terminal, lockVars, nodeVars, noticeVars, mailVars, timeVars,
       Go, Release, LooseExits
  <1>25. ASSUME NEW n \in Node, WaitDeadline(n)
       PROVE  TriesOf(m)'
    BY <1>25, <1>m, TaskAssumption, WorldAssumption DEF OneOwner, Inside,
       Orphans, LockFree, InFlight, Proc, TypeOK, PcOK, NodeByPhase,
       StatusByPc, Body, MarkByPc, StopsOwner, TriesOf, Charged, ContextDone,
       Active, Terminal, lockVars, nodeVars, noticeVars, mailVars, timeVars,
       Go, Release, WaitDeadline
  <1>26. ASSUME NEW s \in Signal, SignalRun(s) \/ NotifyRun(s)
       PROVE  TriesOf(m)'
    BY <1>26, <1>m, TaskAssumption, WorldAssumption DEF OneOwner, Inside,
       Orphans, LockFree, InFlight, Proc, TypeOK, PcOK, NodeByPhase,
       StatusByPc, Body, MarkByPc, StopsOwner, TriesOf, Charged, ContextDone,
       Active, Terminal, lockVars, nodeVars, noticeVars, mailVars, timeVars,
       Go, Release, SignalRun, NotifyRun, Deliver
  <1>27. CASE RunDeadline
    BY <1>27, <1>m, TaskAssumption, WorldAssumption DEF OneOwner, Inside,
       Orphans, LockFree, InFlight, Proc, TypeOK, PcOK, NodeByPhase,
       StatusByPc, Body, MarkByPc, StopsOwner, TriesOf, Charged, ContextDone,
       Active, Terminal, lockVars, nodeVars, noticeVars, mailVars, timeVars,
       Go, Release, RunDeadline
  <1>28. ASSUME NEW n \in Node, NodeFails(n)
       PROVE  TriesOf(m)'
    BY <1>28, <1>m, FailedNode, WorldAssumption DEF OneOwner, InFlight, TypeOK, NodeByPhase,
       StatusByPc, Body, StopsOwner, TriesOf, Charged
  <1> QED
    BY <1>1, <1>2, <1>3, <1>4, <1>5, <1>6, <1>7, <1>8, <1>9, <1>10, <1>11,
       <1>12, <1>13, <1>14, <1>15, <1>16, <1>17, <1>18, <1>19, <1>20, <1>21,
       <1>22, <1>23, <1>24, <1>25, <1>26, <1>27, <1>28
       DEF Next, BeatStep, CancelStep, Proc, Choose, ExecuteNode

-----------------------------------------------------------------------------
(* The invariant.                                                          *)

\* The invariant holds at first,
LEMMA InitInductive == Init => Inductive
  <1> SUFFICES ASSUME Init PROVE Inductive
    OBVIOUS
  <1>1. TypeOK
    BY InitTypeOK
  <1>2. OneOwner /\ OwnerAtWork /\ StatusByPc /\ ClaimByPc /\ MarkByPc
    BY WorldAssumption
    DEF Init, OneOwner, OwnerAtWork, Inside, InFlight, StatusByPc, Body, Telling, ClaimByPc, MarkByPc, Proc
  <1>3. NoSignalLost /\ OutcomeJustified
    BY DEF Init, NoSignalLost, OutcomeJustified
  <1>4. NoticeByPc /\ NoticeTruthful
    BY WorldAssumption DEF Init, NoticeByPc, NoticeTruthful
  <1>5. NodeByPhase /\ DependencyOrder /\ WriterAlone
    BY TaskAssumption DEF Init, NodeByPhase, DependencyOrder, WriterAlone
  <1>6. MemoryByPc /\ StopsOwner
    BY DEF Init, MemoryByPc, Agrees, Reset, Body, StopsOwner
  <1>7. TriesByNode
    BY TaskAssumption DEF Init, TriesByNode, TriesOf, Charged
  <1> QED
    BY <1>1, <1>2, <1>3, <1>4, <1>5, <1>6, <1>7 DEF Inductive

\* and is kept by every step.
LEMMA NextInductive == Inductive /\ [Next]_vars => Inductive'
  <1> SUFFICES ASSUME Inductive, [Next]_vars PROVE Inductive'
    OBVIOUS
  <1> USE DEF Inductive
  <1>1. TypeOK' /\ OneOwner' /\ OwnerAtWork' /\ StatusByPc'
    BY NextTypeOK, NextOneOwner, NextOwnerAtWork, NextStatusByPc
  <1>2. ClaimByPc' /\ NoSignalLost'
    BY NextClaimByPc, NextNoSignalLost
  <1>3. MarkByPc' /\ OutcomeJustified'
    BY NextMarkByPc, NextOutcomeJustified
  <1>4. NoticeByPc' /\ NoticeTruthful'
    BY NextNoticeByPc, NextNoticeTruthful
  <1>5. NodeByPhase' /\ DependencyOrder' /\ WriterAlone'
    BY NextNodeByPhase, NextDependencyOrder, NextWriterAlone
  <1>6. MemoryByPc' /\ StopsOwner'
    BY NextMemoryByPc, NextStopsOwner
  <1>7. TriesByNode'
    <2>1. \A m \in Loop : TriesOf(m)'
      BY NextTriesByNode
    <2> QED
      BY <2>1 DEF TriesByNode
  <1> QED
    BY <1>1, <1>2, <1>3, <1>4, <1>5, <1>6, <1>7

\* Every reachable state of a run satisfies the inductive invariant.
THEOREM RunInductive == Spec => []Inductive
  BY InitInductive, NextInductive, PTL DEF Spec

-----------------------------------------------------------------------------
(* The safety properties.                                                  *)

\* Every variable keeps its type.
THEOREM TypeCorrect == Spec => []TypeOK
  <1>1. Inductive => TypeOK
    BY DEF Inductive
  <1> QED
    BY <1>1, RunInductive, PTL

\* beat.lock gives a run one execution owner, through crashes of drivers and
\* helpers that outlive them.
THEOREM ExecutionOwner == Spec => []OneOwner
  <1>1. Inductive => OneOwner
    BY DEF Inductive
  <1> QED
    BY <1>1, RunInductive, PTL

\* A writer shares the run with no other node (selectRunnable).
THEOREM WritersRunAlone == Spec => []WriterAlone
  <1>1. Inductive => WriterAlone
    BY DEF Inductive
  <1> QED
    BY <1>1, RunInductive, PTL

\* Nodes run in dependency order, whatever is reset or interrupted.
THEOREM DependenciesFirst == Spec => []DependencyOrder
  <1>1. Inductive => DependencyOrder
    BY DEF Inductive
  <1> QED
    BY <1>1, RunInductive, PTL

\* ingestSignals loses no accepted signal, wherever a beat dies.
THEOREM SignalsKept == Spec => []NoSignalLost
  <1>1. Inductive => NoSignalLost
    BY DEF Inductive
  <1> QED
    BY <1>1, RunInductive, PTL

\* "completed" and "cancelled" are what the nodes and the marker say.
THEOREM OutcomesJustified == Spec => []OutcomeJustified
  <1>1. Inductive => OutcomeJustified
    BY DEF Inductive
  <1> QED
    BY <1>1, RunInductive, PTL

\* The inbox is told the outcome and nothing else.
THEOREM NoticesTruthful == Spec => []NoticeTruthful
  <1>1. Inductive => NoticeTruthful
    BY DEF Inductive
  <1> QED
    BY <1>1, RunInductive, PTL

\* A terminal notice is repeated only because of a fault.
THEOREM NoticesFew == Spec => []FewRepeats
  <1>1. Inductive => FewRepeats
    <2> SUFFICES ASSUME Inductive, NEW t \in Terminal PROVE notices[t] <= 1 + faults
      BY DEF FewRepeats
    <2>1. notices[t] \in Nat /\ faults \in Nat
      BY WorldAssumption DEF Inductive, TypeOK
    <2> QED
      BY <2>1 DEF Inductive, NoticeByPc
  <1> QED
    BY <1>1, RunInductive, PTL

\* The next beat of a run at rest reads what the last one decided on, whichever
\* status writes failed.
THEOREM RestsClean == Spec => []RestIsClean
  <1>1. Inductive => RestIsClean
    BY DEF Inductive, MemoryByPc, Agrees, RestIsClean
  <1> QED
    BY <1>1, RunInductive, PTL

\* A loop exceeds (max N) only by attempts that faults wasted.
THEOREM LoopsBounded == Spec => []LoopBudget
  <1>1. Inductive => LoopBudget
    BY DEF Inductive, TriesByNode, TriesOf, LoopBudget
  <1> QED
    BY <1>1, RunInductive, PTL

-----------------------------------------------------------------------------
(* The action properties.                                                  *)

\* No step replaces a terminal outcome.
LEMMA StepOutcomeFinal ==
  ASSUME TypeOK, OneOwner, StatusByPc, [Next]_vars
  PROVE  (status \in Terminal => status' = status)
  <1>1. CASE UNCHANGED vars
    BY <1>1 DEF OneOwner, Inside, LockFree, Proc, TypeOK, PcOK, StatusByPc,
       Body, Telling, Active, Terminal, vars, lockVars, nodeVars, noticeVars,
       mailVars, timeVars
  <1>2. ASSUME NEW d \in Driver, BeatBegin(d)
       PROVE  (status \in Terminal => status' = status)
    BY <1>2, WorldAssumption DEF OneOwner, Inside, LockFree, Proc, TypeOK,
       PcOK, StatusByPc, Body, Telling, Active, Terminal, lockVars, nodeVars,
       noticeVars, mailVars, timeVars, Go, Release, BeatBegin, BeatTerminal,
       BeatCancelled, BeatExpired, BeatRun
  <1>3. ASSUME NEW d \in Driver, Ingest(d)
       PROVE  (status \in Terminal => status' = status)
    BY <1>3, WorldAssumption DEF OneOwner, Inside, LockFree, Proc, TypeOK,
       PcOK, StatusByPc, Body, Telling, Active, Terminal, lockVars, nodeVars,
       noticeVars, mailVars, timeVars, Go, Release, Ingest, IngestRecover,
       IngestClaim, IngestRecord, IngestAck, IngestDone, IngestReject, Unwind
  <1>4. ASSUME NEW d \in Driver, AdvanceWaits(d)
       PROVE  (status \in Terminal => status' = status)
    BY <1>4, WorldAssumption DEF OneOwner, Inside, LockFree, Proc, TypeOK,
       PcOK, StatusByPc, Body, Telling, Active, Terminal, lockVars, nodeVars,
       noticeVars, mailVars, timeVars, Go, Release, AdvanceWaits
  <1>5. ASSUME NEW d \in Driver, Choose(d)
       PROVE  (status \in Terminal => status' = status)
    BY <1>5, WorldAssumption DEF OneOwner, Inside, LockFree, Proc, TypeOK,
       PcOK, StatusByPc, Body, Telling, Active, Terminal, lockVars, nodeVars,
       noticeVars, mailVars, timeVars, Go, Release, Choose, ChooseTerminal,
       ChooseNothing, ChooseWave
  <1>6. ASSUME NEW d \in Driver, Finish(d)
       PROVE  (status \in Terminal => status' = status)
    BY <1>6, WorldAssumption DEF OneOwner, Inside, LockFree, Proc, TypeOK,
       PcOK, StatusByPc, Body, Telling, Active, Terminal, lockVars, nodeVars,
       noticeVars, mailVars, timeVars, Go, Release, Finish, FinishCancelled,
       FinishInterrupted, FinishExpired, FinishTerminal, FinishWave, WaveOver,
       Unwind
  <1>7. ASSUME NEW p \in Proc, Notify(p)
       PROVE  (status \in Terminal => status' = status)
    BY <1>7, WorldAssumption DEF OneOwner, Inside, LockFree, Proc, TypeOK,
       PcOK, StatusByPc, Body, Telling, Active, Terminal, lockVars, nodeVars,
       noticeVars, mailVars, timeVars, Go, Release, Notify, NotifySkip,
       NotifyPut, NotifyReceipt
  <1>8. ASSUME NEW d \in Driver, HostStop(d)
       PROVE  (status \in Terminal => status' = status)
    BY <1>8, WorldAssumption DEF OneOwner, Inside, LockFree, Proc, TypeOK,
       PcOK, StatusByPc, Body, Telling, Active, Terminal, lockVars, nodeVars,
       noticeVars, mailVars, timeVars, Go, Release, HostStop
  <1>9. ASSUME NEW d \in Driver, BeatFails(d)
       PROVE  (status \in Terminal => status' = status)
    BY <1>9, WorldAssumption DEF OneOwner, Inside, LockFree, Proc, TypeOK,
       PcOK, StatusByPc, Body, Telling, Active, Terminal, lockVars, nodeVars,
       noticeVars, mailVars, timeVars, Go, Release, BeatFails, WaveOver, Unwind
  <1>10. ASSUME NEW c \in Canceller, CancelCheck(c)
       PROVE  (status \in Terminal => status' = status)
    BY <1>10, WorldAssumption DEF OneOwner, Inside, LockFree, Proc, TypeOK,
       PcOK, StatusByPc, Body, Telling, Active, Terminal, lockVars, nodeVars,
       noticeVars, mailVars, timeVars, Go, Release, CancelCheck
  <1>11. ASSUME NEW c \in Canceller, CancelMark(c)
       PROVE  (status \in Terminal => status' = status)
    BY <1>11, WorldAssumption DEF OneOwner, Inside, LockFree, Proc, TypeOK,
       PcOK, StatusByPc, Body, Telling, Active, Terminal, lockVars, nodeVars,
       noticeVars, mailVars, timeVars, Go, Release, CancelMark
  <1>12. ASSUME NEW c \in Canceller, CancelTooLate(c)
       PROVE  (status \in Terminal => status' = status)
    BY <1>12, WorldAssumption DEF OneOwner, Inside, LockFree, Proc, TypeOK,
       PcOK, StatusByPc, Body, Telling, Active, Terminal, lockVars, nodeVars,
       noticeVars, mailVars, timeVars, Go, Release, CancelTooLate
  <1>13. ASSUME NEW c \in Canceller, CancelLocked(c)
       PROVE  (status \in Terminal => status' = status)
    BY <1>13, WorldAssumption DEF OneOwner, Inside, LockFree, Proc, TypeOK,
       PcOK, StatusByPc, Body, Telling, Active, Terminal, lockVars, nodeVars,
       noticeVars, mailVars, timeVars, Go, Release, CancelLocked
  <1>14. ASSUME NEW p \in Proc, NotifyFails(p)
       PROVE  (status \in Terminal => status' = status)
    BY <1>14, WorldAssumption DEF OneOwner, Inside, LockFree, Proc, TypeOK,
       PcOK, StatusByPc, Body, Telling, Active, Terminal, lockVars, nodeVars,
       noticeVars, mailVars, timeVars, Go, Release, NotifyFails
  <1>15. ASSUME NEW p \in Proc, Crash(p)
       PROVE  (status \in Terminal => status' = status)
    BY <1>15, WorldAssumption DEF OneOwner, Inside, LockFree, Proc, TypeOK,
       PcOK, StatusByPc, Body, Telling, Active, Terminal, lockVars, nodeVars,
       noticeVars, mailVars, timeVars, Go, Release, Crash
  <1>16. ASSUME NEW n \in Node, ExecuteNode(n)
       PROVE  (status \in Terminal => status' = status)
    BY <1>16, WorldAssumption DEF OneOwner, Inside, LockFree, Proc, TypeOK,
       PcOK, StatusByPc, Body, Telling, Active, Terminal, lockVars, nodeVars,
       noticeVars, mailVars, timeVars, Go, Release, ExecuteNode, StartNode,
       WorkEnds, InTime, WorkCut, CheckEnds, CheckCut, Settle, Return
  <1>17. ASSUME NEW n \in Node, OrphanExits(n)
       PROVE  (status \in Terminal => status' = status)
    BY <1>17, WorldAssumption DEF OneOwner, Inside, LockFree, Proc, TypeOK,
       PcOK, StatusByPc, Body, Telling, Active, Terminal, lockVars, nodeVars,
       noticeVars, mailVars, timeVars, Go, Release, OrphanExits
  <1>18. ASSUME NEW n \in Node, LooseExits(n)
       PROVE  (status \in Terminal => status' = status)
    BY <1>18, WorldAssumption DEF OneOwner, Inside, LockFree, Proc, TypeOK,
       PcOK, StatusByPc, Body, Telling, Active, Terminal, lockVars, nodeVars,
       noticeVars, mailVars, timeVars, Go, Release, LooseExits
  <1>19. ASSUME NEW n \in Node, WaitDeadline(n)
       PROVE  (status \in Terminal => status' = status)
    BY <1>19, WorldAssumption DEF OneOwner, Inside, LockFree, Proc, TypeOK,
       PcOK, StatusByPc, Body, Telling, Active, Terminal, lockVars, nodeVars,
       noticeVars, mailVars, timeVars, Go, Release, WaitDeadline
  <1>20. ASSUME NEW s \in Signal, SignalRun(s) \/ NotifyRun(s)
       PROVE  (status \in Terminal => status' = status)
    BY <1>20, WorldAssumption DEF OneOwner, Inside, LockFree, Proc, TypeOK,
       PcOK, StatusByPc, Body, Telling, Active, Terminal, lockVars, nodeVars,
       noticeVars, mailVars, timeVars, Go, Release, SignalRun, NotifyRun,
       Deliver
  <1>21. CASE RunDeadline
    BY <1>21, WorldAssumption DEF OneOwner, Inside, LockFree, Proc, TypeOK,
       PcOK, StatusByPc, Body, Telling, Active, Terminal, lockVars, nodeVars,
       noticeVars, mailVars, timeVars, Go, Release, RunDeadline
  <1>22. ASSUME NEW n \in Node, NodeFails(n)
       PROVE  (status \in Terminal => status' = status)
    BY <1>22, FailedNode, WorldAssumption DEF OneOwner, Inside, LockFree, Proc, TypeOK,
       PcOK, StatusByPc, Body, Telling, Active, Terminal, lockVars, nodeVars,
       noticeVars, mailVars, timeVars, Go, Release
  <1> QED
    BY <1>1, <1>2, <1>3, <1>4, <1>5, <1>6, <1>7, <1>8, <1>9, <1>10, <1>11,
       <1>12, <1>13, <1>14, <1>15, <1>16, <1>17, <1>18, <1>19, <1>20, <1>21, <1>22
       DEF Next, BeatStep, CancelStep, Proc

\* No step touches a node that passed or failed.
LEMMA StepNodeFinal ==
  ASSUME TypeOK, OneOwner, NodeByPhase, MemoryByPc, NEW m \in Node,
         node[m] \in {"passed", "failed"}, [Next]_vars
  PROVE  node'[m] = node[m] /\ tries'[m] = tries[m]
  <1>1. CASE UNCHANGED vars
    BY <1>1 DEF OneOwner, Inside, Orphans, LockFree, InFlight, Proc, TypeOK,
       PcOK, NodeByPhase, vars, lockVars, nodeVars, noticeVars, mailVars,
       timeVars
  <1>2. ASSUME NEW d \in Driver, BeatBegin(d)
       PROVE  node'[m] = node[m] /\ tries'[m] = tries[m]
    BY <1>2, TaskAssumption, WorldAssumption DEF OneOwner, Inside, Orphans,
       LockFree, InFlight, Proc, TypeOK, PcOK, NodeByPhase, lockVars, nodeVars,
       noticeVars, mailVars, timeVars, Go, Release, BeatBegin, BeatTerminal,
       BeatCancelled, BeatExpired, BeatRun, Reset
  <1>3. ASSUME NEW d \in Driver, Ingest(d)
       PROVE  node'[m] = node[m] /\ tries'[m] = tries[m]
    BY <1>3, TaskAssumption, WorldAssumption DEF OneOwner, Inside, Orphans,
       LockFree, InFlight, Proc, TypeOK, PcOK, NodeByPhase, lockVars, nodeVars,
       noticeVars, mailVars, timeVars, Go, Release, Ingest, IngestRecover,
       IngestClaim, IngestRecord, IngestAck, IngestDone, IngestReject, Unwind
  <1>4. ASSUME NEW d \in Driver, AdvanceWaits(d)
       PROVE  node'[m] = node[m] /\ tries'[m] = tries[m]
    BY <1>4, FilesRead DEF AdvanceWaits
  <1>5. ASSUME NEW d \in Driver, ChooseTerminal(d)
       PROVE  node'[m] = node[m] /\ tries'[m] = tries[m]
    BY <1>5, TaskAssumption, WorldAssumption DEF OneOwner, Inside, Orphans,
       LockFree, InFlight, Proc, TypeOK, PcOK, NodeByPhase, lockVars, nodeVars,
       noticeVars, mailVars, timeVars, Go, Release, ChooseTerminal,
       TerminalStatuses
  <1>6. ASSUME NEW d \in Driver, ChooseNothing(d)
       PROVE  node'[m] = node[m] /\ tries'[m] = tries[m]
    BY <1>6, TaskAssumption, WorldAssumption DEF OneOwner, Inside, Orphans,
       LockFree, InFlight, Proc, TypeOK, PcOK, NodeByPhase, lockVars, nodeVars,
       noticeVars, mailVars, timeVars, Go, Release, ChooseNothing
  <1>7. ASSUME NEW d \in Driver, ChooseWave(d)
       PROVE  node'[m] = node[m] /\ tries'[m] = tries[m]
    <2>1. m \notin Runnable
      BY <1>7, FilesRead DEF ChooseWave
    <2> QED
      BY <1>7, <2>1, ChosenWave DEF ChooseWave
  <1>8. ASSUME NEW d \in Driver, Finish(d)
       PROVE  node'[m] = node[m] /\ tries'[m] = tries[m]
    BY <1>8, TaskAssumption, WorldAssumption DEF OneOwner, Inside, Orphans,
       LockFree, InFlight, Proc, TypeOK, PcOK, NodeByPhase, lockVars, nodeVars,
       noticeVars, mailVars, timeVars, Go, Release, Finish, FinishCancelled,
       FinishInterrupted, FinishExpired, FinishTerminal, FinishWave, WaveOver,
       Unwind, TerminalStatuses, RestingStatus
  <1>9. ASSUME NEW p \in Proc, Notify(p)
       PROVE  node'[m] = node[m] /\ tries'[m] = tries[m]
    BY <1>9, TaskAssumption, WorldAssumption DEF OneOwner, Inside, Orphans,
       LockFree, InFlight, Proc, TypeOK, PcOK, NodeByPhase, lockVars, nodeVars,
       noticeVars, mailVars, timeVars, Go, Release, Notify, NotifySkip,
       NotifyPut, NotifyReceipt
  <1>10. ASSUME NEW d \in Driver, HostStop(d)
       PROVE  node'[m] = node[m] /\ tries'[m] = tries[m]
    BY <1>10, TaskAssumption, WorldAssumption DEF OneOwner, Inside, Orphans,
       LockFree, InFlight, Proc, TypeOK, PcOK, NodeByPhase, lockVars, nodeVars,
       noticeVars, mailVars, timeVars, Go, Release, HostStop
  <1>11. ASSUME NEW d \in Driver, BeatFails(d)
       PROVE  node'[m] = node[m] /\ tries'[m] = tries[m]
    BY <1>11, TaskAssumption, WorldAssumption DEF OneOwner, Inside, Orphans,
       LockFree, InFlight, Proc, TypeOK, PcOK, NodeByPhase, lockVars, nodeVars,
       noticeVars, mailVars, timeVars, Go, Release, BeatFails, WaveOver, Unwind
  <1>12. ASSUME NEW c \in Canceller, CancelCheck(c)
       PROVE  node'[m] = node[m] /\ tries'[m] = tries[m]
    BY <1>12, TaskAssumption, WorldAssumption DEF OneOwner, Inside, Orphans,
       LockFree, InFlight, Proc, TypeOK, PcOK, NodeByPhase, lockVars, nodeVars,
       noticeVars, mailVars, timeVars, Go, Release, CancelCheck
  <1>13. ASSUME NEW c \in Canceller, CancelMark(c)
       PROVE  node'[m] = node[m] /\ tries'[m] = tries[m]
    BY <1>13, TaskAssumption, WorldAssumption DEF OneOwner, Inside, Orphans,
       LockFree, InFlight, Proc, TypeOK, PcOK, NodeByPhase, lockVars, nodeVars,
       noticeVars, mailVars, timeVars, Go, Release, CancelMark
  <1>14. ASSUME NEW c \in Canceller, CancelTooLate(c)
       PROVE  node'[m] = node[m] /\ tries'[m] = tries[m]
    BY <1>14, TaskAssumption, WorldAssumption DEF OneOwner, Inside, Orphans,
       LockFree, InFlight, Proc, TypeOK, PcOK, NodeByPhase, lockVars, nodeVars,
       noticeVars, mailVars, timeVars, Go, Release, CancelTooLate
  <1>15. ASSUME NEW c \in Canceller, CancelLocked(c)
       PROVE  node'[m] = node[m] /\ tries'[m] = tries[m]
    BY <1>15, TaskAssumption, WorldAssumption DEF OneOwner, Inside, Orphans,
       LockFree, InFlight, Proc, TypeOK, PcOK, NodeByPhase, lockVars, nodeVars,
       noticeVars, mailVars, timeVars, Go, Release, CancelLocked
  <1>16. ASSUME NEW p \in Proc, NotifyFails(p)
       PROVE  node'[m] = node[m] /\ tries'[m] = tries[m]
    BY <1>16, TaskAssumption, WorldAssumption DEF OneOwner, Inside, Orphans,
       LockFree, InFlight, Proc, TypeOK, PcOK, NodeByPhase, lockVars, nodeVars,
       noticeVars, mailVars, timeVars, Go, Release, NotifyFails
  <1>17. ASSUME NEW p \in Proc, Crash(p)
       PROVE  node'[m] = node[m] /\ tries'[m] = tries[m]
    BY <1>17, TaskAssumption, WorldAssumption DEF OneOwner, Inside, Orphans,
       LockFree, InFlight, Proc, TypeOK, PcOK, NodeByPhase, lockVars, nodeVars,
       noticeVars, mailVars, timeVars, Go, Release, Crash
  <1>18. ASSUME NEW n \in Node, ExecuteNode(n)
       PROVE  node'[m] = node[m] /\ tries'[m] = tries[m]
    BY <1>18, TaskAssumption, WorldAssumption DEF OneOwner, Inside, Orphans,
       LockFree, InFlight, Proc, TypeOK, PcOK, NodeByPhase, lockVars, nodeVars,
       noticeVars, mailVars, timeVars, Go, Release, ExecuteNode, StartNode,
       WorkEnds, InTime, WorkCut, CheckEnds, CheckCut, Settle, Return, RetryOrFail
  <1>19. ASSUME NEW n \in Node, OrphanExits(n)
       PROVE  node'[m] = node[m] /\ tries'[m] = tries[m]
    BY <1>19, TaskAssumption, WorldAssumption DEF OneOwner, Inside, Orphans,
       LockFree, InFlight, Proc, TypeOK, PcOK, NodeByPhase, lockVars, nodeVars,
       noticeVars, mailVars, timeVars, Go, Release, OrphanExits
  <1>20. ASSUME NEW n \in Node, LooseExits(n)
       PROVE  node'[m] = node[m] /\ tries'[m] = tries[m]
    BY <1>20, TaskAssumption, WorldAssumption DEF OneOwner, Inside, Orphans,
       LockFree, InFlight, Proc, TypeOK, PcOK, NodeByPhase, lockVars, nodeVars,
       noticeVars, mailVars, timeVars, Go, Release, LooseExits
  <1>21. ASSUME NEW n \in Node, WaitDeadline(n)
       PROVE  node'[m] = node[m] /\ tries'[m] = tries[m]
    BY <1>21, TaskAssumption, WorldAssumption DEF OneOwner, Inside, Orphans,
       LockFree, InFlight, Proc, TypeOK, PcOK, NodeByPhase, lockVars, nodeVars,
       noticeVars, mailVars, timeVars, Go, Release, WaitDeadline
  <1>22. ASSUME NEW s \in Signal, SignalRun(s) \/ NotifyRun(s)
       PROVE  node'[m] = node[m] /\ tries'[m] = tries[m]
    BY <1>22, TaskAssumption, WorldAssumption DEF OneOwner, Inside, Orphans,
       LockFree, InFlight, Proc, TypeOK, PcOK, NodeByPhase, lockVars, nodeVars,
       noticeVars, mailVars, timeVars, Go, Release, SignalRun, NotifyRun,
       Deliver
  <1>23. CASE RunDeadline
    BY <1>23, TaskAssumption, WorldAssumption DEF OneOwner, Inside, Orphans,
       LockFree, InFlight, Proc, TypeOK, PcOK, NodeByPhase, lockVars, nodeVars,
       noticeVars, mailVars, timeVars, Go, Release, RunDeadline
  <1>24. ASSUME NEW n \in Node, NodeFails(n)
       PROVE  node'[m] = node[m] /\ tries'[m] = tries[m]
    BY <1>24, FailedNode, TaskAssumption, WorldAssumption DEF OneOwner, Inside, Orphans,
       LockFree, InFlight, Proc, TypeOK, PcOK, NodeByPhase, lockVars, nodeVars,
       noticeVars, mailVars, timeVars, Go, Release
  <1> QED
    BY <1>1, <1>2, <1>3, <1>4, <1>5, <1>6, <1>7, <1>8, <1>9, <1>10, <1>11,
       <1>12, <1>13, <1>14, <1>15, <1>16, <1>17, <1>18, <1>19, <1>20, <1>21,
       <1>22, <1>23, <1>24
       DEF Next, BeatStep, CancelStep, Proc, Choose

\* A terminal outcome is never replaced.
THEOREM OutcomeIsFinal == Spec => OutcomeFinal
  <1>1. Inductive /\ [Next]_vars => [(status \in Terminal) => (status' = status)]_vars
    BY StepOutcomeFinal DEF Inductive
  <1> QED
    BY <1>1, RunInductive, PTL DEF Spec, OutcomeFinal

\* A node that passed or failed is never run again.
THEOREM NodeOutcomeIsFinal == Spec => NodeOutcomeFinal
  <1> DEFINE Kept == \A n \in Node : node[n] \in {"passed", "failed"} =>
                        node'[n] = node[n] /\ tries'[n] = tries[n]
  <1>1. Inductive /\ [Next]_vars => [Kept]_vars
    BY StepNodeFinal DEF Inductive
  <1> QED
    BY <1>1, RunInductive, PTL DEF Spec, NodeOutcomeFinal

-----------------------------------------------------------------------------
(* The refinement of RunOutcome.                                           *)

Visible ==
  \/ UNCHANGED <<notices, sent, events>>
  \/ \E p \in Proc : NotifyPut(p)
  \/ \E d \in Driver : IngestRecord(d)
  \/ \E s \in Signal : Deliver(s)

\* The steps that a reader of the mailbox, ledger or inbox notices.
LEMMA NextVisible ==
  ASSUME [Next]_vars
  PROVE  Visible
  <1>1. CASE UNCHANGED vars
    BY <1>1 DEF Visible, vars, noticeVars, mailVars
  <1>2. ASSUME NEW d \in Driver, BeatBegin(d)
       PROVE  Visible
    BY <1>2 DEF Visible, noticeVars, mailVars, BeatBegin, BeatTerminal,
       BeatCancelled, BeatExpired, BeatRun
  <1>3. ASSUME NEW d \in Driver, Ingest(d)
       PROVE  Visible
    BY <1>3 DEF Visible, noticeVars, mailVars, Ingest, IngestRecover,
       IngestClaim, IngestRecord, IngestAck, IngestDone, IngestReject
  <1>4. ASSUME NEW d \in Driver, AdvanceWaits(d)
       PROVE  Visible
    BY <1>4 DEF Visible, noticeVars, mailVars, AdvanceWaits
  <1>5. ASSUME NEW d \in Driver, Choose(d)
       PROVE  Visible
    BY <1>5 DEF Visible, noticeVars, mailVars, Choose, ChooseTerminal,
       ChooseNothing, ChooseWave
  <1>6. ASSUME NEW d \in Driver, Finish(d)
       PROVE  Visible
    BY <1>6 DEF Visible, noticeVars, mailVars, Finish, FinishCancelled,
       FinishInterrupted, FinishExpired, FinishTerminal, FinishWave
  <1>7. ASSUME NEW p \in Proc, Notify(p)
       PROVE  Visible
    BY <1>7 DEF Visible, noticeVars, mailVars, Notify, NotifySkip, NotifyPut,
       NotifyReceipt
  <1>8. ASSUME NEW d \in Driver, HostStop(d)
       PROVE  Visible
    BY <1>8 DEF Visible, noticeVars, mailVars, HostStop
  <1>9. ASSUME NEW d \in Driver, BeatFails(d)
       PROVE  Visible
    BY <1>9 DEF Visible, noticeVars, mailVars, BeatFails
  <1>10. ASSUME NEW c \in Canceller, CancelCheck(c)
       PROVE  Visible
    BY <1>10 DEF Visible, noticeVars, mailVars, CancelCheck
  <1>11. ASSUME NEW c \in Canceller, CancelMark(c)
       PROVE  Visible
    BY <1>11 DEF Visible, noticeVars, mailVars, CancelMark
  <1>12. ASSUME NEW c \in Canceller, CancelTooLate(c)
       PROVE  Visible
    BY <1>12 DEF Visible, noticeVars, mailVars, CancelTooLate
  <1>13. ASSUME NEW c \in Canceller, CancelLocked(c)
       PROVE  Visible
    BY <1>13 DEF Visible, noticeVars, mailVars, CancelLocked
  <1>14. ASSUME NEW p \in Proc, NotifyFails(p)
       PROVE  Visible
    BY <1>14 DEF Visible, noticeVars, mailVars, NotifyFails
  <1>15. ASSUME NEW p \in Proc, Crash(p)
       PROVE  Visible
    BY <1>15 DEF Visible, noticeVars, mailVars, Crash
  <1>16. ASSUME NEW n \in Node, ExecuteNode(n)
       PROVE  Visible
    BY <1>16 DEF Visible, noticeVars, mailVars, ExecuteNode, StartNode,
       WorkEnds, InTime, WorkCut, CheckEnds, CheckCut
  <1>17. ASSUME NEW n \in Node, OrphanExits(n)
       PROVE  Visible
    BY <1>17 DEF Visible, noticeVars, mailVars, OrphanExits
  <1>18. ASSUME NEW n \in Node, LooseExits(n)
       PROVE  Visible
    BY <1>18 DEF Visible, noticeVars, mailVars, LooseExits
  <1>19. ASSUME NEW n \in Node, WaitDeadline(n)
       PROVE  Visible
    BY <1>19 DEF Visible, noticeVars, mailVars, WaitDeadline
  <1>20. ASSUME NEW s \in Signal, SignalRun(s) \/ NotifyRun(s)
       PROVE  Visible
    BY <1>20 DEF Visible, noticeVars, mailVars, SignalRun, NotifyRun
  <1>21. CASE RunDeadline
    BY <1>21 DEF Visible, noticeVars, mailVars, RunDeadline
  <1>22. ASSUME NEW n \in Node, NodeFails(n)
       PROVE  Visible
    BY <1>22 DEF Visible, noticeVars, mailVars, NodeFails
  <1> QED
    BY <1>1, <1>2, <1>3, <1>4, <1>5, <1>6, <1>7, <1>8, <1>9, <1>10, <1>11,
       <1>12, <1>13, <1>14, <1>15, <1>16, <1>17, <1>18, <1>19, <1>20, <1>21, <1>22
       DEF Next, BeatStep, CancelStep, Proc

\* A new run maps to a new promise.
LEMMA PromiseInit == Init => Promise!AInit
  BY DEF Init, Active, Terminal, Promise!AInit

\* A step that changes neither counters, mailbox nor ledger ends the run once,
\* or is invisible.
LEMMA PromiseEnd ==
  ASSUME TypeOK, TypeOK', UNCHANGED <<notices, sent, events>>,
         status \in Terminal => status' = status
  PROVE  [Promise!ANext]_(Promise!aVars)
  BY DEF TypeOK, Active, Terminal, Promise!ANext, Promise!End, Promise!aVars

\* Posting the terminal notice announces the outcome.
LEMMA PromiseAnnounce ==
  ASSUME TypeOK, StatusByPc, NEW p \in Proc, NotifyPut(p)
  PROVE  [Promise!ANext]_(Promise!aVars)
  <1>1. status \in Terminal /\ status' = status
    BY DEF StatusByPc, Telling, NotifyPut
  <1> QED
    BY <1>1 DEF NotifyPut, mailVars, Promise!ANext, Promise!Announce, Promise!aVars
\* A notice that reaches the mailbox is accepted.
LEMMA PromiseAccept ==
  ASSUME NEW s \in Signal, Deliver(s)
  PROVE  [Promise!ANext]_(Promise!aVars)
    BY DEF Deliver, noticeVars, Promise!ANext, Promise!Accept, Promise!aVars
\* Recording a claim records an accepted signal, or repeats a record.
LEMMA PromiseRecord ==
  ASSUME StatusByPc, ClaimByPc, NoSignalLost, NEW d \in Driver, IngestRecord(d)
  PROVE  [Promise!ANext]_(Promise!aVars)
  <1>1. status \notin Terminal /\ status' = status
    BY DEF StatusByPc, Body, Terminal, IngestRecord, Proc
  <1>2. PICK s \in Signal : procQ = {s}
    BY DEF ClaimByPc, IngestRecord
  <1>3. UNCHANGED <<notices, sent>> /\ events' = events \cup {s} /\ s \in sent
    BY <1>2 DEF IngestRecord, noticeVars, NoSignalLost
  <1> QED
    BY <1>1, <1>2, <1>3 DEF Promise!ANext, Promise!Record, Promise!aVars

\* Every step of a run maps to a step of the promise or to a stutter.
LEMMA PromiseStep ==
  ASSUME Inductive, [Next]_vars
  PROVE  [Promise!ANext]_(Promise!aVars)
  <1>1. TypeOK /\ TypeOK' /\ (status \in Terminal => status' = status)
    BY NextTypeOK, StepOutcomeFinal DEF Inductive
  <1>2. StatusByPc /\ ClaimByPc /\ NoSignalLost
    BY DEF Inductive
  <1>3. CASE UNCHANGED <<notices, sent, events>>
    BY <1>1, <1>3, PromiseEnd
  <1>4. ASSUME NEW p \in Proc, NotifyPut(p)
       PROVE  [Promise!ANext]_(Promise!aVars)
    BY <1>1, <1>2, <1>4, PromiseAnnounce
  <1>5. ASSUME NEW d \in Driver, IngestRecord(d)
       PROVE  [Promise!ANext]_(Promise!aVars)
    BY <1>2, <1>5, PromiseRecord
  <1>6. ASSUME NEW s \in Signal, Deliver(s)
       PROVE  [Promise!ANext]_(Promise!aVars)
    BY <1>6, PromiseAccept
  <1> QED
    BY <1>3, <1>4, <1>5, <1>6, NextVisible DEF Visible

\* The files, locks and beats of a run implement RunOutcome.
THEOREM RunKeepsPromise == Spec => KeepsPromise
  <1>1. Init => Promise!AInit
    BY PromiseInit
  <1>2. Inductive /\ [Next]_vars => [Promise!ANext]_(Promise!aVars)
    BY PromiseStep
  <1> QED
    BY <1>1, <1>2, RunInductive, PTL DEF Spec, KeepsPromise, Promise!ASpec
-----------------------------------------------------------------------------
(* The refinement of BeatenRun.  A step leaves the picture as it is, takes *)
(* the lock, settles the run under it or gives the lock up; the rest is    *)
(* the clock and the exit of a helper.                                     *)

\* The picture does not change.
LEMMA SeenSame ==
  ASSUME UNCHANGED <<status, receipt, owner, expired, Orphans>>
  PROVE  UNCHANGED Beaten!bVars
  BY DEF Beaten!bVars, SeenAs, Holder

\* A process gets the free lock: an overdue run is not run by it.
LEMMA SeenTake ==
  ASSUME TypeOK, NEW p \in Proc, LockFree, owner' = p,
         UNCHANGED <<receipt, expired>>,
         \/ status \in Terminal /\ status' = status
         \/ status \in Active /\ status' \in {"failed", "cancelled"}
         \/ status \in Active /\ ~expired /\ status' \in Active
  PROVE  Beaten!BNext
  <1>1. Holder = NoOne /\ Holder' = p
    BY WorldAssumption DEF Holder, LockFree
  <1>2. SeenAs # "none" /\ SeenAs' \in Beaten!AtTake(SeenAs)
    BY DEF SeenAs, Beaten!AtTake, Active, Terminal, TypeOK
  <1> QED
    BY <1>1, <1>2 DEF Beaten!BNext, Beaten!Take

\* The owner writes a terminal status.
LEMMA SeenSettle ==
  ASSUME owner \in Proc, status \in Active, status' \in Terminal,
         UNCHANGED <<receipt, owner>>
  PROVE  Beaten!BNext
  <1>1. Holder = owner /\ Holder' = owner
    BY WorldAssumption DEF Holder
  <1>2. SeenAs \in Beaten!Live /\ SeenAs' \in Beaten!Ended
    BY DEF SeenAs, Beaten!Live, Beaten!Ended, Active, Terminal
  <1> QED
    BY <1>1, <1>2 DEF Beaten!BNext, Beaten!Settle, Return

\* The owner gives the lock up, or dies and leaves it to its helpers.
LEMMA SeenGiveUp ==
  ASSUME TypeOK, owner \in Proc, owner' = NoOne,
         Orphans' = {} \/ status \in Active,
         status' = status \/ (status \in Active /\ status' \in Active),
         UNCHANGED expired,
         receipt' = receipt \/ (receipt' /\ status \in Terminal)
  PROVE  Beaten!BNext
  <1>1. Holder = owner
    BY WorldAssumption DEF Holder
  <1>2. Holder' = NoOne \/ (Holder' = "helper" /\ SeenAs \in Beaten!Live)
    BY DEF Holder, SeenAs, Beaten!Live, Active, Terminal
  <1>3. SeenAs' = SeenAs
    BY DEF SeenAs, Active, Terminal
  <1>4. receipt' = receipt \/ (SeenAs \in Beaten!Ended /\ receipt' = TRUE)
    BY DEF SeenAs, Beaten!Ended, Terminal, TypeOK
  <1> QED
    BY <1>1, <1>2, <1>3, <1>4 DEF Beaten!BNext, Beaten!GiveUp

\* A run that was just started is open and free.
LEMMA BeatenInit == Init => Beaten!BInit
  BY WorldAssumption DEF Init, Beaten!BInit, SeenAs, Holder, Orphans, Terminal

\* Every step of a run maps to a step of BeatenRun or to a stutter.
LEMMA BeatenStep ==
  ASSUME TypeOK, OneOwner, OwnerAtWork, StatusByPc, [Next]_vars
  PROVE  [Beaten!BNext]_(Beaten!bVars)
  <1>1. CASE UNCHANGED vars
    BY <1>1, SeenSame DEF vars, lockVars, nodeVars, noticeVars, timeVars,
       Orphans
  <1>2. ASSUME NEW d \in Driver, BeatBegin(d)
       PROVE  [Beaten!BNext]_(Beaten!bVars)
    <2>1. CASE BeatTerminal(d)
      <3>1. /\ LockFree /\ owner' = d /\ d \in Proc /\ UNCHANGED <<receipt, expired>>
            /\ status \in Terminal /\ status' = status
        BY <2>1 DEF BeatTerminal, Proc, noticeVars, timeVars
      <3> QED
        BY <3>1, SeenTake
    <2>2. CASE BeatCancelled(d)
      <3>1. /\ LockFree /\ owner' = d /\ d \in Proc /\ UNCHANGED <<receipt, expired>>
            /\ status \in Active /\ status' \in {"failed", "cancelled"}
        BY <2>2 DEF BeatCancelled, Proc, noticeVars, timeVars
      <3> QED
        BY <3>1, SeenTake
    <2>3. CASE BeatExpired(d)
      <3>1. /\ LockFree /\ owner' = d /\ d \in Proc /\ UNCHANGED <<receipt, expired>>
            /\ status \in Active /\ status' \in {"failed", "cancelled"}
        BY <2>3 DEF BeatExpired, Proc, noticeVars, timeVars
      <3> QED
        BY <3>1, SeenTake
    <2>4. CASE BeatRun(d)
      <3>1. /\ LockFree /\ owner' = d /\ d \in Proc /\ UNCHANGED <<receipt, expired>>
            /\ status \in Active /\ ~expired /\ status' \in Active
        BY <2>4 DEF BeatRun, Proc, Active, noticeVars, timeVars
      <3> QED
        BY <3>1, SeenTake
    <2> QED
      BY <1>2, <2>1, <2>2, <2>3, <2>4 DEF BeatBegin
  <1>3. ASSUME NEW d \in Driver, Ingest(d)
       PROVE  [Beaten!BNext]_(Beaten!bVars)
    <2>1. CASE IngestRecover(d) \/ IngestClaim(d) \/ IngestRecord(d) \/ IngestAck(d) \/ IngestDone(d)
      <3>1. UNCHANGED <<status, receipt, owner, expired, Orphans>>
        BY <2>1 DEF IngestRecover, IngestClaim, IngestRecord, IngestAck,
           IngestDone, lockVars, noticeVars, timeVars, nodeVars, Orphans, Go
      <3> QED
        BY <3>1, SeenSame
    <2>2. CASE IngestReject(d)
      <3>1. /\ owner \in Proc /\ owner' = NoOne /\ Orphans' = {} /\ UNCHANGED expired
            /\ status \in Active /\ status' \in Active /\ UNCHANGED receipt
        BY <2>2 DEF IngestReject, Release, Unwind, Go, lockVars, noticeVars,
           timeVars, nodeVars, Orphans, OneOwner, Inside, StatusByPc, Body,
           Telling, Proc, Active, Terminal
      <3> QED
        BY <3>1, SeenGiveUp
    <2> QED
      BY <1>3, <2>1, <2>2 DEF Ingest
  <1>4. ASSUME NEW d \in Driver, AdvanceWaits(d)
       PROVE  [Beaten!BNext]_(Beaten!bVars)
    BY <1>4, SeenSame DEF AdvanceWaits, lockVars, noticeVars, timeVars,
       nodeVars, Orphans, Go
  <1>5. ASSUME NEW d \in Driver, Choose(d)
       PROVE  [Beaten!BNext]_(Beaten!bVars)
    <2>1. CASE ChooseTerminal(d)
      <3>1. owner \in Proc /\ status \in Active /\ status' \in Terminal /\ UNCHANGED <<receipt, owner>>
        BY <2>1 DEF ChooseTerminal, TerminalStatuses, Go, OneOwner, Inside,
           StatusByPc, Body, Telling, Proc, Active, Terminal, noticeVars,
           lockVars, timeVars
      <3> QED
        BY <3>1, SeenSettle
    <2>2. CASE ChooseNothing(d)
      <3>1. /\ owner \in Proc /\ owner' = NoOne /\ Orphans' = {} /\ UNCHANGED expired
            /\ status \in Active /\ status' \in Active /\ UNCHANGED receipt
        BY <2>2 DEF ChooseNothing, Release, Unwind, Go, lockVars, noticeVars,
           timeVars, nodeVars, Orphans, OneOwner, Inside, StatusByPc, Body,
           Telling, Proc, Active, Terminal
      <3> QED
        BY <3>1, SeenGiveUp
    <2>3. CASE ChooseWave(d)
      <3>1. owner = d /\ Orphans = {} /\ Orphans' = {}
        BY <2>3 DEF ChooseWave, OneOwner, Inside, Proc, Orphans, TypeOK
      <3>2. UNCHANGED <<status, receipt, owner, expired>>
        BY <2>3 DEF ChooseWave, noticeVars, timeVars
      <3> QED
        BY <3>1, <3>2, SeenSame
    <2> QED
      BY <1>5, <2>1, <2>2, <2>3 DEF Choose
  <1>6. ASSUME NEW d \in Driver, Finish(d)
       PROVE  [Beaten!BNext]_(Beaten!bVars)
    <2>1. CASE FinishCancelled(d)
      <3>1. owner \in Proc /\ status \in Active /\ status' \in Terminal /\ UNCHANGED <<receipt, owner>>
        BY <2>1 DEF FinishCancelled, WaveOver, Go, OneOwner, Inside,
           StatusByPc, Body, Telling, Proc, Active, Terminal, noticeVars,
           lockVars, timeVars
      <3> QED
        BY <3>1, SeenSettle
    <2>2. CASE FinishInterrupted(d)
      <3>1. /\ owner \in Proc /\ owner' = NoOne /\ Orphans' = {} /\ UNCHANGED expired
            /\ status \in Active /\ status' \in Active /\ UNCHANGED receipt
        BY <2>2 DEF FinishInterrupted, WaveOver, Release, Unwind, Go,
           lockVars, noticeVars, timeVars, nodeVars, Orphans, OneOwner,
           Inside, StatusByPc, Body, Telling, Proc, Active, Terminal
      <3> QED
        BY <3>1, SeenGiveUp
    <2>3. CASE FinishExpired(d)
      <3>1. owner \in Proc /\ status \in Active /\ status' \in Terminal /\ UNCHANGED <<receipt, owner>>
        BY <2>3 DEF FinishExpired, WaveOver, Go, OneOwner, Inside,
           StatusByPc, Body, Telling, Proc, Active, Terminal, noticeVars,
           lockVars, timeVars
      <3> QED
        BY <3>1, SeenSettle
    <2>4. CASE FinishTerminal(d)
      <3>1. owner \in Proc /\ status \in Active /\ status' \in Terminal /\ UNCHANGED <<receipt, owner>>
        BY <2>4 DEF FinishTerminal, WaveOver, TerminalStatuses, Go, OneOwner,
           Inside, StatusByPc, Body, Telling, Proc, Active, Terminal,
           noticeVars, lockVars, timeVars
      <3> QED
        BY <3>1, SeenSettle
    <2>5. CASE FinishWave(d)
      <3>1. /\ owner \in Proc /\ owner' = NoOne /\ Orphans' = {} /\ UNCHANGED expired
            /\ status \in Active /\ status' \in Active /\ UNCHANGED receipt
        BY <2>5 DEF FinishWave, WaveOver, RestingStatus, Release, Unwind, Go,
           lockVars, noticeVars, timeVars, nodeVars, Orphans, OneOwner,
           Inside, StatusByPc, Body, Telling, Proc, Active, Terminal
      <3> QED
        BY <3>1, SeenGiveUp
    <2> QED
      BY <1>6, <2>1, <2>2, <2>3, <2>4, <2>5 DEF Finish
  <1>7. ASSUME NEW p \in Proc, Notify(p)
       PROVE  [Beaten!BNext]_(Beaten!bVars)
    <2>1. CASE NotifySkip(p)
      <3>1. /\ owner \in Proc /\ owner' = NoOne /\ Orphans' = {} /\ UNCHANGED expired
            /\ status' = status /\ (receipt' = receipt \/ (receipt' /\ status \in Terminal))
        BY <2>1 DEF NotifySkip, Release, Unwind, Go, lockVars, noticeVars,
           timeVars, nodeVars, Orphans, OneOwner, Inside, StatusByPc, Body,
           Telling, Proc, Active, Terminal
      <3> QED
        BY <3>1, SeenGiveUp
    <2>2. CASE NotifyPut(p)
      <3>1. UNCHANGED <<status, receipt, owner, expired, Orphans>>
        BY <2>2 DEF NotifyPut, lockVars, noticeVars, timeVars, nodeVars,
           Orphans, Go
      <3> QED
        BY <3>1, SeenSame
    <2>3. CASE NotifyReceipt(p)
      <3>1. /\ owner \in Proc /\ owner' = NoOne /\ Orphans' = {} /\ UNCHANGED expired
            /\ status' = status /\ (receipt' = receipt \/ (receipt' /\ status \in Terminal))
        BY <2>3 DEF NotifyReceipt, Release, Unwind, Go, lockVars, noticeVars,
           timeVars, nodeVars, Orphans, OneOwner, Inside, StatusByPc, Body,
           Telling, Proc, Active, Terminal
      <3> QED
        BY <3>1, SeenGiveUp
    <2> QED
      BY <1>7, <2>1, <2>2, <2>3 DEF Notify
  <1>8. ASSUME NEW d \in Driver, HostStop(d)
       PROVE  [Beaten!BNext]_(Beaten!bVars)
    BY <1>8, SeenSame DEF HostStop, lockVars, noticeVars, timeVars, nodeVars,
       Orphans, Go
  <1>9. ASSUME NEW d \in Driver, BeatFails(d)
       PROVE  [Beaten!BNext]_(Beaten!bVars)
    <2>1. /\ owner \in Proc /\ owner' = NoOne /\ Orphans' = {} /\ UNCHANGED expired
            /\ status \in Active /\ status' \in Active /\ UNCHANGED receipt
      BY <1>9 DEF BeatFails, WaveOver, Release, Unwind, Go, lockVars, noticeVars,
         timeVars, nodeVars, Orphans, OneOwner, Inside, StatusByPc, Body,
         Telling, Proc, Active, Terminal
    <2> QED
      BY <2>1, SeenGiveUp
  <1>10. ASSUME NEW c \in Canceller, CancelCheck(c)
       PROVE  [Beaten!BNext]_(Beaten!bVars)
    BY <1>10, SeenSame DEF CancelCheck, lockVars, noticeVars, timeVars, nodeVars,
       Orphans, Go
  <1>11. ASSUME NEW c \in Canceller, CancelMark(c)
       PROVE  [Beaten!BNext]_(Beaten!bVars)
    BY <1>11, SeenSame DEF CancelMark, lockVars, noticeVars, timeVars, nodeVars,
       Orphans, Go
  <1>12. ASSUME NEW c \in Canceller, CancelTooLate(c)
       PROVE  [Beaten!BNext]_(Beaten!bVars)
    BY <1>12, SeenSame DEF CancelTooLate, lockVars, noticeVars, timeVars,
       nodeVars, Orphans, Go
  <1>13. ASSUME NEW c \in Canceller, CancelLocked(c)
       PROVE  [Beaten!BNext]_(Beaten!bVars)
    <2>1. /\ LockFree /\ owner' = c /\ c \in Proc /\ UNCHANGED <<receipt, expired>>
            /\ \/ status \in Terminal /\ status' = status
               \/ status \in Active /\ status' \in {"failed", "cancelled"}
      BY <1>13 DEF CancelLocked, TypeOK, Proc, Active, Terminal, noticeVars,
         timeVars
    <2> QED
      BY <2>1, SeenTake
  <1>14. ASSUME NEW p \in Proc, NotifyFails(p)
       PROVE  [Beaten!BNext]_(Beaten!bVars)
    <2>1. /\ owner \in Proc /\ owner' = NoOne /\ Orphans' = {} /\ UNCHANGED expired
            /\ status' = status /\ (receipt' = receipt \/ (receipt' /\ status \in Terminal))
      BY <1>14 DEF NotifyFails, Release, Unwind, Go, lockVars, noticeVars,
         timeVars, nodeVars, Orphans, OneOwner, Inside, StatusByPc, Body,
         Telling, Proc, Active, Terminal
    <2> QED
      BY <2>1, SeenGiveUp
  <1>15. ASSUME NEW p \in Proc, Crash(p)
       PROVE  [Beaten!BNext]_(Beaten!bVars)
    <2>1. CASE owner # p
      BY <1>15, <2>1, SeenSame DEF Crash, Orphans, noticeVars, timeVars
    <2>2. CASE owner = p
      <3>1. /\ owner \in Proc /\ owner' = NoOne /\ UNCHANGED <<status, receipt, expired>>
        BY <1>15, <2>2 DEF Crash, noticeVars, timeVars
      <3>2. pc[p] \in Body \cup Telling /\ Orphans = {}
        BY <2>2, WorldAssumption DEF OwnerAtWork, OneOwner, Inside, TypeOK, PcOK, BeatPc, CancelPc, Body, Telling
      <3>3. CASE pc[p] \in Body
        <4>1. status \in Active
          BY <3>3 DEF StatusByPc, Active
        <4> QED
          BY <3>1, <4>1, SeenGiveUp
      <3>4. CASE pc[p] \in Telling
        <4>1. \A n \in Node : phase[n] \notin InFlight
          BY <2>2, <3>4 DEF OneOwner, Telling
        <4>2. Orphans' = {}
          BY <1>15, <2>2, <3>2, <4>1 DEF Crash, Orphans, InFlight, TypeOK
        <4> QED
          BY <3>1, <4>2, SeenGiveUp
      <3> QED
        BY <3>2, <3>3, <3>4
    <2> QED
      BY <2>1, <2>2
  <1>16. ASSUME NEW n \in Node, ExecuteNode(n)
       PROVE  [Beaten!BNext]_(Beaten!bVars)
    <2>1. phase[n] \in InFlight /\ Orphans' = Orphans
      BY <1>16 DEF ExecuteNode, StartNode, WorkEnds, InTime, WorkCut, CheckEnds, CheckCut,
         Settle, Return, Orphans, InFlight, TypeOK
    <2>2. UNCHANGED <<status, receipt, owner, expired>>
      BY <1>16 DEF ExecuteNode, StartNode, WorkEnds, InTime, WorkCut, CheckEnds, CheckCut,
         noticeVars, timeVars, lockVars
    <2> QED
      BY <2>1, <2>2, SeenSame
  <1>17. ASSUME NEW n \in Node, OrphanExits(n)
       PROVE  [Beaten!BNext]_(Beaten!bVars)
    <2>1. UNCHANGED <<status, receipt, owner, expired>> /\ n \in Orphans
      BY <1>17 DEF OrphanExits, Orphans, noticeVars, timeVars, lockVars
    <2>2. CASE Holder' = Holder
      BY <2>1, <2>2 DEF Beaten!bVars, SeenAs
    <2>3. CASE Holder' # Holder
      <3>1. Holder = "helper" /\ Holder' = NoOne
        BY <2>1, <2>3 DEF Holder
      <3> QED
        BY <2>1, <3>1 DEF Beaten!BNext, Beaten!HelperExits, SeenAs
    <2> QED
      BY <2>2, <2>3
  <1>18. ASSUME NEW n \in Node, LooseExits(n)
       PROVE  [Beaten!BNext]_(Beaten!bVars)
    BY <1>18, SeenSame DEF LooseExits, lockVars, noticeVars, timeVars, nodeVars,
       Orphans, Go
  <1>19. ASSUME NEW n \in Node, WaitDeadline(n)
       PROVE  [Beaten!BNext]_(Beaten!bVars)
    BY <1>19, SeenSame DEF WaitDeadline, lockVars, noticeVars, timeVars,
       nodeVars, Orphans, Go
  <1>20. ASSUME NEW s \in Signal, SignalRun(s) \/ NotifyRun(s)
       PROVE  [Beaten!BNext]_(Beaten!bVars)
    BY <1>20, SeenSame DEF SignalRun, NotifyRun, Deliver, lockVars, noticeVars,
       timeVars, nodeVars, Orphans
  <1>21. CASE RunDeadline
    <2>1. UNCHANGED <<status, receipt, owner, Orphans>> /\ expired' = TRUE /\ ~expired
      BY <1>21 DEF RunDeadline, noticeVars, lockVars, nodeVars, Orphans
    <2>2. UNCHANGED Holder
      BY <2>1 DEF Holder
    <2>3. \/ UNCHANGED SeenAs
          \/ SeenAs = "open" /\ SeenAs' = "overdue"
      BY <2>1 DEF SeenAs
    <2> QED
      BY <2>1, <2>2, <2>3 DEF Beaten!BNext, Beaten!Expire, Beaten!bVars
  <1>22. ASSUME NEW n \in Node, NodeFails(n)
       PROVE  [Beaten!BNext]_(Beaten!bVars)
    <2>1. phase[n] \in InFlight /\ Orphans' = Orphans
      BY <1>22, FailedNode DEF Orphans, InFlight, TypeOK
    <2>2. UNCHANGED <<status, receipt, owner, expired>>
      BY <1>22, FailedNode
    <2> QED
      BY <2>1, <2>2, SeenSame
  <1> QED
    BY <1>1, <1>2, <1>3, <1>4, <1>5, <1>6, <1>7, <1>8, <1>9, <1>10, <1>11,
       <1>12, <1>13, <1>14, <1>15, <1>16, <1>17, <1>18, <1>19, <1>20, <1>21, <1>22
       DEF Next, BeatStep, CancelStep, Proc, Choose

\* Nodes, mailbox, cancellations, deadlines and crashes of a run implement
\* the run that its drivers see.
THEOREM RunIsBeaten == Spec => IsBeaten
  <1>1. Inductive /\ [Next]_vars => [Beaten!BNext]_(Beaten!bVars)
    BY BeatenStep DEF Inductive
  <1> QED
    BY <1>1, BeatenInit, RunInductive, PTL DEF Spec, IsBeaten, Beaten!BSpec
=============================================================================
