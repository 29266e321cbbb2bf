------------------------------- MODULE WrkRun -------------------------------
(***************************************************************************)
(* One durable workflow run: the files under <state>/<task>/<run-id>/, the *)
(* beats that advance them, and everything that races with a beat.         *)
(*                                                                         *)
(* A beat owns beat.lock, moves the run's signals from its mailbox to the  *)
(* event ledger, advances wait nodes, launches one wave of nodes, records  *)
(* the outcome and posts the terminal notice.  Beats are started by        *)
(* drivers (the host's router, `wrk run`, `wrk beat`, the schedule         *)
(* manager); `wrk cancel`, `wrk signal`, the clock, host shutdown, crashes *)
(* and agent helpers that outlive a killed driver interleave with them.    *)
(*                                                                         *)
(* Every durable write is one step, except that a loop over the node files *)
(* is one step: nobody but the lock holder uses them.  A flock belongs to  *)
(* an open file description: the helper of an agent node inherits it, so   *)
(* the lock stays held after its driver is killed, until the helper has    *)
(* reaped its runner.                                                      *)
(***************************************************************************)
EXTENDS Integers, FiniteSets

CONSTANTS
  Node,          \* names of the nodes of the task
  Agent, Loop,   \* nodes that run an external agent through `wrk _agent`
  Command,       \* nodes that run a shell command
  Wait,          \* nodes that wait for a signal
  Writer,        \* nodes declared (access write)
  Checked,       \* nodes with an accept or until form
  Timed,         \* wait nodes with a timeout
  After,         \* After[n]: the nodes n depends on
  Place,         \* Place[n]: position of n in the wrkfile
  Parallel,      \* the task's parallel limit
  MaxTries,      \* MaxTries[n]: (max N) of loop n
  EventOf,       \* EventOf[n]: event name wait node n waits for
  Signal,        \* notices that may be sent to the run's mailbox
  Malformed,     \* those whose event name validateEventName refuses
  EventName,     \* EventName[s]: event name of notice s
  IdPlace,       \* IdPlace[s]: rank of the random id of s
  Driver,        \* processes that call Beat
  Router,        \* the driver that beats every registered run forever
  Canceller,     \* processes that call Cancel
  NoOne,         \* the holder of a free lock
  HasDeadline,   \* the run has a deadline
  HasNotify,     \* notificationDestination is not empty
  NeedsOutput,   \* required_output is set
  MaxFaults      \* bound on crashes, host stops and failed writes

Proc == Driver \cup Canceller
Active == {"ready", "waiting", "running", "interrupted"}
Terminal == {"completed", "failed", "cancelled"}
NodeStatus == {"pending", "running", "interrupted", "waiting", "passed", "failed"}

\* validateGraph and validateNode: known kinds, known acyclic dependencies.
ASSUME TaskAssumption ==
  /\ Node # {} /\ IsFiniteSet(Node)
  /\ Node = Agent \cup Loop \cup Command \cup Wait
  /\ Agent \cap Loop = {} /\ (Agent \cup Loop) \cap Command = {}
  /\ (Agent \cup Loop \cup Command) \cap Wait = {}
  /\ Writer \subseteq Node \ Wait /\ Loop \subseteq Checked
  /\ Checked \subseteq Node \ Wait /\ Timed \subseteq Wait
  /\ After \in [Node -> SUBSET Node]
  /\ \E rank \in [Node -> 1..Cardinality(Node)] :
        \A n \in Node : \A m \in After[n] : rank[m] < rank[n]
  /\ Place \in [Node -> Nat]
  /\ \A m, n \in Node : Place[m] = Place[n] => m = n
  /\ Parallel \in Nat \ {0}
  /\ MaxTries \in [Loop -> Nat \ {0}]

ASSUME WorldAssumption ==
  /\ Malformed \subseteq Signal
  /\ IdPlace \in [Signal -> Nat]
  /\ \A r, s \in Signal : IdPlace[r] = IdPlace[s] => r = s
  /\ Router \in Driver /\ NoOne \notin Proc /\ Driver \cap Canceller = {}
  /\ HasDeadline \in BOOLEAN /\ HasNotify \in BOOLEAN /\ NeedsOutput \in BOOLEAN
  /\ MaxFaults \in Nat

VARIABLES
  status,    \* <run>/status
  node,      \* node[n]: <run>/nodes/n/status
  states,    \* states[n]: what the last beat remembers of n
  tries,     \* tries[n]: number of attempt-N directories of n
  phase,     \* phase[n]: the process the wave runs for n
  verdict,   \* verdict[n]: how the last process of n really ended
  loose,     \* nodes whose command outlived a killed driver
  cancelled, \* <run>/cancel.json exists
  receipt,   \* <run>/notify.json exists
  notices,   \* notices[t]: terminal notices t put in the inbox
  sent,      \* every notice the run's mailbox accepted
  newQ,      \* its new directory
  procQ,     \* its processing directory
  events,    \* <run>/events
  lateFor,   \* lateFor[s]: wait nodes already past when s was created
  past,      \* wait nodes whose deadline.json has passed
  expired,   \* the run's deadline has passed
  owner,     \* process holding beat.lock
  pc,        \* pc[p]: where process p is in Beat or Cancel
  stopping,  \* drivers whose context is cancelled
  faults     \* crashes, host stops and failed writes so far

lockVars == <<owner, pc, stopping, faults>>
nodeVars == <<node, states, tries, phase, verdict, loose>>
noticeVars == <<receipt, notices>>
mailVars == <<sent, newQ, procQ, events, lateFor>>
timeVars == <<past, expired>>
vars == <<status, nodeVars, cancelled, noticeVars, mailVars, timeVars, lockVars>>

BeatPc == {"idle", "recover", "ingest", "claimed", "recorded", "advance",
           "choose", "wave", "notify", "receipt"}
CancelPc == {"idle", "mark", "lock", "notify", "receipt"}
InFlight == {"starting", "work", "check"}

Go(p, where) == pc' = [pc EXCEPT ![p] = where]

Release(p) ==
  /\ owner' = NoOne
  /\ Go(p, "idle")
  /\ stopping' = stopping \ {p}

\* Start: the snapshot is complete, every node is pending, the run is ready.
Init ==
  /\ status = "ready"
  /\ node = [n \in Node |-> "pending"]
  /\ states = [n \in Node |-> "pending"]
  /\ tries = [n \in Node |-> 0]
  /\ phase = [n \in Node |-> "off"]
  /\ verdict = [n \in Node |-> "none"]
  /\ loose = {}
  /\ cancelled = FALSE
  /\ receipt = FALSE
  /\ notices = [t \in Terminal |-> 0]
  /\ sent = {} /\ newQ = {} /\ procQ = {} /\ events = {}
  /\ lateFor = [s \in Signal |-> {}]
  /\ past = {} /\ expired = FALSE
  /\ owner = NoOne
  /\ pc = [p \in Proc |-> "idle"]
  /\ stopping = {}
  /\ faults = 0

-----------------------------------------------------------------------------
(* The lock and the start of a beat.                                       *)

Orphans == {n \in Node : phase[n] = "orphan"}

\* flock(LOCK_EX): no open description holds it, an inherited one included.
LockFree == owner = NoOne /\ Orphans = {}

\* Faulty variant: a terminal run returns before notifyTerminal.
BeatTerminalSilent(d) == status \in Terminal /\ pc[d] = "idle" /\ UNCHANGED vars

\* A run that is already terminal: the beat only retries the notice.
BeatTerminal(d) ==
  /\ pc[d] = "idle" /\ LockFree
  /\ status \in Terminal
  /\ owner' = d /\ Go(d, "notify")
  /\ UNCHANGED <<status, nodeVars, cancelled, noticeVars, mailVars, timeVars,
                 stopping, faults>>

\* Faulty variant: the marker is looked at before the run's status.
BeatCancelledAnyway(d) ==
  /\ pc[d] = "idle" /\ LockFree
  /\ cancelled
  /\ owner' = d /\ Go(d, "notify")
  /\ status' = "cancelled"
  /\ UNCHANGED <<nodeVars, cancelled, noticeVars, mailVars, timeVars,
                 stopping, faults>>

\* Faulty variant: a marked run is refused instead of finished.
BeatCancelledRefused(d) == cancelled /\ pc[d] = "idle" /\ UNCHANGED vars

\* cancel.json was left by a canceller that never got the lock.
BeatCancelled(d) ==
  /\ pc[d] = "idle" /\ LockFree
  /\ status \in Active /\ cancelled
  /\ owner' = d /\ Go(d, "notify")
  /\ status' = "cancelled"
  /\ UNCHANGED <<nodeVars, cancelled, noticeVars, mailVars, timeVars,
                 stopping, faults>>

\* Faulty variant: the run's own deadline is recorded like a host stop.
BeatExpiredInterrupts(d) ==
  /\ pc[d] = "idle" /\ LockFree
  /\ status \in Active /\ ~cancelled /\ expired
  /\ status' = "interrupted"
  /\ UNCHANGED <<nodeVars, cancelled, noticeVars, mailVars, timeVars, lockVars>>

BeatExpired(d) ==
  /\ pc[d] = "idle" /\ LockFree
  /\ status \in Active /\ ~cancelled /\ expired
  /\ owner' = d /\ Go(d, "notify")
  /\ status' = "failed"
  /\ UNCHANGED <<nodeVars, cancelled, noticeVars, mailVars, timeVars,
                 stopping, faults>>

\* Faulty variant: recovery also retries nodes that failed.
ResetFailed(state) ==
  IF state \in {"running", "interrupted", "failed"} THEN "pending" ELSE state

Reset(state) == IF state \in {"running", "interrupted"} THEN "pending" ELSE state

BeatRun(d) ==
  /\ pc[d] = "idle" /\ LockFree
  /\ status \in Active /\ ~cancelled /\ ~expired
  /\ owner' = d /\ Go(d, "recover")
  /\ status' = "running"
  /\ node' = [n \in Node |-> Reset(node[n])]
  /\ states' = node'
  /\ UNCHANGED <<tries, phase, verdict, loose, cancelled, noticeVars, mailVars,
                 timeVars, stopping, faults>>

BeatBegin(d) == BeatTerminal(d) \/ BeatCancelled(d) \/ BeatExpired(d) \/ BeatRun(d)

-----------------------------------------------------------------------------
(* ingestSignals: Recover, then Claim, record and Ack until nothing is new. *)

\* Faulty variant: abandoned claims are swept instead of returned.
IngestSweep(d) ==
  /\ pc[d] = "recover"
  /\ procQ' = {}
  /\ Go(d, "ingest")
  /\ UNCHANGED <<status, nodeVars, cancelled, noticeVars, sent, newQ, events,
                 lateFor, timeVars, owner, stopping, faults>>

IngestRecover(d) ==
  /\ pc[d] = "recover"
  /\ newQ' = newQ \cup procQ
  /\ procQ' = {}
  /\ Go(d, "ingest")
  /\ UNCHANGED <<status, nodeVars, cancelled, noticeVars, sent, events, lateFor,
                 timeVars, owner, stopping, faults>>

OldestId(S) == {s \in S : \A r \in S : IdPlace[s] <= IdPlace[r]}

IngestClaim(d) ==
  /\ pc[d] = "ingest"
  /\ \E s \in OldestId(newQ) :
        /\ newQ' = newQ \ {s}
        /\ procQ' = procQ \cup {s}
  /\ Go(d, "claimed")
  /\ UNCHANGED <<status, nodeVars, cancelled, noticeVars, sent, events, lateFor,
                 timeVars, owner, stopping, faults>>

IngestRecord(d) ==
  /\ pc[d] = "claimed" /\ procQ \cap Malformed = {}
  /\ events' = events \cup procQ
  /\ Go(d, "recorded")
  /\ UNCHANGED <<status, nodeVars, cancelled, noticeVars, sent, newQ, procQ,
                 lateFor, timeVars, owner, stopping, faults>>

IngestAck(d) ==
  /\ pc[d] = "recorded"
  /\ procQ' = {}
  /\ Go(d, "ingest")
  /\ UNCHANGED <<status, nodeVars, cancelled, noticeVars, sent, newQ, events,
                 lateFor, timeVars, owner, stopping, faults>>

IngestDone(d) ==
  /\ pc[d] = "ingest" /\ newQ = {}
  /\ Go(d, "advance")
  /\ UNCHANGED <<status, nodeVars, cancelled, noticeVars, mailVars, timeVars,
                 owner, stopping, faults>>

\* The beat returns an error with the run still "running": its deferred
\* function records "interrupted".
Unwind(d) == status' = "interrupted" /\ Release(d)

IngestReject(d) ==
  /\ pc[d] = "claimed" /\ procQ \cap Malformed # {}
  /\ Unwind(d)
  /\ UNCHANGED <<nodeVars, cancelled, noticeVars, mailVars, timeVars, faults>>

Ingest(d) ==
  \/ IngestRecover(d) \/ IngestClaim(d) \/ IngestRecord(d)
  \/ IngestAck(d) \/ IngestDone(d) \/ IngestReject(d)

-----------------------------------------------------------------------------
(* Wait nodes and the choice of the wave.                                  *)

Matching(n) == {s \in events : EventName[s] = EventOf[n]}

\* advanceWait: matchingEvent is the first match in the order of the ids.
WaitResult(n) ==
  IF \E s \in OldestId(Matching(n)) : n \notin lateFor[s] THEN "passed"
  ELSE IF n \in past THEN "failed" ELSE "waiting"

AdvanceWaits(d) ==
  /\ pc[d] = "advance"
  /\ node' = [n \in Node |-> IF states[n] = "waiting" THEN WaitResult(n) ELSE node[n]]
  /\ states' = node'
  /\ Go(d, "choose")
  /\ UNCHANGED <<status, tries, phase, verdict, loose, cancelled, noticeVars,
                 mailVars, timeVars, owner, stopping, faults>>

\* Faulty variant: a dependency only has to be settled.
RunnableAfterSettled ==
  {n \in Node : states[n] = "pending" /\
     \A m \in After[n] : states[m] \in {"passed", "failed", "waiting"}}

Runnable ==
  {n \in Node : states[n] = "pending" /\ \A m \in After[n] : states[m] = "passed"}

First(S) == {n \in S : \A m \in S : Place[n] <= Place[m]}

\* Faulty variant: writers share a wave like readers.
SelectAny(S) == {n \in S : Cardinality({m \in S : Place[m] < Place[n]}) < Parallel}

\* selectRunnable: the first writer alone, or the first `parallel` nodes.
SelectRunnable(S) ==
  IF S \cap Writer # {} THEN First(S \cap Writer)
  ELSE {n \in S : Cardinality({m \in S : Place[m] < Place[n]}) < Parallel}

\* Faulty variant: a run whose nodes are all settled has completed.
TerminalWhenSettled ==
  IF \A n \in Node : states[n] \in {"passed", "failed"} THEN {"completed"}
  ELSE IF \E n \in Node : states[n] = "failed" THEN {"failed"} ELSE {}

\* terminalStatus, with validateRequiredOutput turning a success into a failure.
TerminalStatuses ==
  IF \E n \in Node : states[n] = "failed" THEN {"failed"}
  ELSE IF \A n \in Node : states[n] = "passed"
       THEN IF NeedsOutput THEN {"completed", "failed"} ELSE {"completed"}
       ELSE {}

ChooseTerminal(d) ==
  /\ pc[d] = "choose"
  /\ status' \in TerminalStatuses
  /\ Go(d, "notify")
  /\ UNCHANGED <<nodeVars, cancelled, noticeVars, mailVars, timeVars, owner,
                 stopping, faults>>

ChooseNothing(d) ==
  /\ pc[d] = "choose" /\ TerminalStatuses = {}
  /\ Runnable = {}
  /\ status' = "waiting"
  /\ Release(d)
  /\ UNCHANGED <<nodeVars, cancelled, noticeVars, mailVars, timeVars, faults>>

ChooseWave(d) ==
  /\ pc[d] = "choose" /\ TerminalStatuses = {}
  /\ Runnable # {}
  /\ LET wave == SelectRunnable(Runnable) IN
       /\ node' = [n \in Node |-> IF n \in wave \cap Wait THEN WaitResult(n)
                                                          ELSE node[n]]
       /\ states' = node'
       /\ phase' = [n \in Node |-> IF n \in wave \ Wait THEN "starting"
                                                        ELSE phase[n]]
  /\ Go(d, "wave")
  /\ UNCHANGED <<status, tries, verdict, loose, cancelled, noticeVars, mailVars,
                 timeVars, owner, stopping, faults>>

Choose(d) == ChooseTerminal(d) \/ ChooseNothing(d) \/ ChooseWave(d)

-----------------------------------------------------------------------------
(* executeNode, one goroutine per node of the wave.                        *)

\* The node's context is cancelled: host stop, run deadline or cancel.json.
ContextDone == expired \/ cancelled \/ owner \in stopping

StartNode(n) ==
  /\ phase[n] = "starting"
  /\ node' = [node EXCEPT ![n] = "running"]
  /\ tries' = IF n \in Agent \cup Loop THEN [tries EXCEPT ![n] = @ + 1] ELSE tries
  /\ phase' = [phase EXCEPT ![n] = "work"]
  /\ verdict' = [verdict EXCEPT ![n] = "none"]
  /\ UNCHANGED <<status, states, loose, cancelled, noticeVars, mailVars, timeVars, lockVars>>

\* executeNode returns: what the wave is told, and what the file says.
Return(n, state, file, how) ==
  /\ states' = [states EXCEPT ![n] = state]
  /\ node' = [node EXCEPT ![n] = file]
  /\ phase' = [phase EXCEPT ![n] = "off"]
  /\ verdict' = [verdict EXCEPT ![n] = how]

Settle(n, state, how) == Return(n, state, state, how)

\* Faulty variant: the last attempt is retried once more.
RetryOnceMore(n) == IF n \in Loop /\ tries[n] <= MaxTries[n] THEN "pending" ELSE "failed"

\* retryOrFail, and the plain failure of the other kinds.
RetryOrFail(n) == IF n \in Loop /\ tries[n] < MaxTries[n] THEN "pending" ELSE "failed"

\* ctx.Err() is nil; a marker in cancel.json may not have been seen yet.
InTime == ~expired /\ owner \notin stopping

\* The agent or command exits by itself.
WorkEnds(n) ==
  /\ phase[n] = "work" /\ InTime
  /\ \/ /\ n \in Checked
        /\ phase' = [phase EXCEPT ![n] = "check"]
        /\ UNCHANGED <<node, states, verdict>>
     \/ n \notin Checked /\ Settle(n, "passed", "accepted")
     \/ n \in Agent \cup Loop /\ Settle(n, RetryOrFail(n), "rejected")
     \/ n \in Command /\ Settle(n, "failed", "rejected")
  /\ UNCHANGED <<status, tries, loose, cancelled, noticeVars, mailVars, timeVars,
                 lockVars>>

\* cmd.Run returns because the context was cancelled.
WorkCut(n) ==
  /\ phase[n] = "work" /\ ContextDone
  /\ Settle(n, "interrupted", "cut")
  /\ UNCHANGED <<status, tries, loose, cancelled, noticeVars, mailVars, timeVars,
                 lockVars>>

CheckEnds(n) ==
  /\ phase[n] = "check"
  /\ \/ Settle(n, "passed", "accepted")
     \/ Settle(n, RetryOrFail(n), "rejected")
  /\ UNCHANGED <<status, tries, loose, cancelled, noticeVars, mailVars, timeVars,
                 lockVars>>

\* runCheck returns the context's error: executeNode does not look at ctx here.
CheckCut(n) ==
  /\ phase[n] = "check" /\ ContextDone
  /\ Settle(n, RetryOrFail(n), "cut")
  /\ UNCHANGED <<status, tries, loose, cancelled, noticeVars, mailVars, timeVars,
                 lockVars>>

ExecuteNode(n) == StartNode(n) \/ WorkEnds(n) \/ WorkCut(n) \/ CheckEnds(n) \/ CheckCut(n)

\* The attempt cannot be set up.  A write that fails leaves the file as it
\* was, or fails after the new file is in place: "running" may stand there.
StartFails(n) ==
  /\ phase[n] = "starting"
  /\ \E file \in {node[n], "running", "failed"} :
        /\ Return(n, "failed", file, "cut")
        /\ \/ UNCHANGED tries
           \/ /\ file = "running" /\ n \in Agent \cup Loop
              /\ tries' = [tries EXCEPT ![n] = @ + 1]

\* The agent's result cannot be written, whatever the agent said.
ResultFails(n) ==
  /\ phase[n] = "work" /\ n \in Agent \cup Loop
  /\ \E file \in {node[n], "failed"} : Return(n, "failed", file, "cut")
  /\ UNCHANGED tries

\* Faulty variant: a "passed" that was not saved is remembered as passed.
StatusFailsPassed(n) ==
  /\ phase[n] \in {"work", "check"}
  /\ phase[n] = "check" \/ (n \notin Checked /\ InTime)
  /\ Return(n, "passed", node[n], "accepted")
  /\ UNCHANGED tries

\* The node's last status cannot be written.  transitionNode still returns
\* the state it did not save; a "passed" that failed, done or not, is "failed".
StatusFails(n) ==
  /\ phase[n] \in {"work", "check"}
  /\ \/ /\ phase[n] = "check" \/ (n \notin Checked /\ InTime)
        /\ \E file \in {node[n], "passed"} : Return(n, "failed", file, "accepted")
     \/ /\ phase[n] = "check" \/ InTime
        /\ Return(n, RetryOrFail(n), node[n], "rejected")
     \/ /\ ContextDone
        /\ Return(n, IF phase[n] = "work" THEN "interrupted" ELSE RetryOrFail(n),
                  node[n], "cut")
  /\ UNCHANGED tries

NodeFails(n) ==
  /\ faults < MaxFaults
  /\ StartFails(n) \/ ResultFails(n) \/ StatusFails(n)
  /\ faults' = faults + 1
  /\ UNCHANGED <<status, loose, cancelled, noticeVars, mailVars, timeVars, owner, pc,
                 stopping>>

-----------------------------------------------------------------------------
(* The end of a wave and the terminal notice.                              *)

WaveOver(d) == pc[d] = "wave" /\ \A n \in Node : phase[n] \notin InFlight

FinishCancelled(d) ==
  /\ WaveOver(d) /\ cancelled
  /\ status' = "cancelled"
  /\ Go(d, "notify")
  /\ UNCHANGED <<nodeVars, cancelled, noticeVars, mailVars, timeVars, owner,
                 stopping, faults>>

FinishInterrupted(d) ==
  /\ WaveOver(d) /\ ~cancelled /\ ~expired /\ d \in stopping
  /\ Unwind(d)
  /\ UNCHANGED <<nodeVars, cancelled, noticeVars, mailVars, timeVars, faults>>

FinishExpired(d) ==
  /\ WaveOver(d) /\ ~cancelled /\ expired
  /\ status' = "failed"
  /\ Go(d, "notify")
  /\ UNCHANGED <<nodeVars, cancelled, noticeVars, mailVars, timeVars, owner,
                 stopping, faults>>

FinishTerminal(d) ==
  /\ WaveOver(d) /\ ~cancelled /\ ~expired /\ d \notin stopping
  /\ status' \in TerminalStatuses
  /\ Go(d, "notify")
  /\ UNCHANGED <<nodeVars, cancelled, noticeVars, mailVars, timeVars, owner,
                 stopping, faults>>

\* Faulty variant: a node's word in the run's status file.
RestingLikeNode == IF \E n \in Node : states[n] = "waiting" THEN "waiting" ELSE "pending"

\* The status of an unfinished run: waiting as soon as one node waits.
RestingStatus == IF \E n \in Node : states[n] = "waiting" THEN "waiting" ELSE "ready"

\* Faulty variant: the beat's context is not consulted after the wave.
FinishWaveRegardless(d) ==
  /\ WaveOver(d) /\ ~cancelled /\ ~expired
  /\ TerminalStatuses = {}
  /\ status' = RestingStatus
  /\ Release(d)
  /\ UNCHANGED <<nodeVars, cancelled, noticeVars, mailVars, timeVars, faults>>

FinishWave(d) ==
  /\ WaveOver(d) /\ ~cancelled /\ ~expired /\ d \notin stopping
  /\ TerminalStatuses = {}
  /\ status' = RestingStatus
  /\ Release(d)
  /\ UNCHANGED <<nodeVars, cancelled, noticeVars, mailVars, timeVars, faults>>

Finish(d) ==
  \/ FinishCancelled(d) \/ FinishInterrupted(d) \/ FinishExpired(d)
  \/ FinishTerminal(d) \/ FinishWave(d)

\* notifyTerminal returns at once: no destination, or notify.json exists.
NotifySkip(p) ==
  /\ pc[p] = "notify" /\ (receipt \/ ~HasNotify)
  /\ Release(p)
  /\ UNCHANGED <<status, nodeVars, cancelled, noticeVars, mailVars, timeVars, faults>>

\* Faulty variant: notify.json is not looked at.
NotifyPutAgain(p) ==
  /\ pc[p] = "notify" /\ HasNotify
  /\ notices' = [notices EXCEPT ![status] = @ + 1]
  /\ Go(p, "receipt")
  /\ UNCHANGED <<status, nodeVars, cancelled, receipt, mailVars, timeVars, owner,
                 stopping, faults>>

NotifyPut(p) ==
  /\ pc[p] = "notify" /\ ~receipt /\ HasNotify
  /\ notices' = [notices EXCEPT ![status] = @ + 1]
  /\ Go(p, "receipt")
  /\ UNCHANGED <<status, nodeVars, cancelled, receipt, mailVars, timeVars, owner,
                 stopping, faults>>

NotifyReceipt(p) ==
  /\ pc[p] = "receipt"
  /\ receipt' = TRUE
  /\ Release(p)
  /\ UNCHANGED <<status, nodeVars, cancelled, notices, mailVars, timeVars, faults>>

Notify(p) == NotifySkip(p) \/ NotifyPut(p) \/ NotifyReceipt(p)

BeatStep(d) == Ingest(d) \/ AdvanceWaits(d) \/ Choose(d) \/ Finish(d) \/ Notify(d)

-----------------------------------------------------------------------------
(* Cancel.                                                                 *)

CancelCheck(c) ==
  /\ pc[c] = "idle" /\ status \in Active
  /\ Go(c, "mark")
  /\ UNCHANGED <<status, nodeVars, cancelled, noticeVars, mailVars, timeVars,
                 owner, stopping, faults>>

CancelMark(c) ==
  /\ pc[c] = "mark"
  /\ cancelled' = TRUE
  /\ Go(c, "lock")
  /\ UNCHANGED <<status, nodeVars, noticeVars, mailVars, timeVars, owner,
                 stopping, faults>>

\* The lock is granted after the run completed or failed: withdraw the marker.
CancelTooLate(c) ==
  /\ pc[c] = "lock" /\ LockFree
  /\ status \in {"completed", "failed"}
  /\ cancelled' = FALSE
  /\ Go(c, "idle")
  /\ UNCHANGED <<status, nodeVars, noticeVars, mailVars, timeVars, owner,
                 stopping, faults>>

\* Faulty variant: the status is not read again under the lock.
CancelBlindly(c) ==
  /\ pc[c] = "lock" /\ LockFree
  /\ owner' = c
  /\ status' = "cancelled"
  /\ Go(c, "notify")
  /\ UNCHANGED <<nodeVars, cancelled, noticeVars, mailVars, timeVars, stopping, faults>>

CancelLocked(c) ==
  /\ pc[c] = "lock" /\ LockFree
  /\ status \notin {"completed", "failed"}
  /\ owner' = c
  /\ status' = "cancelled"
  /\ Go(c, "notify")
  /\ UNCHANGED <<nodeVars, cancelled, noticeVars, mailVars, timeVars, stopping, faults>>

CancelStep(c) == CancelMark(c) \/ CancelTooLate(c) \/ CancelLocked(c) \/ Notify(c)

-----------------------------------------------------------------------------
(* The environment: signals, the clock, host shutdown, crashes.            *)

Deliver(s) ==
  /\ s \notin sent
  /\ sent' = sent \cup {s}
  /\ newQ' = newQ \cup {s}
  /\ lateFor' = [lateFor EXCEPT ![s] = past]
  /\ UNCHANGED <<status, nodeVars, cancelled, noticeVars, procQ, events, timeVars,
                 lockVars>>

\* `wrk signal` validates the event name and refuses a terminal run.
SignalRun(s) == s \notin Malformed /\ status \in Active /\ Deliver(s)

\* `shell3 notify --to wrk:TASK/RUN` knows neither rule.
NotifyRun(s) == s \in Malformed /\ Deliver(s)

RunDeadline ==
  /\ HasDeadline /\ ~expired
  /\ expired' = TRUE
  /\ UNCHANGED <<status, nodeVars, cancelled, noticeVars, mailVars, past, lockVars>>

\* deadline.json exists from the moment the node is waiting.
WaitDeadline(n) ==
  /\ n \in Timed \ past /\ node[n] = "waiting"
  /\ past' = past \cup {n}
  /\ UNCHANGED <<status, nodeVars, cancelled, noticeVars, mailVars, expired, lockVars>>

\* Host shutdown or an interrupted foreground command: the context is cancelled.
HostStop(d) ==
  /\ faults < MaxFaults
  /\ pc[d] # "idle" /\ d \notin stopping
  /\ stopping' = stopping \cup {d}
  /\ faults' = faults + 1
  /\ UNCHANGED <<status, nodeVars, cancelled, noticeVars, mailVars, timeVars, owner, pc>>

\* A failed read or write of the beat itself: before the wave, or of the run's
\* status after it.
BeatFails(d) ==
  /\ faults < MaxFaults
  /\ \/ pc[d] \in {"recover", "ingest", "claimed", "recorded", "advance", "choose"}
     \/ WaveOver(d)
  /\ Unwind(d)
  /\ faults' = faults + 1
  /\ UNCHANGED <<nodeVars, cancelled, noticeVars, mailVars, timeVars>>

\* Faulty variant: notify.json is written although the inbox refused.
NotifyFailsQuietly(p) ==
  /\ faults < MaxFaults
  /\ pc[p] \in {"notify", "receipt"}
  /\ receipt' = TRUE
  /\ Release(p)
  /\ faults' = faults + 1
  /\ UNCHANGED <<status, nodeVars, cancelled, notices, mailVars, timeVars>>

\* The inbox or notify.json cannot be written.
NotifyFails(p) ==
  /\ faults < MaxFaults
  /\ pc[p] \in {"notify", "receipt"}
  /\ Release(p)
  /\ faults' = faults + 1
  /\ UNCHANGED <<status, nodeVars, cancelled, noticeVars, mailVars, timeVars>>

\* SIGKILL: the kernel drops the process's descriptors.  The helper of a
\* working agent keeps the lock; a command or a check runs on without it.
Crash(p) ==
  /\ faults < MaxFaults
  /\ pc[p] # "idle"
  /\ faults' = faults + 1
  /\ Go(p, "idle")
  /\ stopping' = stopping \ {p}
  /\ IF owner # p THEN UNCHANGED <<owner, phase, loose>>
     ELSE /\ owner' = NoOne
          /\ phase' = [n \in Node |->
                IF phase[n] = "work" /\ n \in Agent \cup Loop THEN "orphan"
                ELSE IF phase[n] \in InFlight THEN "off" ELSE phase[n]]
          /\ loose' = loose \cup {n \in Node :
                \/ phase[n] = "check"
                \/ phase[n] = "work" /\ n \in Command}
  /\ UNCHANGED <<status, node, states, tries, verdict, cancelled, noticeVars, mailVars,
                 timeVars>>

\* The helper sees the driver's pipe close, reaps its runner and exits.
OrphanExits(n) ==
  /\ phase[n] = "orphan"
  /\ phase' = [phase EXCEPT ![n] = "off"]
  /\ UNCHANGED <<status, node, states, tries, verdict, loose, cancelled, noticeVars,
                 mailVars, timeVars, lockVars>>

LooseExits(n) ==
  /\ n \in loose
  /\ loose' = loose \ {n}
  /\ UNCHANGED <<status, node, states, tries, phase, verdict, cancelled, noticeVars,
                 mailVars, timeVars, lockVars>>

Next ==
  \/ \E d \in Driver : BeatBegin(d) \/ BeatStep(d) \/ HostStop(d) \/ BeatFails(d)
  \/ \E c \in Canceller : CancelCheck(c) \/ CancelStep(c)
  \/ \E p \in Proc : NotifyFails(p) \/ Crash(p)
  \/ \E n \in Node : ExecuteNode(n) \/ NodeFails(n) \/ OrphanExits(n) \/ LooseExits(n) \/ WaitDeadline(n)
  \/ \E s \in Signal : SignalRun(s) \/ NotifyRun(s)
  \/ RunDeadline

Spec == Init /\ [][Next]_vars

-----------------------------------------------------------------------------
(* Fairness.  The router re-enqueues every registered run every five       *)
(* seconds; a beat that has the lock runs to its end; an agent is bounded  *)
(* by its runner's timeout, a command is assumed to end; the helper of a   *)
(* killed driver exits; a granted flock wakes its waiter.  Nothing is said *)
(* about the clock, the signals or the canceller: they may never come.     *)

Fairness ==
  /\ WF_vars(BeatBegin(Router))
  /\ \A d \in Driver : WF_vars(BeatStep(d))
  /\ \A c \in Canceller : SF_vars(CancelStep(c))
  /\ \A n \in Node : WF_vars(ExecuteNode(n)) /\ WF_vars(OrphanExits(n))

FairSpec == Spec /\ Fairness

-----------------------------------------------------------------------------
(* Properties.                                                             *)

PcOK ==
  /\ pc \in [Proc -> BeatPc \cup CancelPc]
  /\ \A d \in Driver : pc[d] \in BeatPc
  /\ \A c \in Canceller : pc[c] \in CancelPc

\* Every variable has its type.
TypeOK ==
  /\ status \in Active \cup Terminal
  /\ node \in [Node -> NodeStatus]
  /\ states \in [Node -> NodeStatus]
  /\ tries \in [Node -> Nat]
  /\ phase \in [Node -> {"off", "orphan"} \cup InFlight]
  /\ verdict \in [Node -> {"none", "accepted", "rejected", "cut"}]
  /\ loose \subseteq Node
  /\ cancelled \in BOOLEAN
  /\ receipt \in BOOLEAN
  /\ notices \in [Terminal -> Nat]
  /\ sent \subseteq Signal /\ newQ \subseteq Signal
  /\ procQ \subseteq Signal /\ events \subseteq Signal
  /\ lateFor \in [Signal -> SUBSET Node]
  /\ past \subseteq Node
  /\ expired \in BOOLEAN
  /\ owner \in Proc \cup {NoOne}
  /\ PcOK
  /\ stopping \subseteq Proc
  /\ faults \in 0..MaxFaults

\* A run has one execution owner: only the process that holds beat.lock is
\* inside a beat or a cancellation, nodes are in flight only under a beat,
\* and no agent helper of an earlier, killed beat is still at work then.
Inside == {p \in Proc : pc[p] \notin {"idle", "mark", "lock"}}

OneOwner ==
  /\ \A p \in Inside : owner = p
  /\ Inside # {} => Orphans = {}
  /\ \A n \in Node : phase[n] \in InFlight => owner \in Driver /\ pc[owner] = "wave"

\* docs/wrk.md: "a writer runs alone".  While a writer is in flight, or its
\* helper survives a killed driver, no other node of the run is at work under
\* the execution lock.
WriterAlone ==
  \A w \in Writer : phase[w] # "off" => \A n \in Node \ {w} : phase[n] = "off"

\* No node leaves "pending" before every node it depends on has passed, and
\* no dependency is ever taken back.
DependencyOrder ==
  \A n \in Node : (node[n] # "pending" \/ phase[n] # "off") =>
     \A m \in After[n] : node[m] = "passed"

\* A signal the mailbox accepted is in its new directory, in its processing
\* directory or in the event ledger, whatever step a beat dies at.
NoSignalLost == sent = newQ \cup procQ \cup events

\* A completed run has passed every node; a cancelled one was asked to stop:
\* the marker is withdrawn only from a run that ended otherwise.
OutcomeJustified ==
  /\ status = "completed" => \A n \in Node : node[n] = "passed"
  /\ status = "cancelled" => cancelled

\* What the inbox was told is what the run ended with, and notify.json is
\* evidence of a notice that was really put there.
NoticeTruthful ==
  /\ \A t \in Terminal : notices[t] > 0 => status = t
  /\ receipt => status \in Terminal /\ notices[status] > 0

\* A terminal notice is repeated only by a crash or a failed write between
\* the inbox and notify.json.
FewRepeats == \A t \in Terminal : notices[t] <= 1 + faults

\* With nobody at work, "ready" and "waiting" mean that the next beat will read
\* of every node what the last one decided on, whichever status writes of the
\* wave failed: a node still "running" in its file is a retry whose "pending"
\* was not saved, and no node was remembered as interrupted, failed or passed
\* against its file.
RestIsClean ==
  LockFree /\ status \in {"ready", "waiting"} =>
     \A n \in Node : Reset(node[n]) = states[n]

\* A loop exceeds its (max N) only by attempts that an interruption wasted.
LoopBudget == \A n \in Loop : tries[n] <= MaxTries[n] + faults

\* A terminal outcome is never replaced: not by a late cancellation, not by
\* the deadline, not by a beat that was in flight.
OutcomeFinal == [][(status \in Terminal) => (status' = status)]_vars

\* A node that passed or failed is never run again.
NodeOutcomeFinal ==
  [][\A n \in Node : node[n] \in {"passed", "failed"} =>
        node'[n] = node[n] /\ tries'[n] = tries[n]]_vars

\* A cancellation takes effect: a marker that is there is followed by a
\* terminal outcome.
CancelEffective == cancelled ~> status \in Terminal

\* A terminal outcome is announced even after the process that decided it
\* died or failed to write the notice.
OutcomeAnnounced == status \in Terminal /\ HasNotify ~> receipt

\* A run whose deadline has passed ends, whatever its nodes wait for.
DeadlineEnds == expired ~> status \in Terminal

\* docs/wrk.md, table of `wrk status`: "waiting" is "waiting for an external
\* event", "ready" is "a beat can advance the run".  A waiting run with no
\* owner has no agent, loop or command left that could run now.
WaitingNeedsEvent ==
  LockFree /\ status = "waiting" => Runnable \subseteq Wait

\* docs/wrk.md: cancelling the driver records "interrupted" and a later beat
\* runs the node again.  A node fails only on its own verdict.
FailureIsVerdict ==
  \A n \in Node \ Wait : node[n] = "failed" => verdict[n] = "rejected"

\* runtime.go, advanceWait: "a timely signal still succeeds when the next
\* beat runs after the deadline".  A wait node fails only when no recorded
\* event of its name was created before its deadline.
TimelySignalSucceeds ==
  \A n \in Wait : node[n] = "failed" => \A s \in Matching(n) : n \in lateFor[s]

\* docs/wrk.md: "The router claims them atomically, records them in the run
\* ledger".  A well-formed signal is recorded, or the run ends.
SignalRecorded ==
  \A s \in Signal \ Malformed :
     s \in sent ~> s \in events \/ status \in Terminal

\* The run keeps the promise of RunOutcome: its status file decides the end
\* once, its inbox notices announce that end, its mailbox and ledger keep
\* every signal, through any crash, cancellation or deadline.
Promise == INSTANCE RunOutcome WITH
  Outcome <- Terminal, Signals <- Signal, Open <- "open",
  outcome <- IF status \in Terminal THEN status ELSE "open",
  announced <- notices, accepted <- sent, ledger <- events

KeepsPromise == Promise!ASpec

\* To its drivers the run is a BeatenRun: one of them at a time, an end that a
\* late beat, cancellation or deadline never replaces, a notice only of an
\* end, and an overdue run that the next driver fails without running it.
SeenAs ==
  IF status = "completed" THEN "completed"
  ELSE IF status \in Terminal THEN "failed"
  ELSE IF expired THEN "overdue" ELSE "open"

Holder ==
  IF owner # NoOne THEN owner ELSE IF Orphans # {} THEN "helper" ELSE NoOne

Beaten == INSTANCE BeatenRun WITH
  Driver <- Proc, Helper <- "helper", stage <- SeenAs, told <- receipt,
  holder <- Holder

IsBeaten == Beaten!BSpec
=============================================================================
