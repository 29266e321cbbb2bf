# Formal model of shell3

shell3 is a Go program with one attached agent (a Telegram or a console host),
durable workflows of external agents, background commands, an inbox through which
all of them report, and schedules. This directory holds TLA+ models of its
stateful parts, the TLC configurations that check them on small instances, and
TLAPS proofs of their safety properties for every instance. Module and definition
names follow the source; `PROJECT.json` maps every definition to the lines it
stands for, every run to its configuration and every property to a fault it
detects.

    tlc -workers 2 -config MCWrkRun_chain.cfg MCWrkRun.tla
    tlapm WrkRunProofs.tla

## 1. The system

All state that outlives a process is in files under `.shell3_project/` and in one
SQLite database. Several processes work on it at once: one or more hosts, `shell3
wrk ...` and `shell3 inbox ...` commands, and the agent helpers a workflow starts.
Some of them take file locks, some do not, and any of them can be killed.

| component | code | state it keeps | operations |
| --- | --- | --- | --- |
| workflow runtime | `internal/wrk/runtime.go`, `control.go` | per run: `status`, `nodes/*/status`, attempts, events, `cancel.json`, `notify.json`, deadlines, `beat.lock` | Start, Beat (ingest, waits, one wave, finish, notify), Cancel, Signal, Inspect, Wait |
| workflow router | `internal/wrk/router.go` | registered runs, a semaphore, quarantine of failing runs | register, enqueue on a wake hint, scan every five seconds |
| workflow definitions | `internal/wrk/definition.go`, `compile.go` | none | parse and validate a wrkfile |
| background commands | `internal/shell3/jobs.go`, `job_polls.go`, `completion.go`, `background_recovery.go` | live jobs and progress checks in memory; `background_jobs` rows | admit, start, reap, report, /superstop, poll, shutdown, recovery at boot |
| inbox store | `internal/inbox/inbox.go`, `consumer.go` | per target `new`, `processing`, `archive`; read progress | Notify, Recover, Claim, Ack, List, Read, RecordRead, ArchiveRead |
| inbox delivery | `internal/inbox/batch.go`, `internal/shell3/inbox_turn.go` | reader lease, delivered progress | PrepareBatch, SendInbox, Commit, Close |
| schedules | `internal/schedule/schedule.go`, `internal/runs/schedules.go` | a row per invocation in `schedule_runs`, `schedule.lock`, the cron clock in memory | fire, `schedule run`, drive, finish, reconcile, close |
| sqlite store | `internal/runs/*.go` | sessions, messages, current sessions, background jobs, schedule runs | one transaction per call |
| turn engine | `internal/chat/turn.go`, `session.go`, `compact.go` | messages of a conversation, index of what is saved, queued steering | a turn (model rounds, tools), steer, save, prune, compact |
| session runtime | `internal/shell3/session.go`, `runtime.go`, `hosttool.go` | open sessions, the active turn of each, the published configuration | Send, RunQueued, Interject, Cancel, roll, resume, Close, ReloadConfig |
| Telegram host | `internal/telegram/*.go` | rooms, queues, one turn slot per room, the cap on turns, drain gate of a restart | receive, run a turn, /stop, /superstop, /new, /ask, restart |
| console host | `internal/console/console.go` | one session, paused flag | input line, inbox poll tick |
| host feedback and restart | `cmd/shell3/host_feedback.go`, `telegram_control.go`, `telegram_lisp.go`, `internal/orchestrator` | `host-actions.json`, the configuration in use | validate, reload, queue, execute and confirm a restart |
| external runner | `internal/runner`, `internal/procutil` | none after it exits | run one typed agent process, bounded and killable |
| configuration, adapter, support | `internal/lispconfig`, `internal/sexpr`, `internal/adapter`, `internal/fsstate`, ... | none, or immutable | parse, render, replace a file atomically |

How they interact:

- A host, `wrk run`, `wrk beat` or the schedule manager *drives* a run by calling
  Beat. `beat.lock` is a flock that agent helpers inherit, so a killed driver's
  helper still holds it.
- `wrk signal` and `notify --to wrk:...` put messages in a run's mailbox; a beat
  moves them to the event ledger. A run that ends puts one notice in the `main`
  inbox. So do background commands and schedules.
- An idle host leases a batch of notices, makes a turn of it through the same
  session as the user's messages, and acknowledges it when SQLite has the prompt.
- `inbox read` and `inbox archive`, run by the model in `bash`, change the same
  files without a lock.
- A restart by exec keeps the process id and the environment, so whatever names a
  live process by its id sees the old image and the new one as the same.

What is hard about it: several drivers and a canceller over one run; a driver
killed with its agents still at work; writes of two files that a crash separates;
an answer (a signal, a verdict, a completion) that races a deadline, a
cancellation or a `/superstop`; delivery that must survive a crash without losing a
notice; a host that must close while jobs, turns and retries are in flight.

What makes each part correct:

- *run*: one execution owner; a writer runs alone; nodes only after what they
  depend on; an outcome is final, justified, announced, and announced once unless
  something failed; no signal is lost; cancellations and deadlines take effect.
- *background commands*: no result forgotten, none invented, none reported twice
  without a fault; checks only for live jobs; Close joins what it must.
- *inbox*: a notice leaves the inbox only after its whole body was saved or read;
  nothing is repeated unless its delivery failed; every notice is reviewed.
- *schedules*: invocations of a skip schedule never overlap; one clock; a row is done
  only when its workflow is, and every row is finished in the end.
- *conversation*: every request and every stored history keeps calls and results
  together; what was saved is what a restart resumes; Close returns.
- *Telegram rooms*: one turn per room, no more than the cap in all; an accepted message
  is never dropped and is answered in the end.
- *configuration*: a reload reaches every session and is all or nothing; nothing is
  used that was not checked.
- *restart*: a receipt claims a restart exactly when one happened; the journal loses
  nothing but by age.

The hazards behind these, each at its line, are listed in `PROJECT.json`.

## 2. What is modelled

### WrkRun: one durable workflow run

Variables are the files of the run directory (`status`, `node`, `tries`,
`cancelled`, `receipt`, `events`, `newQ`, `procQ`), what a beat remembers of the
nodes it has read and run (`states`), the `main` inbox seen from the run (`notices`), the processes of a wave (`phase`, `verdict`, `loose`), the lock
(`owner`), where every process is in Beat or Cancel (`pc`) and what the clock and
the host did (`expired`, `past`, `stopping`).

| code | actions |
| --- | --- |
| Beat, up to the lock and the status it writes | `BeatTerminal`, `BeatCancelled`, `BeatExpired`, `BeatRun` |
| ingestSignals: sweep, Recover, Claim, record, Ack | `IngestSweep` ... `IngestReject` |
| advanceWaits, advanceWait, matchingEvent | `AdvanceWaits` |
| terminalStatus, runnable, selectRunnable | `ChooseTerminal`, `ChooseNothing`, `ChooseWave` |
| executeNode, runAgent, runLoop, runCommand, runCheck | `StartNode`, `WorkEnds`, `WorkCut`, `CheckEnds`, `CheckCut` |
| the writes of a node that fail, in a wave | `NodeFails`: `StartFails`, `ResultFails`, `StatusFails` |
| the end of a wave, finish | `FinishCancelled` ... `FinishWave` |
| notifyTerminal | `NotifySkip`, `NotifyPut`, `NotifyReceipt`, `NotifyFails` |
| Cancel | `CancelCheck`, `CancelMark`, `CancelTooLate`, `CancelLocked` |
| Signal, `shell3 notify` | `SignalRun`, `NotifyRun` |
| kill, host shutdown, failed writes, clock | `Crash`, `HostStop`, `BeatFails`, `RunDeadline`, `WaitDeadline`, `OrphanExits`, `LooseExits` |

One step is one durable write; a loop over node files that only the lock holder
reads is one step. Commands and checks do not inherit the lock: after a crash they
run on (`loose`) and nobody waits for them, which is what the code does. A beat
decides by `states`, the map in memory, and the files may say something else: when the
last status of a node cannot be written, `executeNode` still returns what it would
have written (a retry is `pending` in memory and `running` on disk), and the wave ends
by that. The message ids that order a mailbox are random, so `IdPlace` is a constant of its own,
independent of the order of sending.

`RunOutcome` is the abstract specification: a run ends at most once, announces only
that end, and a signal it accepted stays known and is recorded at most until the
end. `WrkRun!KeepsPromise` is the refinement. `BeatenRun` is what the drivers see of
it from outside: a run is there, overdue or ended (`SeenAs`), one process or a helper
of a killed one has its lock (`Holder`), and its end is announced or not.
`WrkRun!IsBeaten` is that refinement.

### BackgroundJobs: managed commands of hosts over one database

A job's `stage` is where it is between admission and the moment its manager
forgets it; `suppress`, `shutdown` and `stopped` are the flags of `bgJob` and its
context; `marker` is the `background_jobs` table; `told` and `lost` are the
completion and the recovery notices; `checks` and `due` the progress checks. Every
critical section of `jobManager.mu` and every durable write is one action, so the
window between reading a flag under the lock and acting on it is in the model
(`ReadFlags` then `Tell` or `ClearMarker`). A host boots, recovers (`RecoverList`,
`RecoverSkip`, `RecoverTell`, `RecoverDrop`), serves, closes (`CloseBegin`,
`CloseDone`), exits, is replaced by exec, or is killed; a killed host's commands
run on.

A Close is either the one the host waits for (`closing`) or the one that SIGTERM makes
the runtime's own goroutine begin (`hurried`). In the second case the deferred Close
finds `rt.closed` set and returns at once, so the process may exit, or replace itself,
with the jobs in any state: `ExitEarly` and `ReExecEarly`, counted in `cuts`. Process
ids are finite (`Pid`): `Boot` takes any free one, which may be that of a dead host
whose rows are still there, and `reused` is the rows whose id some unrelated process
has when recovery looks; `Alive` is what `pidAlive` answers, for whichever process.

`CommandPromise` is the abstract specification. A command that was `taken` is `kept`
while a live manager or a row answers for it; it starts only while it is kept, is let
go of only when it was told, reported lost or `excused` (the user stopped it, or its
row could not be written), and only an end of its own is told, before it is let go
of. `BackgroundJobs!KeepsPromise` is the refinement. A killed host lets go of many
commands in one abstract step; most steps of a manager are stutters.

### NoticeInbox: the `main` inbox and its automatic delivery

A notice's body is a number of *units* (whole characters; the batch limit of 32 KiB
and the limit of `inbox read` are numbers of them). `place` is the directory that
holds the notice, `delivered` and `read` the two progress files, `lease` the flock
on `inbox-reader.lock`, `batch` and `left` the memory of the host that delivers,
`unsaved` and `saved` what of a prompt is in the conversation only and what is in
SQLite. A host prepares a batch (`PrepareBatch`, with `PartOf` and `NextBatch` for
the budget arithmetic), starts the turn (`Send`), ends it (`TurnDone`,
`TurnFails`), looks for its input in SQLite (`Verify`) and commits part by part and
file by file (`LookAt`, `SaveProgress`, `RecordRead`, `WriteRead`, `Validate`,
`Move`, `ClearRead`, `DropProgress`); any of these can fail and any host can die.
`inbox read` prints first and records later (`InboxRead`, `CliRecord`, `CliWrite`);
`inbox archive` checks every id before it moves the first (`CliCheck`, `CliMove`,
`CliClear`). The history variables `given` and `shown` exist for the properties
only.

`InboxPromise` is the abstract specification: a notice becomes known from its
beginning without a gap, and leaves the inbox once, when all of it is known. Known
is what was saved in a conversation or printed by `inbox read` (`saved \cup shown`);
`NoticeInbox!KeepsPromise` is the refinement.

### ScheduleLedger: scheduled invocations

`row` is the table `schedule_runs`, `wf` the run directory an invocation names (from
`absent` over `partial`, made but not filled, to its outcome), `receipt` its terminal
notice, `held` its `beat.lock`. A manager's clock and its reconcile loop start
goroutines; `by`, `on`, `pc` and `goal` say in which process one runs, on which
invocation, where in Executor.Run or Resume, and what it is about to record.

| code | actions |
| --- | --- |
| Manager's clock, `shell3 schedule run` | `Launch`, `RunByHand` |
| Executor.Run: StartScheduleRun, wrk.Start, failures between them | `StartScheduleRun`, `StartRun`, `StartFails` |
| drive: the look at the run, then a beat of it | `Look`, `BeatTakes`, `BeatRefused`, `BeatMisleads`, `Settles`, `BeatReturns` |
| finishTerminal, FinishScheduleRun | `Confirms`, `FinishScheduleRun`, `FinishFails` |
| reconcile and Executor.Resume | `Reconcile` |
| Manager start, stop and Close with its WaitGroup | `HostStart`, `HostStop`, `ManagerClose` |
| router, `wrk beat`, `wrk cancel` | `OtherBeat`, `OtherBeatEnds`, `OtherBeatDies` |
| agent helpers, directories and deadlines that age, kills | `HelperExits`, `Age`, `Expire`, `Crash` |

A beat is what `BeatenRun` says of it: the lock and what its holder does at once
(`Begins`), perhaps the end of the run (`Settles`), the lock given back with the end
announced or not (`Ends`). An agent helper keeps the lock of a killed driver until it
exits. A beat of others that meets an ended and announced run writes no file and is
left out; the refusal that a goroutine of the ledger may get meanwhile is in
`BeatRefused`. The second beat of drive (`schedule.go:180`) is only reached when the
deadline has passed, and the first beat has then ended the run. A scheduled run always has a
destination for its notice (`lispconfig/config.go:286` and `:377`), so an announced
end is one with a `notify.json`.

### ChatTurn: one conversation, its turns and its store

`messages`, `persistedLen` and `inbox` are those of `chat.Session`; `disk`, `marker`
and `gone` the rows of the store; `pc` the turn goroutine. A message is a role and
the number of results its exchange still owes: calls are answered in order, so this
is all that decides whether a history is valid.

| code | actions |
| --- | --- |
| Send, RunQueued, Interject, Cancel, a reader that goes away | `Send`, `RunQueued`, `Interject`, `Cancel`, `Abandon` |
| maybeCompact: prune, summarise, roll the session | `SkipCompact`, `Prune`, `Compact` |
| the rounds of runTurn | `Assemble`, `Reply`, `Calls`, `StreamFails`, `ToolCall`, `ToolsCancelled`, `NextRound`, `Panic` |
| saveHistory, the terminal event, the unwinding | `SaveHistory`, `TerminalEvent`, `Unwind` |
| NewSession, resume, Close, the marker, a kill | `Open`, `Close`, `CloseEnds`, `MarkCurrent`, `Crash` |

### TelegramRooms: rooms, slots and the drain

A message is `new`, `held` or `settled`; it waits in a burst, a queue, the steering
inbox, a carrier on its way into the room, or a turn. `turn[c]` is both the slot of a
room and where its goroutine is, `active` the counter under the other mutex, `at` and
`left` the goroutine that has given up its slot and looks for the next work of all
rooms. An action is one critical section of the conversation's mutex.

`main` is the conversation of a room, `row` its row of `current_sessions`, `cached` the
copy of that marker in memory, `records` the conversations that have a row in
`sessions` and `stored` those that have messages, which `EndSession` spares. `Found` is
what an earlier process may have left for the home chat: nothing, a conversation with
messages, an empty one, or a marker without its record. Whoever loses the race to make
a room's session closes the one it made (`Installs`), also when both resumed the same.

| code | actions |
| --- | --- |
| handleMsg, commands | `AcceptText`, `AcceptMedia`, `Ask`, `Stop`, `Superstop`, `NewCommand` and its `CloseOld` |
| flushBurst, dispatchMessages | `FlushBurst`, `Check`, `Dispatch` |
| runUserTurn, mainSession, finishPostedTurn, releaseSlot | `Create`, `Install`, `CreateFails`, `ResumeFails`, `RoundBoundary`, `FinishTurn` (with `SavesHistory` and `MarkCurrent`), `FreeTurn` |
| WakeInbox, startInboxTurn, startJobPoll | `WakeInbox`, `InstallForInbox`, `PrepareBatch`, `PrepareNothing`, `Rested`, `AskForCheck`, `Probe` |
| startNextWorkAll and the ticker of Run | `Sweep`, `Tick` |
| armRestart, finishRestartDrain | `ArmRestart`, `QueueBurstForRestart`, `FinishRestartDrain` |

### HostConfig: reloading the configuration of a running host

The file, the text the controller and the bot use, the runtime's factory, and for
each session its configuration, its queued one and the one its turn captured. A
reload is `BeginReload` (read once, check), `Snapshot` (take the registry, build with
no lock held), `Publish` (all sessions in one critical section, or again from the
snapshot) and `Apply` (the bot's settings). `Create`, `Decorate`, `Send`,
`TurnReturns`, `TurnEnds`, `BeginClose`, `Forget` and `CloseRuntime` are what sessions
do meanwhile, `Edit` what the editor does to the file.

### HostRestart: images of a host and their journal

`journal` is `host-actions.json`, `actions` its copy in memory, `loadErr` that it
could not be read at boot, `handoff` the environment variable an exec leaves.
`RequestRestart`, `CancelRestart` and `RecordDue` are a turn's call of the tool and the
receipts that follow it; `Leave` is RestartReady; `Execute` and `Exec` are the deferred
call that records and then replaces the image; `ComeUp` is newTelegramCommand up to
openHostFeedback; `Halt`, `Launch`, `Edit` and `Touch` are a kill, the service
manager, the editor and the disk. A write may be done and still be reported as
failed, since `fsstate.Write` syncs the directory last.

### How the modules fit together

Five refinements are checked and proved. Three show a component against the promise
it makes: `WrkRun` implements `RunOutcome`, `BackgroundJobs` implements
`CommandPromise`, `NoticeInbox` implements `InboxPromise`. The other two compose the
workflow runtime with the schedules, by assumption and guarantee over `BeatenRun`:

- `WrkRun` implements `BeatenRun` (`IsBeaten`): whatever a beat or a cancellation does
  inside, its driver does to a run no more than `BeatenRun` allows;
- each run of `ScheduleLedger` implements `BeatenRun` (`RunsAreBeaten`): the goroutines
  of the ledger, the others and the clock together do to a run no more than that;
- what `BeatenRun` allows a driver outside of the ledger, `ScheduleLedger` allows too
  (`OutsidersCovered`, proved only): the ledger does not assume of the router, of
  `wrk beat` or of `wrk cancel` less than the runtime may do. A beat of a run that is
  already announced is left out on both sides of this, because it writes no file.

The rest meets at interfaces that one of the modules keeps abstract: a turn in
`TelegramRooms`, `NoticeInbox` and `HostConfig`, the drain and the reload in
`HostRestart`, the exec in `BackgroundJobs`. Each leaves free what the detailed module
determines, so that the detailed one does nothing the abstract one excludes; these
correspondences are not checked by a refinement.

## 3. What is checked

Passing runs:

| run | instance | shows |
| --- | --- | --- |
| `wrk_chain` | reader, then writing loop, beside them a timed wait; router and `wrk run` as drivers, one canceller, one signal, two faults | no accepted signal lost, notices tell the outcome, at rest the next beat reads of every node what the last one decided, loops within their budget, the refinement of `BeatenRun` (an end is final, and announced only when it is there) |
| `wrk_fan` | a wait and a command, behind them a reader and a writer that could share a wave; a malformed signal, one fault | a writer alone, outcomes justified, the refinement of `RunOutcome` |
| `wrk_live` | the chain with the router, a canceller and one fault, under fairness | an expired run ends, a marked run ends, an outcome is announced |
| `jobs_host` | two commands of two rooms, one slot, two process ids, close, an end in the middle of it, exec, one kill, one failed write | the refinement of `CommandPromise` (no result forgotten, invented or told late), a fault or a Close cut short for each repeated report, the store quiet when closed, losses reported unless the id of the dead process is in use again |
| `inbox_delivery` | two hosts, one command line, a two-unit and a one-unit notice, batches of two units, two commands, one fault | the refinement of `InboxPromise` (nothing known with a gap, nothing archived unseen or twice), only saved notices cleared, no repeat without a failure, every notice reviewed |
| `sched_host` | one skip schedule fired twice, a resident host and a `schedule run`, two goroutines, another driver, agent helpers, one fault | `SkipAlone`, `ClockOwned`, `DoneIsDelivered`, that every run is a `BeatenRun`, and that rows settle while a host keeps the clock |
| `chat_turns` | two turns of up to one tool round of two calls, a blank steering text, one notice, two stored sessions, one fault | `RequestValid`, `StoredPaired`, `ResumeSeesAll`, `GoneIsEmpty`, and that Close returns |
| `telegram_rooms` | the home chat, left with an empty conversation or a marker without a record, and a group under a cap of one turn, a text and two attachments, one event | `SlotsCounted`, `SameConversation` (`TurnsTalkToMain`: turns, room and marker in memory agree; `MarkedAndKept`: what a restart needs of a conversation, its record and its row, survives create races, failed writes and closes), `NothingLost`, and that messages are answered |
| `host_reload` | two sessions, texts that are reloadable, restart-only, without a key and broken; no bound on reloads, edits and turns | `NextTurnPublished`, `ToolsKept`, `OnlyChecked`, `OneGeneration`, and that a reload answers |
| `host_restart` | three images, a journal of two receipts | `CompletedFounded`, `RestartConfirmed` |

`inbox_blank` and `rooms_wedge` are violated; see Disagreements.

Every property of a passing run has a mutant, a faulty variant of one definition
(kept in the module, marked as such) under which TLC finds it violated; this shows
that the instance is large enough to reach the case the property is about.

Bounds. `MaxFaults`, `MaxCrashes`, `MaxErrors`, `MaxImages`, `MaxCommands`, `MaxEvents`
and `MaxHosts` bound what the environment may do, not what the program does. Two
faults are the smallest number for which a crash follows a host stop or a failed
write of the same run; one is enough where the property speaks of a single unit of
work. Two drivers, hosts, commands, rooms, invocations or sessions are what an
interleaving needs. In `inbox_delivery` the batch limit is smaller than the backlog,
so a body is delivered in chunks, with another notice between them. Two process ids
(`Pid`) let a host that boots again get the id of its predecessor, or another one.
`Found` of `telegram_rooms` makes the home chat inherit and the group start afresh; with
the home chat alone, one text, every `Found` and three events TLC finds `MarkedAndKept`
kept as well. `cuts` needs no bound of its own: a Close that is cut short
uses up a boot (`MaxImages`). The cap of
`telegram_rooms` is one, so that a message meets a busy room and a busy bot. A journal
keeps 12 receipts in the code and two here: with two, a queued restart and its
execution already push older ones out. Two goroutines of `ScheduleLedger` are one
invocation and its reconcile, or both invocations. The proofs of section 4 depend on
none of these values.

Deadlock checking is off for `jobs_host`, `inbox_delivery`, `inbox_blank`,
`sched_host`, `chat_turns`, `telegram_rooms` and `rooms_wedge`: their bounds on boots,
commands, turns and messages let the system stop there, and a signaled restart ends
the process of `TelegramRooms`.

Fairness, and why the code justifies it:

- *Runs*: the router enqueues every registered run every five seconds, a beat that
  has the lock runs to its end, a flock that becomes free again and again is in the end
  granted to Cancel, which blocks on it (strong fairness), agents are bounded by their
  timeout, helpers exit when their driver's pipe closes. Nothing is assumed of signals,
  the clock or the canceller.
- *Jobs*: goroutines run, a cancelled process group is killed within `bgWaitDelay`, the
  service manager starts a host that went down. A command that nobody cancelled may run
  forever.
- *Inbox*: a host that is up and not paused keeps looking at the inbox (console poll
  tick, Telegram's ticker) and its turns end. No user, no command line and no boot is
  promised, hence the right-hand side of `Reviewed`. Bodies are assumed not to be empty.
- *Schedules*: goroutines go on, a manager that was told to stop closes, the reconcile
  ticker looks at every running row again and again (strong fairness, because the last
  goroutine number of the model may be taken whenever it does), beats of others end,
  agent helpers exit and directories grow older than the start grace. Firings, restarts and beats of
  others are never promised, hence "or nobody has the clock" in `RowSettles`.
- *Conversations*: the turn goroutine and a Close go on, which includes that the
  provider and the tools return once they are cancelled. No reader is promised.
- *Rooms*: the update loop with its ticker goes on (weak), and some goroutine of a
  room does (strong, for all of them together: a room's mutex is never held for ever,
  although the ticker takes it again and again). Nothing is promised of users, mail or
  commands.
- *Reloads*: a reload goes on (weak). Nothing makes a turn return, which is the point:
  a reload that waited for one would never answer. Its retries are bounded because the
  registry changes finitely often: session names are not reused in the model.
- *Restarts*: none; every property of `HostRestart` is a safety property.

### Disagreements

Where the code does something else than is said of it. Two are runs whose only
property states the sentence, and which TLC violates by what the code does:

| run | property | what happens |
| --- | --- | --- |
| `inbox_blank` | `DeliveredArchives` | a notice without a body never gets the progress record that archiving demands; Commit stops there after every turn and the later notices of its batch are sent again |
| `rooms_wedge` | `RestartSettles` | armRestart says that the final completing turn signals the restart; a final turn whose session cannot be made frees its slot without asking (`conversation.go:178`), and the bot refuses every message from then on |

The others are stated as properties in the modules, next to the ones that hold, and
TLC finds each violated when it is put in a cfg of the module (`MarkerResumes` with
`Found = {"empty"}`, where the marker has its record at the start):

| property | code | said in | what happens |
| --- | --- | --- | --- |
| `WrkRun!WaitingNeedsEvent` | `runtime.go:457` | `docs/wrk.md:140` | a wave ends in `waiting` as soon as one node waits, though an unrelated agent could run now |
| `WrkRun!FailureIsVerdict` | `runtime.go:580` | `docs/wrk.md:128-131` | a host that stops during a node's check fails the node for good: the context is consulted after the agent and the command, not after the check |
| `WrkRun!TimelySignalSucceeds` | `control.go:306` | `runtime.go:969-970` | the first matching event in the order of random ids is the only one compared with the deadline, so a late signal can hide a timely one |
| `WrkRun!SignalRecorded` | `control.go:291` | `docs/wrk.md:170-172` | a notice with an event name that ingestion refuses stays in `processing`, and every later beat fails on it |
| `BackgroundJobs!LossReportedByNext` | `background_recovery.go:79` | `docs/operations.md:90-92` | after a restart by exec the markers of the old image carry a live process id, and their loss is not reported |
| `BackgroundJobs!ShutdownCancels` | `shell3/runtime.go:316` | `docs/operations.md:90` | after SIGTERM nobody waits for the Close of the runtime's own goroutine (`runtime.go:110-113`): the deferred one returns at once, the process may be gone with a command still running, and the next start reports it as lost |
| `BackgroundJobs!SuperstopSilent` | `completion.go:27` | `telegram/commands.go:88-90` | a completion that read its flags before `/superstop` marked the job still posts its notice |
| `ScheduleLedger!FailedIsFailed` | `schedule.go:169` | `docs/internals.md:312-313` | a reconcile that meets a run directory which is made but not filled records a failure, and the run goes on |
| `TelegramRooms!DrainIncludes` | `telegram/inbox_turn.go:70` | `controltool.go:169-171` | a goroutine that freed its slot and has yet to look at its queue loses it when another one signals the restart |
| `TelegramRooms!MarkerResumes` | `conversation.go:264` | `conversation.go:230-232` | a turn and WakeInbox resume the same empty conversation; the Close of the loser deletes its record, the winner's turn marks it again, and after a restart the room cannot be resumed until `/new` |
| `TelegramRooms!NewIsFinal` | `conversation.go:260` | `commands.go:133-134` | a wake of the inbox that read the marker before `/new` puts the replaced conversation back |
| `HostRestart!RestartExecs` | `telegram_lisp.go:49` | `docs/operations.md:86-88` | with a journal that could not be read at boot a queued restart drains the host and then stops it |
| `ChatTurn!OriginalsKept` | `compact.go:178-190` | the comment there | a tool result whose save failed is pruned in memory and stored as its stub by the next save |

Seen while modelling and not stated as properties: two readers of a progress file can
take it back (`inbox read` racing Commit), which repeats but never skips; with two
hosts attached the chunks of one notice may go to two conversations; a text queued to steer a
conversation is gone when `/new` replaces it; receipts of a queued and of a cancelled
restart may be recorded out of order when two turns race; a configuration that
prepareRestart accepted may be broken when the new image reads it, and the host then
stays down until it is launched again; a reload can fail with ErrClosed while a
session is closing, which keeps the old configuration everywhere. The recovery of
background jobs works through rows it has read once (`background_recovery.go:71-79`):
a command of another host of the same project that tells its result, clears its row
and exits with its host meanwhile is then reported as lost as well. Nothing failed and
no Close was cut short in this, which is why `DuplicateNeedsFault` speaks of the commands of the recovering host
only, as `CommandPromise` speaks of none.

## 4. What is proved

TLAPS proves, for all values of the constants that satisfy the assumptions named in
the modules:

- `WrkRunProofs`: the types, every safety property of `wrk_chain` and `wrk_fan`, also
  `OneOwner`, `DependencyOrder`, `FewRepeats`, `OutcomeFinal` and `NodeOutcomeFinal`,
  which no run lists, and both refinements, `RunKeepsPromise` of `RunOutcome` and
  `RunIsBeaten` of `BeatenRun`.
- `BackgroundJobsProofs`: the types, `StoreQuiet`, `DuplicateNeedsFault`, the
  refinement `JobsKeepPromise` of `CommandPromise`, also `ResultKept`, `ToldIsReal` and
  `CheckFounded`, which no run lists.
- `NoticeInboxProofs`: the types, `ClearsOnlySaved`, `NoNeedlessRepeat`, the refinement
  `InboxKeepsPromise` of `InboxPromise`, also `NothingSkipped` and `ProgressFounded`,
  which no run lists.
- `ScheduleLedgerProofs`: the types, `SkipAlone`, `ClockOwned`, `DoneIsDelivered`,
  `RowFinal`, that only a goroutine inside a beat holds a lock (`BeatsExclusive`), that
  each run implements `BeatenRun` (`RunIsBeaten`, and `RunsBeaten` for all of them), and
  that no step `BeatenRun` allows others is missing from the ledger
  (`OutsidersCovered`).
- `ChatTurnProofs`: `RequestValid`, `StoredPaired`, `ResumeSeesAll`, `GoneIsEmpty`, for
  histories of any length.
- `TelegramRoomsProofs`: the types, `SlotsCounted`, that there are never more turns than
  the cap, `SameConversation`, `NothingLost`.
- `HostConfigProofs`: the types, `NextTurnPublished`, `ToolsKept`, `OnlyChecked`,
  `OneGeneration`.
- `HostRestartProofs`: the types, `CompletedFounded`, `RestartConfirmed`, `JournalGrows`
  (which no run lists), for a journal of any length.

Assumptions: `TaskAssumption` (what validateGraph and validateNode establish: known
kinds, acyclic dependencies, distinct places), `WorldAssumption`, `JobsAssumption`,
`InboxAssumption`, `ScheduleAssumption`, `TurnAssumption`, `RoomsAssumption`,
`ConfigAssumption` and `RestartAssumption` (disjoint sets, finite ones where something
is counted, positive limits, and that a host was booted with a text that loads). No
bound on faults, processes or lengths is used beyond being a natural number.

The argument is the same in each: an inductive invariant ties the program counters
to the files.

- *Runs* (`WrkRunInductive`). The checked invariants are not inductive: that nobody
  but the lock holder is inside a beat does not say what the holder may rely on.
  `StatusByPc`, `ClaimByPc`, `MarkByPc`, `NoticeByPc`, `NodeByPhase`, `MemoryByPc`
  say it, one part of the state each; the last of them ties what a beat remembers
  (`states`) to the files, node by node: they agree except where a write of the wave in
  progress failed, and then the wave cannot end at rest. `StopsOwner` and `TriesByNode` carry the
  budget of a loop through interruptions: `Charged` leaves out a stop that the
  current beat has not answered yet. There is one lemma per conjunct and in each
  one step per action. For `BeatenRun`, `OwnerAtWork` says
  that a held lock belongs to a process that is inside a beat or a cancellation: no
  return of either forgets it.
- *Jobs*. `LiveHere` (a job is in the memory of the process that admitted it), `CommandByStage`,
  `StoppedMarked` and `RowByStage` relate the stage of a job to its process, its
  flags and its row; `ResultKept` then survives each crash because a job that has
  a command has its row, or an excuse for not having one, until its notice is written.
  `ResultKept` in the state after a step is also what lets that step let go of a command
  in `CommandPromise`. `DuplicateNeedsFault` counts the report that is still to come
  (`Owing`: of the job, or of a row it left) together with those that were made
  (`FewReports`); a report settles what is owed, and each step that makes a command owe
  one again is a kill, a failed write or a Close cut short. `RecoverOK` says that the list a recovery
  works through names only rows that are still there, as far as its own host's
  commands go.
- *Inbox*. `LeaseOK` makes deliveries exclusive; `BatchOK` says that a part of a
  batch continues a saved prefix of its notice and where the delivered progress is
  before and after Commit handles it; `PromptOK` that Commit works on a saved
  prompt; `StageOK` that only a part which ends its notice is on the way to the
  archive; `CliOK` what a command that takes no lock may rely on between its
  steps; `CreatedOK` that Commit has one part in hand. `GivenOK` adds, for
  `NoNeedlessRepeat`, that a unit which was given is archived, behind the delivered
  progress or in the batch in flight. `GapFree` adds, for `InboxPromise`, that all
  of a notice that comes before an unsaved part of it is saved, so that saving the part
  leaves no gap, in whichever order hosts save.
- *Schedules*. What a goroutine may record depends on what it has seen of a run that
  others beat, cancel and expire meanwhile: an outcome and a receipt never go away, so
  a goal of `done` stays justified between the look and the update. `SkipAlone` needs
  that admission is one transaction, whoever asks. `LockOK` ties the lock of a run to
  the one goroutine that is inside a beat of it; with it every step of the ledger is, to
  each run, a step of the run's holder.
- *Conversations*. `HistoryOK`, that a history is in order at every moment and complete
  outside of a round, is preserved by what a turn appends (`TurnGrows`) and by what
  compaction cuts (`CompactStep`). `CopyOK` says that the stored session is a prefix
  of the memory, message by message; a save extends it, a roll replaces both.
- *Rooms*. `Slots` counts two sets, the rooms with a turn and the goroutines that have
  yet to give their place back; each step moves one element or none. `Probes` makes
  the one slot taken without a turn the property of one goroutine. `Dialogs` follows
  the conversation through the stages of a turn, `Hands` what a carrier and a slot
  hold: all of a carrier's messages are for one room, and an idle slot holds none. `Kept` says
  that a conversation which this process started has one holder (the room, the turn that
  opened it, WakeInbox, or `/new` about to close it), so that a Close takes it from nobody;
  an inherited one may have two, which is why `MarkedAndKept` makes it the exception.
- *Configuration*. The properties speak of the moments between reloads and of running
  turns; the invariant says the same of all moments: which texts may be in anybody's
  hands, that only the runtime is ahead while a reload applies the rest, and that a
  queued generation exists only for a busy session.
- *Restarts*. While a host runs, its memory continues the journal it read
  (`KeepsTail`), which saving preserves when it drops old receipts (`TailKept`);
  from the moment a host is being replaced until the next image reads it, the journal
  holds the old one's word (`HandedOver`).

Only model-checked: the liveness properties (`DeadlineEnds`, `CancelEffective`,
`OutcomeAnnounced`, `LossReported`, `Reviewed`, `RowSettles`, `CloseReturns`,
`MessagesAnswered`, `ReloadAnswers`), since fairness and ENABLED are outside the
prover's reach, and the properties the code violates. The inductive invariants
were checked by TLC, on the same instances, before they were proved. No module declares
a RECURSIVE operator.

## 5. What is not modelled, and why

- Inspect and Wait of a run: they write nothing. A Start that dies half way is part of `ScheduleLedger`.
- The router's registry files, its semaphore and its quarantine of a failing run: the
  router is a driver that beats a registered run for ever in `WrkRun` and one of the
  other beats of `ScheduleLedger`.
- Parsing and validation of workflow files and of the configuration: functions of a
  text without state. `TaskAssumption` and `ConfigAssumption` state what they establish.
- The text of prompts, notices and results, the capture limits of a command's output,
  UTF-8 back-off of a chunk (units are whole characters), token accounting (pruning and
  compaction may happen at any time instead), attachments, rendering.
- The Bot API client and its retries: a reply is posted or it is not. The move of
  a group that became a supergroup (`migrateRoom`, `conversation.go:611`), which takes a
  room's queues, session and marker to another chat id in one critical section.
- In `TelegramRooms`, compaction, which gives a conversation another stored id
  (`ChatTurn` has it: `Compact`).
- The deferred exec of a restart when `os.Executable` fails (`telegram_lisp.go:48`): the
  host has drained, records a failure and stops, as after an exec that fails.
- The console's line editor and the serialisation of its single session: one goroutine.
- Reads of archived notices and reads past the end of a body: they change no file.
- Wake sockets are hints; they may always be lost, and the tickers do the same work.
- In `TelegramRooms` at most one goroutine per room is past its turn; mail that never
  ends, which could starve a capped room, is excluded by `MaxEvents`.
- In `HostRestart` the teardown of a host outlasts the writing of a receipt that is
  due; `status` and `validate`, which change nothing, are left out of `HostConfig`.
- Two database connections of one process: SQLite's transactions are single steps.
- Hazards that hold by one critical section and have no property of their own: the
  admission of a command at the cap (`jobs.go:195`). Folded into another: a command that
  ends just before cancelAll (`completion.go:32`, in `ToldIsReal`).
