------------------------------- MODULE ChatTurn -------------------------------
(***************************************************************************)
(* One conversation: a shell3.Session with its chat.Session, the turn      *)
(* goroutine of Send, and the rows of the runs store behind them.          *)
(*                                                                         *)
(* A history is a sequence of messages.  Of a message only the role, the   *)
(* tool calls its exchange still owes after it, and whether its output was *)
(* pruned are kept: call ids are given out in order and answered in order, *)
(* so the number owed says which result has to come next.                  *)
(*                                                                         *)
(* The provider, the tools and the gauge that decides on pruning and       *)
(* compaction answer freely.                                               *)
(***************************************************************************)
EXTENDS Integers, Sequences

CONSTANTS
  Steer,       \* texts a user sends while a turn is running
  Notice,      \* host notices queued for the conversation
  Blank,       \* those of them of which nothing is left after trimming
  MaxTurns,    \* bound on turns
  MaxRounds,   \* bound on the tool rounds of a turn
  MaxCalls,    \* bound on the tool calls of a message
  MaxSessions, \* bound on stored sessions
  MaxFaults    \* bound on errors, cancellations, failed writes, lost readers
               \* and crashes

ASSUME TurnAssumption ==
  /\ Steer \cap Notice = {} /\ Blank \subseteq Steer \cup Notice
  /\ {MaxTurns, MaxRounds, MaxCalls, MaxSessions, MaxFaults} \subseteq Nat

VARIABLES
  messages,     \* chat.Session.messages
  persistedLen, \* how many of them reached the store
  inbox,        \* chat.Session.inbox, the texts queued in it
  live,         \* the Session: "none", "open", "closing" or "ended"
  pc,           \* where its turn goroutine is
  prompt,       \* the turn has a message of its own, it is no RunQueued
  rounds,       \* tool rounds of the turn so far
  cancelled,    \* the turn's context is cancelled
  reader,       \* somebody receives from the channel Send returned
  disk,         \* the rows of each stored session
  gone,         \* the stored sessions that were deleted
  current,      \* the session the conversation writes to (Session.ID)
  marker,       \* current_sessions: the one a restart resumes, 0 for none
  unsaved,      \* the last save failed
  turns, faults

memory == <<messages, persistedLen, inbox>>
turn == <<pc, prompt, rounds, cancelled, reader>>
store == <<disk, gone, marker>>
bounds == <<turns, faults>>
vars == <<memory, live, turn, store, current, unsaved, bounds>>

Item == Steer \cup Notice
Pc == {"idle", "compact", "assemble", "stream", "tools", "save", "emit", "unwind"}
Message == [role : {"user", "assistant", "tool"}, owed : 0..MaxCalls, stub : BOOLEAN]
Msg(role, owed) == [role |-> role, owed |-> owed, stub |-> FALSE]

Owed(s) == IF s = <<>> THEN 0 ELSE s[Len(s)].owed

\* ValidateToolOrder: results follow their calls and nothing comes between.
Ordered(s) ==
  \A i \in DOMAIN s :
    IF i > 1 /\ s[i - 1].owed > 0
      THEN s[i].role = "tool" /\ s[i].owed = s[i - 1].owed - 1
      ELSE s[i].role # "tool"
Paired(s) == Ordered(s) /\ Owed(s) = 0

\* The results still owed after s: one for each call.
Answers(s) == [i \in 1..Owed(s) |-> Msg("tool", Owed(s) - i)]

Init ==
  /\ messages = <<>> /\ persistedLen = 0 /\ inbox = {}
  /\ live = "none"
  /\ pc = "idle" /\ prompt = FALSE /\ rounds = 0 /\ cancelled = FALSE /\ reader = FALSE
  /\ disk = <<>> /\ gone = {} /\ current = 0 /\ marker = 0
  /\ unsaved = FALSE /\ turns = 0 /\ faults = 0

Fault == faults < MaxFaults /\ faults' = faults + 1

\* Bug: route waits for its reader only.
EmitsToReader == reader

\* route: an event waits for its reader unless the turn is cancelled.
Emits == reader \/ cancelled

-----------------------------------------------------------------------------
(* The life of the session.                                                *)

\* LoadMessages: a deleted session cannot be loaded.
Loads(s) == s \notin gone /\ Paired(disk[s])

\* NewSession of chat: what was loaded is on disk already.
Seed(history) ==
  /\ messages' = history /\ persistedLen' = Len(history)
  /\ inbox' = {} /\ unsaved' = FALSE

\* newSession: resume what the marker names, or start a stored session.
Open ==
  /\ live \in {"none", "ended"} /\ pc = "idle"
  /\ IF marker # 0
       THEN /\ Loads(marker)
            /\ current' = marker /\ Seed(disk[marker])
            /\ UNCHANGED disk
       ELSE /\ Len(disk) < MaxSessions
            /\ disk' = Append(disk, <<>>)
            /\ current' = Len(disk) + 1 /\ Seed(<<>>)
  /\ live' = "open"
  /\ UNCHANGED <<turn, gone, marker, bounds>>

\* Interject, InterjectHostNotice: from any goroutine, at any time.
Interject(x) ==
  /\ live \in {"open", "closing"}
  /\ inbox' = inbox \cup {x}
  /\ UNCHANGED <<messages, persistedLen, live, turn, store, current, unsaved, bounds>>

HasSteer == inbox \cap Steer # {}

\* Send refuses while a turn runs and after Close.
Send(withPrompt) ==
  /\ live = "open" /\ pc = "idle" /\ turns < MaxTurns
  /\ pc' = "compact" /\ prompt' = withPrompt
  /\ reader' = TRUE /\ turns' = turns + 1
  /\ UNCHANGED <<memory, live, rounds, cancelled, store, current, unsaved, faults>>

\* A turn of its own for a steer that came after the last round of a turn.
RunQueued == HasSteer /\ Send(FALSE)

\* The caller's context is cancelled: /stop, a signal.
Cancel ==
  /\ pc # "idle" /\ ~cancelled
  /\ Fault
  /\ cancelled' = TRUE
  /\ UNCHANGED <<memory, live, pc, prompt, rounds, reader, store, current, unsaved, turns>>

\* The caller stops reading the channel of its turn.
Abandon ==
  /\ pc # "idle" /\ reader
  /\ Fault
  /\ reader' = FALSE
  /\ UNCHANGED <<memory, live, pc, prompt, rounds, cancelled, store, current, unsaved, turns>>

\* doClose sets closed and cancels the turn ...
Close ==
  /\ live = "open"
  /\ live' = "closing"
  /\ cancelled' = (cancelled \/ pc # "idle")
  /\ UNCHANGED <<memory, pc, prompt, rounds, reader, store, current, unsaved, bounds>>

\* EndSession deletes a conversation without messages and job logs.
EndSession(logs) ==
  IF disk[current] = <<>> /\ ~logs
    THEN /\ gone' = gone \cup {current}
         /\ marker' = IF marker = current THEN 0 ELSE marker
    ELSE UNCHANGED <<gone, marker>>

\* Bug: the stored session is ended while the turn still runs.
CloseUnjoined ==
  /\ live = "closing"
  /\ \E logs \in BOOLEAN : EndSession(logs)
  /\ live' = "ended"
  /\ UNCHANGED <<memory, turn, disk, current, unsaved, bounds>>

\* ... joins it, and only then ends the stored session.
CloseEnds ==
  /\ live = "closing" /\ pc \in {"idle", "unwind"}
  /\ \E logs \in BOOLEAN : EndSession(logs)
  /\ live' = "ended"
  /\ UNCHANGED <<memory, turn, disk, current, unsaved, bounds>>

\* The host records the conversation as the current one of its surface.
MarkCurrent ==
  /\ live = "open" /\ pc = "idle" /\ marker # current
  /\ marker' = current
  /\ UNCHANGED <<memory, live, turn, disk, gone, current, unsaved, bounds>>

\* The process dies; only the store is left.
Crash ==
  /\ live \in {"open", "closing"}
  /\ Fault
  /\ live' = "none" /\ pc' = "idle" /\ inbox' = {}
  /\ messages' = <<>> /\ persistedLen' = 0
  /\ cancelled' = FALSE /\ reader' = FALSE /\ prompt' = FALSE /\ rounds' = 0
  /\ UNCHANGED <<store, current, unsaved, turns>>

-----------------------------------------------------------------------------
(* maybeCompact: before the user message, and never the turn's failure.    *)

\* Below the thresholds, nothing to summarise, a failed or empty summary, or a
\* failed RollSession.
SkipCompact ==
  /\ pc = "compact" /\ pc' = "assemble"
  /\ UNCHANGED <<memory, live, prompt, rounds, cancelled, reader, store, current,
                 unsaved, bounds>>

\* Bug: the tail may start inside an exchange.
CutAnywhere(c) == c \in 1..Len(messages) - 1

\* compactionCut: the tail after it starts with no result of a cut-off call.
Cut(c) == c \in 1..Len(messages) - 1 /\ messages[c + 1].role # "tool"

\* pruneOldToolOutputs: results before the kept tail, in memory only.
Prune(c) ==
  /\ pc = "compact" /\ pc' = "assemble"
  /\ c \in 1..Len(messages) /\ (c < Len(messages) => messages[c + 1].role # "tool")
  /\ messages' = [i \in DOMAIN messages |->
                    IF i <= c /\ messages[i].role = "tool"
                      THEN [messages[i] EXCEPT !.stub = TRUE] ELSE messages[i]]
  /\ UNCHANGED <<persistedLen, inbox, live, prompt, rounds, cancelled, reader, store,
                 current, unsaved, bounds>>

\* The messages that never reached the store.
Pending == SubSeq(messages, persistedLen + 1, Len(messages))

\* RollSession: one transaction stores the rest of the old session and the
\* continuation, and moves the marker.
RollSession(continuation) ==
  /\ Len(disk) < MaxSessions
  /\ disk' = Append([disk EXCEPT ![current] = @ \o Pending], continuation)
  /\ marker' = IF marker = current THEN Len(disk) + 1 ELSE marker

\* compactInto publishes it in memory once it is stored.
CompactInto(continuation) ==
  /\ current' = Len(disk) + 1
  /\ messages' = continuation /\ persistedLen' = Len(continuation)

\* compactApply: a summary in place of the head, the tail as it is.
Compact(c) ==
  LET continuation == <<Msg("user", 0)>> \o SubSeq(messages, c + 1, Len(messages)) IN
  /\ pc = "compact" /\ pc' = "assemble"
  /\ Cut(c) /\ ~cancelled
  /\ RollSession(continuation) /\ CompactInto(continuation)
  /\ UNCHANGED <<inbox, live, prompt, rounds, cancelled, reader, gone, unsaved, bounds>>

-----------------------------------------------------------------------------
(* RunTurn.                                                                *)

\* Interjections of which something is left to show.
Texts(kind) == (inbox \cap kind) \ Blank

\* drainInbox: between rounds host notices wait for the next turn.
DrainInbox(steerOnly) == inbox' = IF steerOnly THEN inbox \cap Notice ELSE {}

\* A delivered notice leaves its one-line trace in the history.
Traced(history) ==
  IF Texts(Notice) # {} THEN Append(history, Msg("user", 0)) ELSE history

\* An inbox-seeded turn whose inbox held only blanks, without a history.
NothingToAsk == ~prompt /\ Texts(Item) = {} /\ messages = <<>>

\* The user message, then assembleTurnContext, which drains the inbox.
Assemble ==
  /\ pc = "assemble"
  /\ messages' = Traced(IF prompt THEN Append(messages, Msg("user", 0)) ELSE messages)
  /\ DrainInbox(FALSE)
  /\ pc' = IF NothingToAsk THEN "save" ELSE "stream"
  /\ UNCHANGED <<persistedLen, live, prompt, rounds, cancelled, reader, store, current,
                 unsaved, bounds>>

\* streamOnce runs to its end, its tokens are delivered.
Streams == pc = "stream" /\ ~cancelled /\ Emits

\* It returns a text, which may be empty.
Reply ==
  /\ Streams
  /\ messages' \in {messages, Append(messages, Msg("assistant", 0))}
  /\ pc' = "save"
  /\ UNCHANGED <<persistedLen, inbox, live, prompt, rounds, cancelled, reader, store,
                 current, unsaved, bounds>>

\* It returns calls.
Calls(n) ==
  /\ Streams /\ rounds < MaxRounds
  /\ messages' = Append(messages, Msg("assistant", n))
  /\ pc' = "tools" /\ rounds' = rounds + 1
  /\ UNCHANGED <<persistedLen, inbox, live, prompt, cancelled, reader, store, current,
                 unsaved, bounds>>

\* It fails, or the turn was cancelled: nothing of it is recorded.
StreamFails ==
  /\ pc = "stream"
  /\ IF cancelled THEN UNCHANGED faults ELSE Fault
  /\ pc' = "save"
  /\ UNCHANGED <<memory, live, prompt, rounds, cancelled, reader, store, current,
                 unsaved, turns>>

\* Bug: a result is recorded for a call that was answered.
ToolAgain ==
  /\ pc = "tools" /\ ~cancelled /\ Emits
  /\ messages' = Append(messages, Msg("tool", Owed(messages) - 1))
  /\ UNCHANGED <<persistedLen, inbox, live, turn, store, current, unsaved, bounds>>

\* executeToolCalls: one call, its result, whatever the tool makes of it.
ToolCall ==
  /\ pc = "tools" /\ Owed(messages) > 0 /\ ~cancelled /\ Emits
  /\ messages' = Append(messages, Msg("tool", Owed(messages) - 1))
  /\ UNCHANGED <<persistedLen, inbox, live, turn, store, current, unsaved, bounds>>

\* Bug: the calls that are left get no result.
ToolsStop ==
  /\ pc = "tools" /\ cancelled
  /\ pc' = "save"
  /\ UNCHANGED <<memory, live, prompt, rounds, cancelled, reader, store, current,
                 unsaved, bounds>>

\* Cancelled in the loop: every call that is left gets a synthetic result.
ToolsCancelled ==
  /\ pc = "tools" /\ cancelled
  /\ messages' = messages \o Answers(messages)
  /\ pc' = "save"
  /\ UNCHANGED <<persistedLen, inbox, live, prompt, rounds, cancelled, reader, store,
                 current, unsaved, bounds>>

\* All calls are answered: the next request.
NextRound ==
  /\ pc = "tools" /\ Owed(messages) = 0 /\ ~cancelled
  /\ DrainInbox(TRUE)
  /\ pc' = "stream"
  /\ UNCHANGED <<messages, persistedLen, live, prompt, rounds, cancelled, reader, store,
                 current, unsaved, bounds>>

\* A panic anywhere in the turn: completeInterruptedToolCalls, then the save.
Panic ==
  /\ pc \in {"compact", "assemble", "stream", "tools"}
  /\ Fault
  /\ messages' = messages \o Answers(messages)
  /\ pc' = "save"
  /\ UNCHANGED <<persistedLen, inbox, live, prompt, rounds, cancelled, reader, store,
                 current, unsaved, turns>>

\* AppendMessages: the new suffix in one transaction.
AppendMessages == disk' = [disk EXCEPT ![current] = @ \o Pending]

\* Bug: a failed batch moves the cursor.
SaveForgets ==
  /\ pc = "save" /\ pc' = "emit"
  /\ persistedLen' = Len(messages)
  /\ \/ /\ AppendMessages
        /\ unsaved' = FALSE /\ UNCHANGED faults
     \/ Fault /\ unsaved' = TRUE /\ UNCHANGED disk
  /\ UNCHANGED <<messages, inbox, live, prompt, rounds, cancelled, reader, gone, current,
                 marker, turns>>

\* saveHistory: the new suffix, or nothing and the cursor stays.
SaveHistory ==
  /\ pc = "save" /\ pc' = "emit"
  /\ \/ /\ AppendMessages
        /\ persistedLen' = Len(messages)
        /\ unsaved' = FALSE /\ UNCHANGED faults
     \/ Fault /\ unsaved' = TRUE /\ UNCHANGED <<disk, persistedLen>>
  /\ UNCHANGED <<messages, inbox, live, prompt, rounds, cancelled, reader, gone, current,
                 marker, turns>>

\* The terminal event, then Run returns and done is closed.
TerminalEvent ==
  /\ pc = "emit" /\ Emits
  /\ pc' = "unwind"
  /\ UNCHANGED <<memory, live, prompt, rounds, cancelled, reader, store, current,
                 unsaved, bounds>>

\* The deferred cleanup of Send: busy is cleared and the channel closed.
Unwind ==
  /\ pc = "unwind"
  /\ pc' = "idle" /\ prompt' = FALSE /\ rounds' = 0
  /\ cancelled' = FALSE /\ reader' = FALSE
  /\ UNCHANGED <<memory, live, store, current, unsaved, bounds>>

TurnStep ==
  \/ SkipCompact \/ Assemble \/ Reply \/ StreamFails \/ ToolCall \/ ToolsCancelled
  \/ NextRound \/ SaveHistory \/ TerminalEvent \/ Unwind
  \/ \E n \in 1..MaxCalls : Calls(n)
  \/ \E c \in DOMAIN messages : Prune(c) \/ Compact(c)

Next ==
  \/ Open \/ Close \/ CloseEnds \/ MarkCurrent \/ Crash
  \/ \E x \in Item : Interject(x)
  \/ Send(TRUE) \/ RunQueued
  \/ Cancel \/ Abandon \/ Panic
  \/ TurnStep

\* The turn goroutine and a Close go on; provider and tools return.
Fair == WF_vars(TurnStep) /\ WF_vars(CloseEnds)

Spec == Init /\ [][Next]_vars /\ Fair

-----------------------------------------------------------------------------
(* Properties.                                                             *)

\* Every variable keeps to its type.
TypeOK ==
  /\ messages \in Seq(Message) /\ persistedLen \in Nat
  /\ inbox \subseteq Item
  /\ live \in {"none", "open", "closing", "ended"}
  /\ pc \in Pc /\ {prompt, cancelled, reader, unsaved} \subseteq BOOLEAN
  /\ rounds \in 0..MaxRounds
  /\ disk \in Seq(Seq(Message)) /\ Len(disk) <= MaxSessions
  /\ gone \subseteq DOMAIN disk
  /\ {current, marker} \subseteq 0..Len(disk)
  /\ turns \in 0..MaxTurns /\ faults \in 0..MaxFaults

\* A request never shows the provider a result without its call or a call
\* without its result, whatever cancellation, panic, compaction or resume the
\* history went through.
RequestValid == pc = "stream" => Paired(messages)

\* Whatever the moment of a crash, the stored history of every session can be
\* resumed: ValidateToolOrder accepts it.
StoredPaired == \A s \in DOMAIN disk : Paired(disk[s])

Same(s, t) ==
  /\ Len(s) = Len(t)
  /\ \A i \in DOMAIN s : s[i].role = t[i].role /\ s[i].owed = t[i].owed

\* Once the terminal event of a turn is out, and its save worked, a restart
\* finds in the store all that the conversation holds, nothing twice: in the
\* session it writes to, which is the one the marker names, even when
\* compaction has moved to a new one.
ResumeSeesAll ==
  live = "open" /\ pc \in {"emit", "unwind", "idle"} /\ ~unsaved =>
    Same(disk[current], messages) /\ marker \in {0, current}

\* A turn never writes to a conversation that Close has ended and deleted.
GoneIsEmpty == \A s \in gone : disk[s] = <<>> /\ marker # s

\* Close returns, although the turn it waits for may be blocked on an event
\* nobody reads.
CloseReturns == live = "closing" ~> live # "closing"

\* The comment on pruneOldToolOutputs: the append-only store keeps originals.
\* Not so for a result whose save failed before it was pruned.
OriginalsKept ==
  [][\A s \in DOMAIN disk : \A i \in DOMAIN disk'[s] :
       i > Len(disk[s]) => ~disk'[s][i].stub]_vars
=============================================================================
