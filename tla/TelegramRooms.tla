----------------------------- MODULE TelegramRooms -----------------------------
(***************************************************************************)
(* The Telegram bot: its rooms, their turn slots and queues under one cap  *)
(* on concurrent turns, and the restart that drains them.                  *)
(*                                                                         *)
(* Every room has at most one turn goroutine, which is the room's own      *)
(* state here.  A goroutine that has given up its slot frees the global    *)
(* one, starts the next work of every room, and asks whether a restart may *)
(* go ahead: at most one per room is past its turn at a time, a bound of   *)
(* the model.  Batches on their way into a room are carried by the update  *)
(* loop or by the timer of the room's burst.                               *)
(*                                                                         *)
(* An action is one critical section of c.mu, with the sections of b.mu    *)
(* inside it.  What a turn says and does is ChatTurn; a message is         *)
(* answered when the reply of the turn that took it in has been posted.    *)
(* A process ends when the restart is signaled, or not at all.             *)
(***************************************************************************)
EXTENDS Integers, FiniteSets

CONSTANTS
  Room,        \* chats
  Home,        \* the chat that reviews the inbox
  Msg,         \* messages for the bot from allowed senders, each sent once
  To,          \* To[m]: the chat of message m
  Media,       \* messages with an attachment
  Loop,        \* the update loop, with its ticker
  NoOne,       \* no goroutine
  Found,       \* what an earlier process may have left of the home chat's
               \* conversation: subset of {"none", "kept", "empty", "orphan"}
  MaxTurns,    \* the cap on concurrent turns
  MaxEvents    \* bound on failures, commands, mail and due checks

ASSUME RoomsAssumption ==
  /\ IsFiniteSet(Room) /\ Home \in Room
  /\ To \in [Msg -> Room] /\ Media \subseteq Msg
  /\ Loop \notin Room /\ NoOne \notin Room \cup {Loop}
  /\ Found \subseteq {"none", "kept", "empty", "orphan"}
  /\ MaxTurns \in Nat /\ MaxEvents \in Nat

VARIABLES
  fate,     \* fate[m]: "new", "held" once accepted, "settled"
  burst,    \* burst[c]: accepted texts that wait for the debounce timer
  pending,  \* pending[c]: pendingMessages
  steer,    \* steer[c]: texts queued in the inbox of c's session
  cpc,      \* cpc[k]: carrier k is "off", at the "check" or at the "dispatch"
  carried,  \* carried[k]: the batch it carries
  turn,     \* turn[c]: the goroutine in c's slot, "none" for turnActive = false
  batch,    \* batch[c]: the messages the turn took in
  of,       \* of[c]: the conversation it talks to
  main,     \* main[c]: c's conversation, 0 for none
  cached,   \* cached[c]: the marker in memory, Unread before its first write
  row,      \* row[c]: c's row in current_sessions, which a restart resumes
  records,  \* records[c]: conversations with a row in sessions
  stored,   \* stored[c]: conversations with messages or a job log
  born,     \* born[c]: the last conversation started
  ended,    \* ended[c]: the last one that /new replaced
  opening,  \* the conversation WakeInbox is about to install, 0 for none
  due,      \* due[c]: a progress check of the conversation is due
  paused,   \* paused[c]: inboxPaused
  mail,     \* inboxPending of the home chat
  resting,  \* its inboxRetryAt is still ahead
  active,   \* activeTurns
  restart,  \* "none", "pending" or "signaled"
  armer,    \* the room whose turn is inside armRestart, NoOne for none
  arming,   \* the rooms whose burst armRestart has yet to queue
  at,       \* at[s]: where the goroutine past the turn of s is, or Loop
  probing,  \* probing[s]: the room whose checks it looks at, NoOne for none
  left,     \* left[s]: the rooms it has yet to look at
  lost,     \* the rooms whose reply was not delivered
  spent     \* events so far

queues == <<burst, pending, steer>>
carriers == <<cpc, carried>>
slots == <<turn, batch, of>>
markers == <<cached, row>>
dialogs == <<main, markers, records, stored, born, ended, opening>>
talks == <<dialogs, due>>
inbox == <<mail, resting>>
bot == <<restart, armer, arming>>
sweeps == <<at, probing, left, lost>>
vars == <<fate, queues, carriers, slots, talks, paused, inbox, active, bot, sweeps, spent>>

Worker == Room \cup {Loop}
Session == 1..(MaxEvents + 2)
Inherited == 1   \* the conversation of an earlier process, if there is one
Unread == -1

\* A conversation without messages was never closed: its process died.  One
\* without a record is what MarkedAndKept below does not rule out.
Inherits(found) ==
  LET Here(set) == [c \in Room |-> IF c = Home THEN set ELSE {}] IN
  /\ row = [c \in Room |-> IF c = Home /\ found # "none" THEN Inherited ELSE 0]
  /\ records = Here(IF found \in {"kept", "empty"} THEN {Inherited} ELSE {})
  /\ stored = Here(IF found \in {"kept", "orphan"} THEN {Inherited} ELSE {})

Init ==
  /\ fate = [m \in Msg |-> "new"]
  /\ burst = [c \in Room |-> {}] /\ pending = burst /\ steer = burst
  /\ cpc = [k \in Worker |-> "off"] /\ carried = [k \in Worker |-> {}]
  /\ turn = [c \in Room |-> "none"] /\ batch = burst
  /\ of = [c \in Room |-> 0]
  /\ main = of /\ ended = of /\ opening = 0
  /\ cached = [c \in Room |-> Unread] /\ born = [c \in Room |-> Inherited]
  /\ \E found \in Found : Inherits(found)
  /\ due = [c \in Room |-> FALSE] /\ paused = due
  /\ mail = FALSE /\ resting = FALSE
  /\ active = 0
  /\ restart = "none" /\ armer = NoOne /\ arming = {}
  /\ at = [s \in Worker |-> "off"]
  /\ probing = [s \in Worker |-> NoOne] /\ left = [s \in Worker |-> {}]
  /\ lost = {} /\ spent = 0

\* Something from outside, or a failure.
Event == spent < MaxEvents /\ spent' = spent + 1

\* SessionIndex.Current and SetCurrent; 0 is the empty id of /new.
Current(c) == IF cached[c] = Unread THEN row[c] ELSE cached[c]
SetCurrent(c, s) ==
  /\ cached' = [cached EXCEPT ![c] = s]
  /\ row' = [row EXCEPT ![c] = s]

\* Store.EndSession: an empty conversation goes, and its marker with it.
EndSession(c, s) ==
  IF s \in stored[c] THEN UNCHANGED <<row, records>>
  ELSE /\ records' = [records EXCEPT ![c] = @ \ {s}]
       /\ row' = [row EXCEPT ![c] = IF @ = s THEN 0 ELSE @]

RestartPending == restart # "none"

\* c.mu is free: startJobPoll holds it between its claim and its look.
Unlocked(c) == turn[c] # "probe"

Accepted(m) == fate' = [fate EXCEPT ![m] = "held"]

\* Answered, refused with a word to the sender, or dropped by a /new.
Settled(msgs) == fate' = [m \in Msg |-> IF m \in msgs THEN "settled" ELSE fate[m]]

-----------------------------------------------------------------------------
(* The update loop: handleMsg and handleCommand.                           *)

Free(k) == cpc[k] = "off" /\ (k = Loop => at[Loop] = "off")

Carry(k, msgs) ==
  /\ cpc' = [cpc EXCEPT ![k] = "check"]
  /\ carried' = [carried EXCEPT ![k] = msgs]

\* A message is a sign of life: the review of the inbox may go on.
Heard(c) ==
  /\ paused' = [paused EXCEPT ![c] = FALSE]
  /\ resting' = (resting /\ c # Home)

\* A text rides the burst; the gate is read again under c.mu.
AcceptText(m) ==
  LET c == To[m] IN
  /\ fate[m] = "new" /\ m \notin Media
  /\ Free(Loop) /\ Unlocked(c)
  /\ Heard(c)
  /\ IF RestartPending
       THEN Settled({m}) /\ UNCHANGED burst
       ELSE /\ Accepted(m)
            /\ burst' = [burst EXCEPT ![c] = @ \cup {m}]
  /\ UNCHANGED <<pending, steer, carriers, slots, talks, mail, active, bot, sweeps, spent>>

\* An attachment flushes the burst and is dispatched at once; the burst is a
\* FlushBurst just before.
AcceptMedia(m) ==
  LET c == To[m] IN
  /\ fate[m] = "new" /\ m \in Media
  /\ Free(Loop) /\ Unlocked(c) /\ burst[c] = {}
  /\ Heard(c)
  /\ IF RestartPending
       THEN Settled({m}) /\ UNCHANGED carriers
       ELSE Accepted(m) /\ Carry(Loop, {m})
  /\ UNCHANGED <<queues, slots, talks, mail, active, bot, sweeps, spent>>

\* /ask: no debounce, and the pause stays.
Ask(m) ==
  /\ fate[m] = "new" /\ m \notin Media /\ Free(Loop)
  /\ Accepted(m) /\ Carry(Loop, {m})
  /\ UNCHANGED <<queues, slots, talks, paused, inbox, active, bot, sweeps, spent>>

\* /stop: the checks go, and the turn is cancelled, that is, it ends.
Stop(c) ==
  /\ Free(Loop) /\ Unlocked(c)
  /\ paused' = [paused EXCEPT ![c] = TRUE]
  /\ due' = [due EXCEPT ![c] = FALSE]
  /\ Event
  /\ UNCHANGED <<fate, queues, carriers, slots, dialogs, inbox, active, bot, sweeps>>

\* /superstop: KillAllForStop ends the jobs, and the checks with them.
Superstop(c) ==
  /\ Free(Loop) /\ Unlocked(c)
  /\ paused' = [paused EXCEPT ![c] = TRUE]
  /\ due' = [d \in Room |-> FALSE]
  /\ Event
  /\ UNCHANGED <<fate, queues, carriers, slots, dialogs, inbox, active, bot, sweeps>>

\* What /new does to room c; a text still queued in the old conversation is
\* not asked any more, and keeps it from being closed.  (So do its jobs, but
\* then their logs keep its record.)
Detach(c) ==
  /\ Free(Loop) /\ Unlocked(c)
  /\ SetCurrent(c, 0) /\ main' = [main EXCEPT ![c] = 0]
  /\ paused' = [paused EXCEPT ![c] = TRUE]
  /\ due' = [due EXCEPT ![c] = FALSE]
  /\ ended' = [ended EXCEPT ![c] = IF main[c] # 0 THEN main[c] ELSE
                                   IF Current(c) # 0 THEN Current(c) ELSE @]
  /\ Settled(steer[c]) /\ steer' = [steer EXCEPT ![c] = {}]
  /\ IF main[c] # 0 /\ steer[c] = {}
       THEN at' = [at EXCEPT ![Loop] = "close"] /\ left' = [left EXCEPT ![Loop] = {c}]
       ELSE UNCHANGED <<at, left>>
  /\ Event
  /\ UNCHANGED <<burst, pending, carriers, slots, records, stored, born, opening, inbox,
                 active, bot, probing, lost>>

\* /new: refused while a turn is active.
NewCommand(c) == turn[c] = "none" /\ Detach(c)

\* Its Close of the old conversation, without c.mu.
CloseOld ==
  /\ at[Loop] = "close"
  /\ \E c \in left[Loop] : EndSession(c, ended[c])
  /\ at' = [at EXCEPT ![Loop] = "off"] /\ left' = [left EXCEPT ![Loop] = {}]
  /\ UNCHANGED <<fate, queues, carriers, slots, main, cached, stored, born, ended, opening,
                 due, paused, inbox, active, bot, probing, lost, spent>>

\* The debounce timer fires; or an attachment takes the burst along.
FlushBurst(c) ==
  /\ burst[c] # {} /\ cpc[c] = "off" /\ Unlocked(c)
  /\ Carry(c, burst[c])
  /\ burst' = [burst EXCEPT ![c] = {}]
  /\ UNCHANGED <<fate, pending, steer, slots, talks, paused, inbox, active, bot, sweeps, spent>>

-----------------------------------------------------------------------------
(* dispatchMessages.                                                       *)

PutDown(k) ==
  /\ cpc' = [cpc EXCEPT ![k] = "off"]
  /\ carried' = [carried EXCEPT ![k] = {}]

\* The gate is read outside c.mu.
Check(k) ==
  /\ cpc[k] = "check"
  /\ IF RestartPending
       THEN Settled(carried[k]) /\ PutDown(k)
       ELSE cpc' = [cpc EXCEPT ![k] = "dispatch"] /\ UNCHANGED <<fate, carried>>
  /\ UNCHANGED <<queues, slots, talks, paused, inbox, active, bot, sweeps, spent>>

\* takeSlotLocked and claimTurn, and what the goroutine starts with.
CanClaim(c) == turn[c] = "none" /\ active < MaxTurns
Claim(c, where, msgs, conv) ==
  /\ CanClaim(c)
  /\ active' = active + 1
  /\ turn' = [turn EXCEPT ![c] = where]
  /\ batch' = [batch EXCEPT ![c] = msgs]
  /\ of' = [of EXCEPT ![c] = conv]

\* Text for a running turn steers it.
Interject(k, c) ==
  /\ turn[c] # "none" /\ carried[k] \cap Media = {} /\ main[c] # 0
  /\ steer' = [steer EXCEPT ![c] = @ \cup carried[k]]
  /\ UNCHANGED <<pending, slots, active>>

\* Behind a turn that cannot be steered, or behind the cap, it is queued.
QueueUp(k, c) ==
  /\ \/ turn[c] # "none" /\ (carried[k] \cap Media # {} \/ main[c] = 0)
     \/ turn[c] = "none" /\ active >= MaxTurns
  /\ pending' = [pending EXCEPT ![c] = @ \cup carried[k]]
  /\ UNCHANGED <<steer, slots, active>>

\* A free slot: a user turn over the batch.
StartTurn(k, c) ==
  /\ Claim(c, "create", carried[k], 0)
  /\ UNCHANGED <<pending, steer>>

\* Bug: behind the cap the batch is forgotten.
DispatchUnqueued(k, c) ==
  /\ cpc[k] = "dispatch" /\ Unlocked(c)
  /\ \E m \in carried[k] : To[m] = c
  /\ \/ Interject(k, c) \/ StartTurn(k, c)
     \/ turn[c] = "none" /\ active >= MaxTurns /\ UNCHANGED <<pending, steer, slots, active>>
     \/ turn[c] # "none" /\ QueueUp(k, c)
  /\ PutDown(k)
  /\ UNCHANGED <<fate, burst, talks, paused, inbox, bot, sweeps, spent>>

Dispatch(k, c) ==
  /\ cpc[k] = "dispatch" /\ Unlocked(c)
  /\ \E m \in carried[k] : To[m] = c
  /\ Interject(k, c) \/ QueueUp(k, c) \/ StartTurn(k, c)
  /\ PutDown(k)
  /\ UNCHANGED <<fate, burst, talks, paused, inbox, bot, sweeps, spent>>

-----------------------------------------------------------------------------
(* The turn goroutine of room c.                                           *)

\* mainSession in two steps, as c.mu is not held while the session is made:
\* the marked conversation, if it has a record, or a new one ...
Unresumable(c) == Current(c) # 0 /\ Current(c) \notin records[c]
Opens(c, s) ==
  /\ main[c] = 0 /\ ~Unresumable(c)
  /\ s = IF Current(c) # 0 THEN Current(c) ELSE born[c] + 1
  /\ born' = [born EXCEPT ![c] = IF @ < s THEN s ELSE @]
  /\ records' = [records EXCEPT ![c] = @ \cup {s}]

\* ... which becomes the room's and is marked, unless another one has
\* meanwhile: then it is closed, even if the winner has resumed the same.
Installs(c, s) ==
  IF main[c] # 0 THEN EndSession(c, s) /\ UNCHANGED <<main, cached>>
  ELSE main' = [main EXCEPT ![c] = s] /\ SetCurrent(c, s) /\ UNCHANGED records

\* runUserTurn sends its batch; the turn drains the queued steering with it.
Begin(c) ==
  /\ turn' = [turn EXCEPT ![c] = "run"]
  /\ batch' = [batch EXCEPT ![c] = @ \cup steer[c]]
  /\ steer' = [steer EXCEPT ![c] = {}]

Create(c) ==
  /\ turn[c] = "create"
  /\ \/ /\ main[c] # 0
        /\ of' = [of EXCEPT ![c] = main[c]]
        /\ Begin(c) /\ UNCHANGED talks
     \/ /\ \E s \in Session : Opens(c, s) /\ of' = [of EXCEPT ![c] = s]
        /\ turn' = [turn EXCEPT ![c] = "open"]
        /\ UNCHANGED <<batch, steer, main, markers, stored, ended, opening, due>>
  /\ UNCHANGED <<fate, burst, pending, carriers, paused, inbox, active, bot, sweeps, spent>>

Install(c) ==
  /\ turn[c] = "open"
  /\ Installs(c, of[c])
  /\ of' = [of EXCEPT ![c] = main'[c]]
  /\ Begin(c)
  /\ UNCHANGED <<fate, burst, pending, carriers, stored, born, ended, opening, due, paused,
                 inbox, active, bot, sweeps, spent>>

\* The goroutine of room c goes on without the slot.
GiveUpSlot(c, where, rooms) ==
  /\ at[c] = "off"
  /\ at' = [at EXCEPT ![c] = where] /\ UNCHANGED probing
  /\ left' = [left EXCEPT ![c] = rooms]
  /\ turn' = [turn EXCEPT ![c] = "none"]
  /\ batch' = [batch EXCEPT ![c] = {}]
  /\ of' = [of EXCEPT ![c] = 0]

\* No conversation: the user is told, and only the own room looks for work.
NoSession(c) ==
  /\ main[c] = 0 /\ Settled(batch[c])
  /\ GiveUpSlot(c, "freeown", {c})
  /\ UNCHANGED <<queues, carriers, cached, stored, born, ended, opening, due, paused, inbox,
                 active, bot, lost>>

\* Bug: the conversation is installed before its marker is written, and stays.
KeepsUnmarked(c) ==
  /\ turn[c] = "open" /\ Event /\ EndSession(c, of[c])
  /\ main' = [main EXCEPT ![c] = of[c]] /\ NoSession(c)

\* The session cannot be made, or its marker cannot be written.
CreateFails(c) ==
  /\ \/ turn[c] = "create" /\ UNCHANGED <<row, records>>
     \/ turn[c] = "open" /\ EndSession(c, of[c])
  /\ Event /\ NoSession(c) /\ UNCHANGED main

\* The marker names a conversation that has no record any more.
ResumeFails(c) ==
  /\ turn[c] = "create" /\ Unresumable(c)
  /\ NoSession(c) /\ UNCHANGED <<main, row, records, spent>>

\* Between the rounds of a turn queued steering goes in.
RoundBoundary(c) ==
  /\ turn[c] = "run" /\ steer[c] # {}
  /\ batch' = [batch EXCEPT ![c] = @ \cup steer[c]]
  /\ steer' = [steer EXCEPT ![c] = {}]
  /\ UNCHANGED <<fate, burst, pending, carriers, turn, of, talks, paused, inbox, active,
                 bot, sweeps, spent>>

\* The model starts a job, which opens its log, and arms a check for later.
AskForCheck(c) ==
  /\ turn[c] = "run" /\ ~due[c]
  /\ due' = [due EXCEPT ![c] = TRUE]
  /\ stored' = [stored EXCEPT ![c] = @ \cup {of[c]}]
  /\ Event
  /\ UNCHANGED <<fate, queues, carriers, slots, main, markers, records, born, ended, opening,
                 paused, inbox, active, bot, sweeps>>

\* The turn is over: its history, its reply, and the marker while the slot is
\* still held.  Either write may fail.
SavesHistory(c) == stored' = [stored EXCEPT ![c] = @ \cup {of[c]}]
MarkCurrent(c) == SetCurrent(c, of[c])

\* finishPostedTurn up to releaseSlot, and before it how a review leaves the
\* inbox: with nothing pending, with more, or failed and to be tried again.
FinishTurn(c) ==
  /\ turn[c] \in {"run", "review"} /\ armer # c
  /\ Settled(batch[c])
  /\ lost' \in {lost, lost \cup {c}}
  /\ IF turn[c] = "review"
       THEN mail' \in BOOLEAN /\ resting' \in {FALSE, mail'}
       ELSE UNCHANGED inbox
  /\ SavesHistory(c) \/ UNCHANGED stored
  /\ MarkCurrent(c) \/ UNCHANGED markers
  /\ IF /\ lost' = lost /\ (turn[c] = "review" => ~mail')
        /\ of[c] \in stored'[c] /\ row'[c] = of[c]
       THEN UNCHANGED spent ELSE Event
  /\ GiveUpSlot(c, "free", Room)
  /\ UNCHANGED <<queues, carriers, main, records, born, ended, opening, due, paused, active,
                 bot>>

-----------------------------------------------------------------------------
(* The review of the inbox, in the home chat.                              *)

\* WakeInbox: the mailbox has something; unless the room is
\* paused it makes sure of a conversation, if it can, ...
WakeInbox ==
  /\ Unlocked(Home) /\ at[Home] = "off"
  /\ Event
  /\ mail' = TRUE
  /\ \/ (paused[Home] \/ main[Home] = 0) /\ UNCHANGED <<talks, sweeps>>
     \/ /\ ~paused[Home] /\ main[Home] # 0
        /\ at' = [at EXCEPT ![Home] = "tick"] /\ left' = [left EXCEPT ![Home] = {Home}]
        /\ UNCHANGED <<talks, probing, lost>>
     \/ /\ ~paused[Home]
        /\ \E s \in Session : Opens(Home, s) /\ opening' = s
        /\ at' = [at EXCEPT ![Home] = "install"]
        /\ UNCHANGED <<main, markers, stored, ended, due, probing, left, lost>>
  /\ UNCHANGED <<fate, queues, carriers, slots, paused, resting, active, bot>>

\* ... and looks for work in the home chat; not when the marker cannot be
\* written.
InstallForInbox ==
  /\ at[Home] = "install" /\ Unlocked(Home)
  /\ opening' = 0
  /\ \/ /\ Installs(Home, opening) /\ UNCHANGED spent
        /\ at' = [at EXCEPT ![Home] = "tick"] /\ left' = [left EXCEPT ![Home] = {Home}]
     \/ /\ main[Home] = 0 /\ Event /\ EndSession(Home, opening)
        /\ at' = [at EXCEPT ![Home] = "off"] /\ UNCHANGED <<main, cached, left>>
  /\ UNCHANGED <<fate, queues, carriers, slots, stored, born, ended, due, paused, inbox,
                 active, bot, probing, lost>>

\* PrepareBatch found nothing, or failed: the slot is freed under c.mu, and
\* the restart is asked for before the queues are looked at.
PrepareNothing ==
  /\ turn[Home] = "prepare"
  /\ mail' \in BOOLEAN
  /\ IF mail' THEN Event ELSE UNCHANGED spent
  /\ resting' = TRUE
  /\ active' = active - 1
  /\ GiveUpSlot(Home, "drainfirst", Room)
  /\ UNCHANGED <<fate, queues, carriers, talks, paused, bot, lost>>

PrepareBatch ==
  /\ turn[Home] = "prepare"
  /\ turn' = [turn EXCEPT ![Home] = "review"]
  /\ UNCHANGED <<fate, queues, carriers, batch, of, talks, paused, inbox, active, bot,
                 sweeps, spent>>

\* The retry time of a failed or empty review has come.
Rested ==
  /\ resting /\ resting' = FALSE
  /\ UNCHANGED <<fate, queues, carriers, slots, talks, paused, mail, active, bot, sweeps, spent>>

-----------------------------------------------------------------------------
(* releaseSlot, startNextWorkAll and finishRestartDrain.                   *)

Goes(s, where) ==
  /\ at' = [at EXCEPT ![s] = where]
  /\ lost' = IF where = "off" THEN lost \ {s} ELSE lost

\* Sweeper s is through with room c; after a turn, the question of the restart.
Past(s, c) ==
  /\ left' = [left EXCEPT ![s] = @ \ {c}]
  /\ Goes(s, IF left[s] # {c} THEN at[s] ELSE IF at[s] = "sweep" THEN "drain" ELSE "off")

\* Bug: the global slot of a turn without a conversation is not freed.
FreeSome(s) ==
  /\ at[s] \in {"free", "freeown"}
  /\ active' = IF at[s] = "free" THEN active - 1 ELSE active
  /\ Goes(s, IF at[s] = "free" THEN "sweep" ELSE "tick")
  /\ UNCHANGED <<fate, queues, carriers, slots, talks, paused, inbox, bot, probing, left, spent>>

\* freeTurn: after c.mu, so a room may be free while the cap is still full.
FreeTurn(s) ==
  /\ at[s] \in {"free", "freeown"}
  /\ active' = active - 1
  /\ Goes(s, IF at[s] = "free" THEN "sweep" ELSE "tick")
  /\ UNCHANGED <<fate, queues, carriers, slots, talks, paused, inbox, bot, probing, left, spent>>

\* The ticker of Run, every second.
Tick ==
  /\ Free(Loop)
  /\ Goes(Loop, "tick")
  /\ left' = [left EXCEPT ![Loop] = Room]
  /\ UNCHANGED <<fate, queues, carriers, slots, talks, paused, inbox, active, bot, probing, spent>>

\* The whole backlog is one user turn.
DrainNextMessages(c) ==
  /\ pending[c] # {}
  /\ Claim(c, "create", pending[c], 0)
  /\ pending' = [pending EXCEPT ![c] = {}]
  /\ UNCHANGED steer

\* Bug: only the home chat catches up.
CatchupAtHome(c) ==
  /\ c = Home /\ pending[c] = {} /\ main[c] # 0 /\ steer[c] # {}
  /\ Claim(c, "run", steer[c], main[c])
  /\ steer' = [steer EXCEPT ![c] = {}]
  /\ UNCHANGED pending

\* A text that came after the last round of its turn.
StartSteerCatchup(c) ==
  /\ pending[c] = {} /\ main[c] # 0 /\ steer[c] # {}
  /\ Claim(c, "run", steer[c], main[c])
  /\ steer' = [steer EXCEPT ![c] = {}]
  /\ UNCHANGED pending

\* Nobody in the room waits, and no restart does.
Background(c) ==
  /\ CanClaim(c) /\ main[c] # 0 /\ ~RestartPending
  /\ pending[c] = {} /\ burst[c] = {} /\ steer[c] = {}

Reviews(c) == Background(c) /\ c = Home /\ mail /\ ~paused[c] /\ ~resting

StartInboxTurn(c) ==
  /\ Reviews(c)
  /\ Claim(c, "prepare", {}, main[c])
  /\ UNCHANGED <<pending, steer>>

\* startJobPoll takes the slot first and looks for a due check after.
StartJobPoll(c) ==
  /\ Background(c) /\ ~Reviews(c)
  /\ Claim(c, "probe", {}, main[c])
  /\ UNCHANGED <<pending, steer>>

\* startNextWork finds nothing it can start.
NothingToStart(c) ==
  /\ ~CanClaim(c) \/ (pending[c] = {} /\ (main[c] = 0 \/ steer[c] = {}) /\ ~Background(c))
  /\ UNCHANGED <<pending, steer, slots, active>>

\* One room of a sweep, the own one first.  A probe keeps the sweep there.
Sweep(s, c) ==
  /\ at[s] \in {"sweep", "tick"} /\ probing[s] = NoOne
  /\ c \in left[s] /\ (s \in left[s] => c = s)
  /\ Unlocked(c)
  /\ \/ /\ DrainNextMessages(c) \/ StartSteerCatchup(c) \/ StartInboxTurn(c) \/ NothingToStart(c)
        /\ Past(s, c) /\ UNCHANGED probing
     \/ /\ StartJobPoll(c)
        /\ probing' = [probing EXCEPT ![s] = c] /\ UNCHANGED <<at, left, lost>>
  /\ UNCHANGED <<fate, burst, carriers, talks, paused, inbox, bot, spent>>

\* TakeDueJobPolls: a turn over the checks, or the slot is given back at once.
Probe(s) ==
  LET c == probing[s] IN
  /\ probing[s] # NoOne
  /\ probing' = [probing EXCEPT ![s] = NoOne] /\ Past(s, c)
  /\ due' = [due EXCEPT ![c] = FALSE]
  /\ IF due[c]
       THEN turn' = [turn EXCEPT ![c] = "run"] /\ UNCHANGED <<of, active>>
       ELSE /\ turn' = [turn EXCEPT ![c] = "none"]
            /\ of' = [of EXCEPT ![c] = 0] /\ active' = active - 1
  /\ UNCHANGED <<fate, queues, carriers, batch, dialogs, paused, inbox, bot, spent>>

\* A reply that was not delivered cancels the restart; else the last turn
\* signals it.
FinishRestartDrain(c) ==
  /\ at[c] \in {"drain", "drainfirst"}
  /\ restart' = IF restart # "pending" THEN restart
                ELSE IF c \in lost THEN "none"
                ELSE IF active # 0 THEN "pending" ELSE "signaled"
  /\ Goes(c, IF at[c] = "drain" THEN "off" ELSE "tick")
  /\ UNCHANGED <<fate, queues, carriers, slots, talks, paused, inbox, active, armer, arming,
                 probing, left, spent>>

-----------------------------------------------------------------------------
(* armRestart, called by a tool of a running turn.                         *)

ArmRestart(c) ==
  /\ turn[c] \in {"run", "review"} /\ restart = "none"
  /\ restart' = "pending" /\ armer' = c /\ arming' = Room
  /\ UNCHANGED <<fate, queues, carriers, slots, talks, paused, inbox, active, sweeps, spent>>

\* Bug: the burst is thrown away with its timer.
QueueNothing(c) ==
  /\ c \in arming /\ Unlocked(c)
  /\ arming' = arming \ {c} /\ armer' = IF arming = {c} THEN NoOne ELSE armer
  /\ burst' = [burst EXCEPT ![c] = {}]
  /\ UNCHANGED <<fate, pending, steer, carriers, slots, talks, paused, inbox, active, restart,
                 sweeps, spent>>

\* Accepted texts become queued work, room by room.
QueueBurstForRestart(c) ==
  /\ c \in arming /\ Unlocked(c)
  /\ arming' = arming \ {c} /\ armer' = IF arming = {c} THEN NoOne ELSE armer
  /\ pending' = [pending EXCEPT ![c] = @ \cup burst[c]]
  /\ burst' = [burst EXCEPT ![c] = {}]
  /\ UNCHANGED <<fate, steer, carriers, slots, talks, paused, inbox, active, restart,
                 sweeps, spent>>

-----------------------------------------------------------------------------

TurnGoesOn(c) ==
  \/ Create(c) \/ Install(c) \/ ResumeFails(c) \/ QueueBurstForRestart(c) \/ FinishTurn(c)
  \/ c = Home /\ (PrepareBatch \/ PrepareNothing)

Carries(k) == Check(k) \/ \E c \in Room : Dispatch(k, c)

Sweeps(s) == Probe(s) \/ \E c \in Room : Sweep(s, c)

\* The goroutine past its turn; or the one of WakeInbox.
Housekeeping(c) ==
  \/ FreeTurn(c) \/ FinishRestartDrain(c) \/ Sweeps(c)
  \/ c = Home /\ InstallForInbox

\* Some goroutine goes on: turns end, timers fire, and nobody is kept from a
\* mutex for ever by the update loop, whose ticker takes it again and again.
Goroutines ==
  \E c \in Room : TurnGoesOn(c) \/ FlushBurst(c) \/ Carries(c) \/ Housekeeping(c)

UpdateLoop == Tick \/ CloseOld \/ Carries(Loop) \/ Sweeps(Loop)

Next ==
  /\ restart # "signaled"
  /\ \/ \E m \in Msg : AcceptText(m) \/ AcceptMedia(m) \/ Ask(m)
     \/ \E c \in Room :
          \/ Stop(c) \/ Superstop(c) \/ NewCommand(c)
          \/ RoundBoundary(c) \/ AskForCheck(c) \/ ArmRestart(c) \/ CreateFails(c)
     \/ WakeInbox \/ Rested
     \/ Goroutines \/ UpdateLoop

Spec == Init /\ [][Next]_vars /\ SF_vars(Goroutines) /\ WF_vars(UpdateLoop)

-----------------------------------------------------------------------------
(* Properties.                                                             *)

TypeOK ==
  /\ fate \in [Msg -> {"new", "held", "settled"}]
  /\ {burst, pending, steer, batch} \subseteq [Room -> SUBSET Msg]
  /\ cpc \in [Worker -> {"off", "check", "dispatch"}]
  /\ carried \in [Worker -> SUBSET Msg]
  /\ turn \in [Room -> {"none", "create", "open", "run", "prepare", "review", "probe"}]
  /\ {of, main, row, born, ended} \subseteq [Room -> {0} \cup Session]
  /\ cached \in [Room -> {Unread, 0} \cup Session]
  /\ {records, stored} \subseteq [Room -> SUBSET Session]
  /\ opening \in {0} \cup Session
  /\ {due, paused} \subseteq [Room -> BOOLEAN]
  /\ mail \in BOOLEAN /\ resting \in BOOLEAN
  /\ active \in 0..MaxTurns
  /\ restart \in {"none", "pending", "signaled"}
  /\ armer \in Room \cup {NoOne} /\ arming \subseteq Room
  /\ at \in [Worker -> {"off", "close", "install", "free", "freeown", "sweep",
                       "tick", "drain", "drainfirst"}]
  /\ probing \in [Worker -> Room \cup {NoOne}]
  /\ left \in [Worker -> SUBSET Room] /\ lost \subseteq Worker
  /\ spent \in 0..MaxEvents

\* The counter of turns is exactly the slots that are held and the ones whose
\* goroutine has yet to give them back: the cap is kept, and no slot leaks,
\* although room and counter are under two locks.
SlotsCounted ==
  active = Cardinality({c \in Room : turn[c] # "none"})
           + Cardinality({s \in Worker : at[s] \in {"free", "freeown"}})

\* A turn talks to the conversation that is the room's when it ends, and a
\* session made for the room later in this process would resume that one:
\* neither /new nor a conversation made at the same time gets in between,
\* although the lock is given up while one is made.
TurnsTalkToMain ==
  \A c \in Room :
    /\ turn[c] \in {"run", "prepare", "review", "probe"} => of[c] = main[c]
    /\ main[c] # 0 => cached[c] = main[c]

\* What a restart needs of the room's conversation: its record and its row are
\* there together, over create races, failed writes and closes of others; and
\* only the one that was there already when the process started can lose them.
MarkedAndKept ==
  \A c \in Room :
    /\ main[c] \in records[c] => row[c] = main[c]
    /\ main[c] \notin {0, Inherited} => main[c] \in records[c]

\* Both: this process and the next one take the same for the room's conversation.
SameConversation == TurnsTalkToMain /\ MarkedAndKept

\* The comment of mainSession: "the persisted marker resumes the previous
\* run's, and with no marker - or one the janitor swept - a fresh session
\* starts".  Not so after a create race for an inherited conversation without
\* messages: the loser's Close deletes its record, and the next turn of the
\* winner marks it again.
MarkerResumes == \A c \in Room : row[c] # 0 => row[c] \in records[c]

\* An accepted message is always in the hands of somebody who will ask it:
\* whatever debounce, cap, busy turn, session failure or restart it meets.
NothingLost ==
  \A m \in Msg : fate[m] = "held" =>
    \/ m \in burst[To[m]] \cup pending[To[m]] \cup steer[To[m]] \cup batch[To[m]]
    \/ \E k \in Worker : m \in carried[k]

\* And it is answered, or its sender is told or has said /new, unless the
\* process restarts first.
SomebodyWaits == \E m \in Msg : fate[m] = "held"
MessagesAnswered == SomebodyWaits ~> ~SomebodyWaits \/ restart = "signaled"

\* The comment of /new: a restart cannot resurrect the conversation being
\* replaced.  Not so when WakeInbox has read its marker just before.
NewIsFinal == \A c \in Room : row[c] = 0 \/ row[c] > ended[c]

\* The comments of armRestart: already-queued work drains, and a restart does
\* not silently discard an update already accepted.  Not so: a goroutine that
\* freed its slot has not looked at its queue yet when another one signals.
DrainIncludes ==
  restart = "signaled" => \A c \in Room : pending[c] = {} /\ steer[c] = {}

\* The same comments: the final completing turn signals.  Not so when the last
\* goroutine to leave found no conversation to talk to.
RestartSettles == restart = "pending" ~> restart # "pending"
=============================================================================
