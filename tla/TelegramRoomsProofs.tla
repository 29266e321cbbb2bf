-------------------------- MODULE TelegramRoomsProofs --------------------------
(***************************************************************************)
(* The safety properties of TelegramRooms, for any rooms, messages and cap. *)
(* The inductive invariant says where a goroutine may stand that holds a   *)
(* slot without a turn, which conversation each stage of a turn has, who   *)
(* else has it in hand, and what a carrier and a slot may hold.            *)
(***************************************************************************)
EXTENDS TelegramRooms, FiniteSetTheorems, TLAPS

\* TypeOK in parts.
Turn == {"none", "create", "open", "run", "prepare", "review", "probe"}

FlowTypes ==
  /\ fate \in [Msg -> {"new", "held", "settled"}]
  /\ burst \in [Room -> SUBSET Msg] /\ pending \in [Room -> SUBSET Msg]
  /\ steer \in [Room -> SUBSET Msg] /\ batch \in [Room -> SUBSET Msg]
  /\ cpc \in [Worker -> {"off", "check", "dispatch"}]
  /\ carried \in [Worker -> SUBSET Msg]
  /\ turn \in [Room -> Turn]

DialogTypes ==
  /\ of \in [Room -> {0} \cup Session] /\ main \in [Room -> {0} \cup Session]
  /\ cached \in [Room -> {Unread, 0} \cup Session] /\ row \in [Room -> {0} \cup Session]
  /\ records \in [Room -> SUBSET Session] /\ stored \in [Room -> SUBSET Session]
  /\ born \in [Room -> {0} \cup Session] /\ ended \in [Room -> {0} \cup Session]
  /\ opening \in {0} \cup Session

FlagTypes ==
  /\ due \in [Room -> BOOLEAN] /\ paused \in [Room -> BOOLEAN]
  /\ mail \in BOOLEAN /\ resting \in BOOLEAN
  /\ restart \in {"none", "pending", "signaled"}
  /\ armer \in Room \cup {NoOne} /\ arming \subseteq Room
  /\ spent \in 0..MaxEvents

SweepTypes ==
  /\ at \in [Worker -> {"off", "close", "install", "free", "freeown", "sweep", "tick", "drain", "drainfirst"}]
  /\ probing \in [Worker -> Room \cup {NoOne}]
  /\ left \in [Worker -> SUBSET Room] /\ lost \subseteq Worker

\* A slot taken for a look at the checks is held by the one goroutine that
\* looks, in the middle of its sweep.
Probes ==
  \A s \in Worker : probing[s] # NoOne =>
    /\ turn[probing[s]] = "probe" /\ at[s] \in {"sweep", "tick"}
    /\ \A r \in Worker : probing[r] = probing[s] => r = s

\* The slots that are held, and the goroutines that have yet to free theirs.
Held(t) == {c \in Room : t[c] # "none"}
Owing(a) == {s \in Worker : a[s] \in {"free", "freeown"}}
Slots ==
  /\ active \in 0..MaxTurns
  /\ active = Cardinality(Held(turn)) + Cardinality(Owing(at))

\* The conversation of a turn, at each of its stages.
Dialogs ==
  \A c \in Room :
    /\ turn[c] \in {"run", "prepare", "review", "probe"} => of[c] = main[c] /\ main[c] # 0
    /\ turn[c] = "open" => of[c] # 0
    /\ main[c] # 0 => cached[c] = main[c]

\* What a burst, a carrier and a slot without a user's turn may hold.
Hands ==
  /\ \A c \in Room : \A m \in burst[c] : To[m] = c
  /\ \A k \in Worker : /\ cpc[k] = "off" => carried[k] = {}
                       /\ \A m, n \in carried[k] : To[m] = To[n]
  /\ \A c \in Room : turn[c] \in {"none", "prepare", "probe"} => batch[c] = {}

\* The conversations of a room that somebody has in hand: a turn or WakeInbox
\* that has opened one, and a /new that has yet to close one.
Opened(c) == IF turn[c] = "open" THEN of[c] ELSE 0
Waking(c) == IF c = Home /\ at[Home] = "install" THEN opening ELSE 0
Closing(c) == IF at[Loop] = "close" /\ c \in left[Loop] THEN ended[c] ELSE 0

\* Nobody else has one that this process started, so that whoever closes it
\* takes it from nobody; and it is on record as long as it may be installed.
Apart(s, r) == s = r => s \in {0, Inherited}
KeptIn(c) ==
  /\ Apart(main[c], Opened(c)) /\ Apart(main[c], Waking(c)) /\ Apart(main[c], Closing(c))
  /\ Apart(Opened(c), Waking(c)) /\ Apart(Opened(c), Closing(c))
  /\ Apart(Waking(c), Closing(c))
  /\ \A s \in {main[c], Opened(c), Waking(c)} :
       s <= born[c] /\ (s \notin {0, Inherited} => s \in records[c])
  /\ Closing(c) <= born[c] /\ Inherited <= born[c]
  /\ main[c] = 0 => cached[c] \in {Unread, 0}
  /\ cached[c] = Unread => row[c] \in {0, Inherited}
  /\ main[c] \in records[c] => row[c] = main[c]
Kept == \A c \in Room : KeptIn(c)

RoomsInductive ==
  /\ FlowTypes /\ DialogTypes /\ FlagTypes /\ SweepTypes
  /\ Probes /\ Slots /\ Dialogs /\ Kept /\ Hands /\ NothingLost

-----------------------------------------------------------------------------
(* Counting.                                                               *)

\* A slot is taken.
LEMMA HeldMore ==
  ASSUME NEW t, NEW u, NEW c \in Room, t[c] = "none", u[c] # "none",
         \A d \in Room \ {c} : u[d] = t[d]
  PROVE  Cardinality(Held(u)) = Cardinality(Held(t)) + 1
  <1>1. IsFiniteSet(Held(t))
    BY FS_Subset, RoomsAssumption DEF Held
  <1>2. Held(u) = Held(t) \cup {c} /\ c \notin Held(t)
    BY DEF Held
  <1>3. QED
    BY <1>1, <1>2, FS_AddElement

\* A slot is given up.
LEMMA HeldLess ==
  ASSUME NEW t, NEW u, NEW c \in Room, t[c] # "none", u[c] = "none",
         \A d \in Room \ {c} : u[d] = t[d]
  PROVE  /\ Cardinality(Held(u)) = Cardinality(Held(t)) - 1
         /\ Cardinality(Held(u)) \in Nat
  <1>1. IsFiniteSet(Held(t)) /\ IsFiniteSet(Held(u))
    BY FS_Subset, RoomsAssumption DEF Held
  <1>2. Held(u) = Held(t) \ {c} /\ c \in Held(t)
    BY DEF Held
  <1>3. QED
    BY <1>1, <1>2, FS_RemoveElement, FS_CardinalityType

\* The goroutine of a slot has yet to free it.
LEMMA OwingMore ==
  ASSUME NEW a, NEW b, NEW s \in Worker, a[s] \notin {"free", "freeown"},
         b[s] \in {"free", "freeown"}, \A r \in Worker \ {s} : b[r] = a[r]
  PROVE  Cardinality(Owing(b)) = Cardinality(Owing(a)) + 1
  <1>1. IsFiniteSet(Worker)
    BY FS_AddElement, RoomsAssumption DEF Worker
  <1>2. IsFiniteSet(Owing(a))
    BY <1>1, FS_Subset DEF Owing
  <1>3. Owing(b) = Owing(a) \cup {s} /\ s \notin Owing(a)
    BY DEF Owing
  <1>4. QED
    BY <1>2, <1>3, FS_AddElement

\* And frees it.
LEMMA OwingLess ==
  ASSUME NEW a, NEW b, NEW s \in Worker, a[s] \in {"free", "freeown"},
         b[s] \notin {"free", "freeown"}, \A r \in Worker \ {s} : b[r] = a[r]
  PROVE  /\ Cardinality(Owing(b)) = Cardinality(Owing(a)) - 1
         /\ Cardinality(Owing(b)) \in Nat
  <1>1. IsFiniteSet(Worker)
    BY FS_AddElement, RoomsAssumption DEF Worker
  <1>2. IsFiniteSet(Owing(a)) /\ IsFiniteSet(Owing(b))
    BY <1>1, FS_Subset DEF Owing
  <1>3. Owing(b) = Owing(a) \ {s} /\ s \in Owing(a)
    BY DEF Owing
  <1>4. QED
    BY <1>2, <1>3, FS_RemoveElement, FS_CardinalityType

\* Both are numbers.
LEMMA Counts ==
  ASSUME NEW t, NEW a
  PROVE  Cardinality(Held(t)) \in Nat /\ Cardinality(Owing(a)) \in Nat
  <1>1. IsFiniteSet(Worker)
    BY FS_AddElement, RoomsAssumption DEF Worker
  <1>2. IsFiniteSet(Held(t)) /\ IsFiniteSet(Owing(a))
    BY <1>1, FS_Subset, RoomsAssumption DEF Owing, Held
  <1>3. QED
    BY <1>2, FS_CardinalityType

\* A slot and its place under the cap are taken together.
LEMMA ClaimCounted ==
  ASSUME FlowTypes, Slots, NEW c \in Room, NEW w \in Turn \ {"none"}, NEW msgs, NEW conv,
         Claim(c, w, msgs, conv), Owing(at') = Owing(at)
  PROVE  Slots'
  <1>1. /\ active < MaxTurns /\ active' = active + 1
        /\ turn[c] = "none" /\ turn' = [turn EXCEPT ![c] = w]
    BY DEF Claim, CanClaim
  <1>2. Cardinality(Held(turn')) = Cardinality(Held(turn)) + 1
    BY <1>1, HeldMore DEF FlowTypes
  <1>3. QED
    BY <1>1, <1>2, Counts, RoomsAssumption DEF Slots

-----------------------------------------------------------------------------
(* The steps.                                                              *)

\* However a turn ends without a conversation.
LEMMA FailsWithout ==
  ASSUME NEW c \in Room, CreateFails(c) \/ ResumeFails(c)
  PROVE  NoSession(c) /\ turn[c] \in {"create", "open"} /\ main' = main
  BY DEF CreateFails, ResumeFails

\* Every step preserves the types.
LEMMA NextFlowTypes ==
  ASSUME FlowTypes, [Next]_vars
  PROVE  FlowTypes'
  <1>1. CASE UNCHANGED vars
    BY <1>1, RoomsAssumption DEF FlowTypes, Turn, Worker, vars, queues, carriers, slots,
       dialogs, markers, talks, inbox, bot, sweeps
  <1>2. ASSUME NEW c \in Room, Stop(c) \/ Superstop(c) \/ AskForCheck(c) \/
     ArmRestart(c) \/ FreeTurn(c) \/ FinishRestartDrain(c)
       PROVE  FlowTypes'
    BY <1>2, RoomsAssumption DEF FlowTypes, Turn, Worker, Stop, Event, Superstop,
       AskForCheck, ArmRestart, FreeTurn, Goes, FinishRestartDrain, queues, carriers,
       slots, dialogs, markers, talks, inbox, bot, sweeps
  <1>3. ASSUME WakeInbox \/ Rested \/ InstallForInbox \/ Tick \/ CloseOld
       PROVE  FlowTypes'
    BY <1>3, RoomsAssumption DEF FlowTypes, Turn, Worker, WakeInbox, Event, Rested,
       InstallForInbox, Tick, CloseOld, Goes, Free, queues, carriers, slots, dialogs,
       markers, talks, inbox, bot, sweeps
  <1>4. ASSUME NEW m \in Msg, AcceptText(m)
       PROVE  FlowTypes'
    BY <1>4, RoomsAssumption DEF FlowTypes, Turn, Worker, AcceptText, Heard, Settled,
       Accepted, Free, Unlocked, carriers, slots, dialogs, markers, talks, bot, sweeps
  <1>5. ASSUME NEW m \in Msg, AcceptMedia(m)
       PROVE  FlowTypes'
    <2>1. UNCHANGED <<burst, pending, steer, batch, turn>> /\ Loop \in Worker /\ {m} \in SUBSET Msg
      BY <1>5 DEF AcceptMedia, queues, slots, Worker
    <2>2. CASE Settled({m}) /\ UNCHANGED carriers
      BY <2>1, <2>2 DEF FlowTypes, Settled, carriers
    <2>3. CASE Accepted(m) /\ Carry(Loop, {m})
      BY <2>1, <2>3 DEF FlowTypes, Accepted, Carry
    <2>4. QED
      BY <1>5, <2>2, <2>3 DEF AcceptMedia
  <1>6. ASSUME NEW m \in Msg, Ask(m)
       PROVE  FlowTypes'
    BY <1>6, RoomsAssumption DEF FlowTypes, Turn, Worker, Ask, Accepted, Carry, Free,
       queues, slots, dialogs, markers, talks, inbox, bot, sweeps
  <1>7. ASSUME NEW c \in Room, NewCommand(c)
       PROVE  FlowTypes'
    BY <1>7, RoomsAssumption DEF FlowTypes, Turn, Worker, NewCommand, Detach, Settled,
       Event, carriers, slots, inbox, bot, sweeps
  <1>8. ASSUME NEW c \in Room, RoundBoundary(c)
       PROVE  FlowTypes'
    BY <1>8, RoomsAssumption DEF FlowTypes, Turn, Worker, RoundBoundary, carriers,
       dialogs, markers, talks, inbox, bot, sweeps
  <1>9. ASSUME NEW c \in Room, CreateFails(c) \/ ResumeFails(c)
       PROVE  FlowTypes'
    <2>1. /\ turn' = [turn EXCEPT ![c] = "none"] /\ batch' = [batch EXCEPT ![c] = {}]
          /\ Settled(batch[c]) /\ UNCHANGED <<burst, pending, steer, cpc, carried>>
      BY <1>9, FailsWithout DEF NoSession, GiveUpSlot, queues, carriers
    <2>2. QED
      BY <2>1 DEF FlowTypes, Turn, Settled
  <1>10. ASSUME NEW c \in Room, Create(c)
       PROVE  FlowTypes'
    BY <1>10, RoomsAssumption DEF FlowTypes, Turn, Worker, Create, Begin, carriers,
       inbox, bot, sweeps
  <1>11. ASSUME NEW c \in Room, Install(c)
       PROVE  FlowTypes'
    BY <1>11, RoomsAssumption DEF FlowTypes, Turn, Worker, Install, Begin, carriers,
       inbox, bot, sweeps
  <1>12. ASSUME NEW c \in Room, QueueBurstForRestart(c)
       PROVE  FlowTypes'
    BY <1>12, RoomsAssumption DEF FlowTypes, Turn, Worker, QueueBurstForRestart,
       carriers, slots, dialogs, markers, talks, inbox, sweeps
  <1>13. ASSUME NEW c \in Room, FinishTurn(c)
       PROVE  FlowTypes'
    BY <1>13, RoomsAssumption DEF FlowTypes, Turn, Worker, FinishTurn, Settled, Event,
       GiveUpSlot, queues, carriers, bot
  <1>14. ASSUME PrepareBatch
       PROVE  FlowTypes'
    BY <1>14, RoomsAssumption DEF FlowTypes, Turn, Worker, PrepareBatch, queues,
       carriers, dialogs, markers, talks, inbox, bot, sweeps
  <1>15. ASSUME PrepareNothing
       PROVE  FlowTypes'
    BY <1>15, RoomsAssumption DEF FlowTypes, Turn, Worker, PrepareNothing, Event,
       GiveUpSlot, queues, carriers, dialogs, markers, talks, bot
  <1>16. ASSUME NEW c \in Room, FlushBurst(c)
       PROVE  FlowTypes'
    BY <1>16, RoomsAssumption DEF FlowTypes, Turn, Worker, FlushBurst, Carry, slots,
       dialogs, markers, talks, inbox, bot, sweeps
  <1>17. ASSUME NEW k \in Worker, Check(k)
       PROVE  FlowTypes'
    BY <1>17, RoomsAssumption DEF FlowTypes, Turn, Worker, Check, Settled, PutDown,
       queues, slots, dialogs, markers, talks, inbox, bot, sweeps
  <1>18. ASSUME NEW k \in Worker, NEW c \in Room, Dispatch(k, c)
       PROVE  FlowTypes'
    <2>1. /\ UNCHANGED <<fate, burst>> /\ PutDown(k)
          /\ cpc[k] = "dispatch" /\ \E m \in carried[k] : To[m] = c
          /\ Interject(k, c) \/ QueueUp(k, c) \/ StartTurn(k, c)
      BY <1>18 DEF Dispatch, talks, dialogs, markers, inbox, bot, sweeps
    <2>2. CASE Interject(k, c)
      BY <2>1, <2>2 DEF FlowTypes, Turn, Worker, Interject, PutDown, slots
    <2>3. CASE QueueUp(k, c)
      BY <2>1, <2>3 DEF FlowTypes, Turn, Worker, QueueUp, PutDown, slots
    <2>4. CASE StartTurn(k, c)
      BY <2>1, <2>4 DEF FlowTypes, Turn, Worker, StartTurn, Claim, CanClaim, PutDown
    <2>5. QED
      BY <2>1, <2>2, <2>3, <2>4
  <1>19. ASSUME NEW s \in Worker, Probe(s)
       PROVE  FlowTypes'
    BY <1>19, RoomsAssumption DEF FlowTypes, Turn, Worker, Probe, Past, Goes, queues,
       carriers, dialogs, markers, inbox, bot
  <1>20. ASSUME NEW s \in Worker, NEW c \in Room, Sweep(s, c)
       PROVE  FlowTypes'
    <2>1. /\ UNCHANGED <<fate, burst, cpc, carried>> /\ at[s] \in {"sweep", "tick"} /\ probing[s] = NoOne
      BY <1>20 DEF Sweep, carriers, talks, dialogs, markers, inbox, bot
    <2>2. CASE DrainNextMessages(c) /\ Past(s, c) /\ UNCHANGED probing
      BY <2>1, <2>2, RoomsAssumption DEF FlowTypes, Turn, Worker, DrainNextMessages,
         Claim, CanClaim
    <2>3. CASE StartSteerCatchup(c) /\ Past(s, c) /\ UNCHANGED probing
      BY <2>1, <2>3, RoomsAssumption DEF FlowTypes, Turn, Worker, StartSteerCatchup,
         Claim, CanClaim
    <2>4. CASE StartInboxTurn(c) /\ Past(s, c) /\ UNCHANGED probing
      BY <2>1, <2>4, RoomsAssumption DEF FlowTypes, Turn, Worker, StartInboxTurn,
         Reviews, Background, Claim, CanClaim
    <2>5. CASE NothingToStart(c) /\ Past(s, c) /\ UNCHANGED probing
      BY <2>1, <2>5, RoomsAssumption DEF FlowTypes, Turn, Worker, NothingToStart, slots
    <2>6. CASE StartJobPoll(c) /\ probing' = [probing EXCEPT ![s] = c] /\ UNCHANGED <<at, left, lost>>
      BY <2>1, <2>6, RoomsAssumption DEF FlowTypes, Turn, Worker, StartJobPoll,
         Background, Claim, CanClaim
    <2>7. QED
      BY <1>20, <2>2, <2>3, <2>4, <2>5, <2>6 DEF Sweep
  <1>21. QED
    BY <1>1, <1>2, <1>3, <1>4, <1>5, <1>6, <1>7, <1>8, <1>9, <1>10, <1>11,
       <1>12, <1>13, <1>14, <1>15, <1>16, <1>17, <1>18, <1>19, <1>20 DEF
       Next, Goroutines, UpdateLoop, TurnGoesOn, Carries, Sweeps,
       Housekeeping, Worker

\* Conversations.
LEMMA NextDialogTypes ==
  ASSUME DialogTypes, Dialogs, [Next]_vars
  PROVE  DialogTypes'
  <1>1. CASE UNCHANGED vars
    BY <1>1, RoomsAssumption DEF DialogTypes, vars, queues, carriers, slots, dialogs,
       markers, talks, inbox, bot, sweeps
  <1>2. ASSUME NEW m \in Msg, AcceptText(m) \/ AcceptMedia(m) \/ Ask(m)
       PROVE  DialogTypes'
    BY <1>2, RoomsAssumption DEF DialogTypes, AcceptText, Heard, Settled, Accepted,
       Free, Unlocked, AcceptMedia, Carry, Ask, queues, carriers, slots, dialogs,
       markers, talks, inbox, bot, sweeps
  <1>3. ASSUME NEW c \in Room, Stop(c) \/ Superstop(c) \/ RoundBoundary(c) \/
     ArmRestart(c) \/ QueueBurstForRestart(c) \/
     FlushBurst(c) \/ FreeTurn(c) \/ FinishRestartDrain(c)
       PROVE  DialogTypes'
    BY <1>3, RoomsAssumption DEF DialogTypes, Stop, Event, Superstop, RoundBoundary,
       ArmRestart, QueueBurstForRestart, FlushBurst, Carry, FreeTurn, Goes,
       FinishRestartDrain, queues, carriers, slots, dialogs, markers, talks, inbox, bot,
       sweeps
  <1>4. ASSUME Rested \/ PrepareBatch \/ Tick \/ CloseOld
       PROVE  DialogTypes'
    BY <1>4, RoomsAssumption DEF DialogTypes, Rested, PrepareBatch, Tick, CloseOld,
       EndSession, Goes, Free, queues, carriers, slots, dialogs, markers, talks, inbox,
       bot, sweeps
  <1>5. ASSUME NEW k \in Worker, Check(k)
       PROVE  DialogTypes'
    BY <1>5, RoomsAssumption DEF DialogTypes, Check, Settled, PutDown, queues, carriers,
       slots, dialogs, markers, talks, inbox, bot, sweeps
  <1>6. ASSUME NEW c \in Room, NewCommand(c)
       PROVE  DialogTypes'
    BY <1>6, RoomsAssumption DEF DialogTypes, NewCommand, Detach, SetCurrent, Current,
       Settled, Event, carriers, slots, inbox, bot, sweeps
  <1>7. ASSUME NEW c \in Room, CreateFails(c) \/ ResumeFails(c)
       PROVE  DialogTypes'
    BY <1>7, RoomsAssumption DEF DialogTypes, CreateFails, ResumeFails, Unresumable,
       NoSession, EndSession, Event, Settled, GiveUpSlot, queues, carriers, dialogs,
       markers, talks, inbox, bot
  <1>8. ASSUME WakeInbox
       PROVE  DialogTypes'
    <2>1. UNCHANGED <<of, main, cached, row, stored, ended>>
      BY <1>8 DEF WakeInbox, slots, talks, dialogs, markers
    <2>2. CASE UNCHANGED talks
      BY <2>1, <2>2 DEF DialogTypes, talks, dialogs, markers
    <2>3. ASSUME NEW s \in Session, Opens(Home, s), opening' = s
          PROVE  DialogTypes'
      BY <2>1, <2>3, RoomsAssumption DEF DialogTypes, Opens, Unresumable, Current
    <2>4. QED
      BY <1>8, <2>2, <2>3 DEF WakeInbox
  <1>9. ASSUME NEW c \in Room, Create(c)
       PROVE  DialogTypes'
    <2>1. UNCHANGED <<main, cached, row, stored, ended, opening>>
      BY <1>9 DEF Create, talks, dialogs, markers
    <2>2. CASE of' = [of EXCEPT ![c] = main[c]] /\ UNCHANGED talks
      BY <2>1, <2>2 DEF DialogTypes, talks, dialogs, markers
    <2>3. ASSUME NEW s \in Session, Opens(c, s), of' = [of EXCEPT ![c] = s]
          PROVE  DialogTypes'
      BY <2>1, <2>3 DEF DialogTypes, Opens, Unresumable, Current
    <2>4. QED
      BY <1>9, <2>2, <2>3 DEF Create
  <1>10. ASSUME NEW c \in Room, Install(c)
       PROVE  DialogTypes'
    BY <1>10, RoomsAssumption DEF DialogTypes, Install, Installs, SetCurrent,
       EndSession, Begin, carriers, inbox, bot, sweeps
  <1>11. ASSUME NEW c \in Room, FinishTurn(c)
       PROVE  DialogTypes'
    <2>1. of[c] \in Session
      BY <1>11 DEF FinishTurn, Dialogs, DialogTypes
    <2>2. stored' \in [Room -> SUBSET Session]
      BY <1>11, <2>1 DEF FinishTurn, SavesHistory, DialogTypes
    <2>3. cached' \in [Room -> {Unread, 0} \cup Session] /\ row' \in [Room -> {0} \cup Session]
      BY <1>11, <2>1 DEF FinishTurn, MarkCurrent, SetCurrent, markers, DialogTypes
    <2>4. QED
      BY <1>11, <2>2, <2>3 DEF FinishTurn, GiveUpSlot, DialogTypes
  <1>12. ASSUME PrepareNothing
       PROVE  DialogTypes'
    BY <1>12, RoomsAssumption DEF DialogTypes, PrepareNothing, Event, GiveUpSlot,
       queues, carriers, dialogs, markers, talks, bot
  <1>13. ASSUME NEW k \in Worker, NEW c \in Room, Dispatch(k, c)
       PROVE  DialogTypes'
    <2>1. /\ UNCHANGED <<main, cached, row, records, stored, born, ended, opening>> /\ PutDown(k)
          /\ cpc[k] = "dispatch" /\ \E m \in carried[k] : To[m] = c
          /\ Interject(k, c) \/ QueueUp(k, c) \/ StartTurn(k, c)
      BY <1>13 DEF Dispatch, talks, dialogs, markers, inbox, bot, sweeps
    <2>2. CASE Interject(k, c)
      BY <2>1, <2>2 DEF DialogTypes, Interject, PutDown, slots
    <2>3. CASE QueueUp(k, c)
      BY <2>1, <2>3 DEF DialogTypes, QueueUp, PutDown, slots
    <2>4. CASE StartTurn(k, c)
      BY <2>1, <2>4 DEF DialogTypes, StartTurn, Claim, CanClaim, PutDown
    <2>5. QED
      BY <2>1, <2>2, <2>3, <2>4
  <1>14. ASSUME InstallForInbox
       PROVE  DialogTypes'
    BY <1>14, RoomsAssumption DEF DialogTypes, InstallForInbox, Installs, SetCurrent,
       EndSession, queues, carriers, slots, inbox, bot
  <1>15. ASSUME NEW s \in Worker, Probe(s)
       PROVE  DialogTypes'
    BY <1>15, RoomsAssumption DEF DialogTypes, Probe, Past, Goes, queues, carriers,
       dialogs, markers, inbox, bot
  <1>16. ASSUME NEW s \in Worker, NEW c \in Room, Sweep(s, c)
       PROVE  DialogTypes'
    <2>1. /\ UNCHANGED <<main, cached, row, records, stored, born, ended, opening>> /\ at[s] \in {"sweep", "tick"} /\ probing[s] = NoOne
      BY <1>16 DEF Sweep, carriers, talks, dialogs, markers, inbox, bot
    <2>2. CASE DrainNextMessages(c) /\ Past(s, c) /\ UNCHANGED probing
      BY <2>1, <2>2 DEF DialogTypes, DrainNextMessages, Claim, CanClaim
    <2>3. CASE StartSteerCatchup(c) /\ Past(s, c) /\ UNCHANGED probing
      BY <2>1, <2>3 DEF DialogTypes, StartSteerCatchup, Claim, CanClaim
    <2>4. CASE StartInboxTurn(c) /\ Past(s, c) /\ UNCHANGED probing
      BY <2>1, <2>4 DEF DialogTypes, StartInboxTurn, Reviews, Background, Claim,
         CanClaim
    <2>5. CASE NothingToStart(c) /\ Past(s, c) /\ UNCHANGED probing
      BY <2>1, <2>5 DEF DialogTypes, NothingToStart, slots
    <2>6. CASE StartJobPoll(c) /\ probing' = [probing EXCEPT ![s] = c] /\ UNCHANGED <<at, left, lost>>
      BY <2>1, <2>6 DEF DialogTypes, StartJobPoll, Background, Claim, CanClaim
    <2>7. QED
      BY <1>16, <2>2, <2>3, <2>4, <2>5, <2>6 DEF Sweep
  <1>17. ASSUME NEW c \in Room, AskForCheck(c)
       PROVE  DialogTypes'
    <2>1. of[c] \in Session
      BY <1>17 DEF AskForCheck, Dialogs, DialogTypes
    <2>2. QED
      BY <1>17, <2>1 DEF AskForCheck, DialogTypes, slots, markers
  <1>18. QED
    BY <1>1, <1>2, <1>3, <1>4, <1>5, <1>6, <1>7, <1>8, <1>9, <1>10, <1>11,
       <1>12, <1>13, <1>14, <1>15, <1>16, <1>17 DEF Next, Goroutines,
       UpdateLoop, TurnGoesOn, Carries, Sweeps, Housekeeping, Worker

\* Flags.
LEMMA NextFlagTypes ==
  ASSUME FlagTypes, [Next]_vars
  PROVE  FlagTypes'
  <1>1. CASE UNCHANGED vars
    BY <1>1, RoomsAssumption DEF FlagTypes, vars, queues, carriers, slots, dialogs,
       markers, talks, inbox, bot, sweeps
  <1>2. ASSUME NEW m \in Msg, Ask(m)
       PROVE  FlagTypes'
    BY <1>2, RoomsAssumption DEF FlagTypes, Ask, Accepted, Carry, Free, queues,
       carriers, slots, dialogs, markers, talks, inbox, bot, sweeps
  <1>3. ASSUME NEW c \in Room, RoundBoundary(c) \/ Create(c) \/ Install(c) \/
     FlushBurst(c) \/ FreeTurn(c)
       PROVE  FlagTypes'
    BY <1>3, RoomsAssumption DEF FlagTypes, RoundBoundary, Create, Begin, Install,
       FlushBurst, Carry, FreeTurn, Goes, queues, carriers, slots, dialogs, markers,
       talks, inbox, bot, sweeps
  <1>4. ASSUME PrepareBatch \/ Tick \/ CloseOld
       PROVE  FlagTypes'
    BY <1>4, RoomsAssumption DEF FlagTypes, PrepareBatch, Tick, CloseOld, Goes, slots,
       talks, dialogs, inbox, bot
  <1>5. ASSUME NEW k \in Worker, Check(k)
       PROVE  FlagTypes'
    BY <1>5, RoomsAssumption DEF FlagTypes, Check, Settled, PutDown, queues, carriers,
       slots, dialogs, markers, talks, inbox, bot, sweeps
  <1>6. ASSUME NEW k \in Worker, NEW c \in Room, Dispatch(k, c)
       PROVE  FlagTypes'
    BY <1>6, RoomsAssumption DEF FlagTypes, Dispatch, Interject, QueueUp, StartTurn,
       Claim, CanClaim, PutDown, queues, carriers, slots, dialogs, markers, talks,
       inbox, bot, sweeps
  <1>7. ASSUME NEW s \in Worker, NEW c \in Room, Sweep(s, c)
       PROVE  FlagTypes'
    BY <1>7, RoomsAssumption DEF FlagTypes, Sweep, Past, Goes, DrainNextMessages,
       StartSteerCatchup, StartInboxTurn, NothingToStart, StartJobPoll, Claim, CanClaim,
       Background, queues, carriers, slots, dialogs, markers, talks, inbox, bot, sweeps
  <1>8. ASSUME NEW m \in Msg, AcceptText(m)
       PROVE  FlagTypes'
    BY <1>8, RoomsAssumption DEF FlagTypes, AcceptText, Heard, Settled, Accepted, Free,
       Unlocked, carriers, slots, dialogs, markers, talks, bot, sweeps
  <1>9. ASSUME NEW m \in Msg, AcceptMedia(m)
       PROVE  FlagTypes'
    BY <1>9, RoomsAssumption DEF FlagTypes, AcceptMedia, Heard, Settled, Accepted,
       Carry, Free, queues, slots, dialogs, markers, talks, bot, sweeps
  <1>10. ASSUME NEW c \in Room, Stop(c)
       PROVE  FlagTypes'
    BY <1>10, RoomsAssumption DEF FlagTypes, Stop, Event, queues, carriers, slots,
       dialogs, markers, inbox, bot, sweeps
  <1>11. ASSUME NEW c \in Room, Superstop(c)
       PROVE  FlagTypes'
    BY <1>11, RoomsAssumption DEF FlagTypes, Superstop, Event, queues, carriers, slots,
       dialogs, markers, inbox, bot, sweeps
  <1>12. ASSUME NEW c \in Room, NewCommand(c)
       PROVE  FlagTypes'
    BY <1>12, RoomsAssumption DEF FlagTypes, NewCommand, Detach, Settled, Event,
       carriers, slots, inbox, bot, sweeps
  <1>13. ASSUME NEW c \in Room, AskForCheck(c)
       PROVE  FlagTypes'
    BY <1>13, RoomsAssumption DEF FlagTypes, AskForCheck, Event, queues, carriers,
       slots, dialogs, markers, inbox, bot, sweeps
  <1>14. ASSUME NEW c \in Room, ArmRestart(c)
       PROVE  FlagTypes'
    BY <1>14, RoomsAssumption DEF FlagTypes, ArmRestart, queues, carriers, slots,
       dialogs, markers, talks, inbox, sweeps
  <1>15. ASSUME NEW c \in Room, CreateFails(c) \/ ResumeFails(c)
       PROVE  FlagTypes'
    BY <1>15, RoomsAssumption DEF FlagTypes, CreateFails, ResumeFails, NoSession, Event,
       Settled, GiveUpSlot, queues, carriers, dialogs, markers, talks, inbox, bot
  <1>16. ASSUME WakeInbox
       PROVE  FlagTypes'
    <2>1. UNCHANGED <<due, paused, resting, restart, armer, arming>> /\ mail' = TRUE
      BY <1>16 DEF WakeInbox, talks, bot
    <2>2. mail' \in BOOLEAN
      BY <2>1, Zenon
    <2>3. spent' \in 0..MaxEvents
      BY <1>16, RoomsAssumption DEF WakeInbox, Event, FlagTypes
    <2>4. QED
      BY <2>1, <2>2, <2>3 DEF FlagTypes
  <1>17. ASSUME Rested
       PROVE  FlagTypes'
    BY <1>17, RoomsAssumption DEF FlagTypes, Rested, queues, carriers, slots, dialogs,
       markers, talks, bot, sweeps
  <1>18. ASSUME NEW c \in Room, QueueBurstForRestart(c)
       PROVE  FlagTypes'
    BY <1>18, RoomsAssumption DEF FlagTypes, QueueBurstForRestart, carriers, slots,
       dialogs, markers, talks, inbox, sweeps
  <1>19. ASSUME NEW c \in Room, FinishTurn(c)
       PROVE  FlagTypes'
    <2>1. UNCHANGED <<due, paused, restart, armer, arming>>
      BY <1>19 DEF FinishTurn, bot
    <2>2. mail' \in BOOLEAN /\ resting' \in BOOLEAN
      <3>1. CASE UNCHANGED inbox
        BY <3>1 DEF inbox, FlagTypes
      <3>2. CASE mail' \in BOOLEAN /\ resting' \in {FALSE, mail'}
        BY <3>2, Zenon
      <3>3. QED
        BY <1>19, <3>1, <3>2 DEF FinishTurn
    <2>3. spent' \in 0..MaxEvents
      <3>1. spent' = spent \/ Event
        BY <1>19 DEF FinishTurn
      <3>2. QED
        BY <3>1, RoomsAssumption DEF Event, FlagTypes
    <2>4. QED
      BY <2>1, <2>2, <2>3 DEF FlagTypes
  <1>20. ASSUME PrepareNothing
       PROVE  FlagTypes'
    BY <1>20, RoomsAssumption DEF FlagTypes, PrepareNothing, Event, GiveUpSlot, queues,
       carriers, dialogs, markers, talks, bot
  <1>21. ASSUME NEW c \in Room, FinishRestartDrain(c)
       PROVE  FlagTypes'
    BY <1>21, RoomsAssumption DEF FlagTypes, FinishRestartDrain, Goes, queues, carriers,
       slots, dialogs, markers, talks, inbox
  <1>22. ASSUME NEW s \in Worker, Probe(s)
       PROVE  FlagTypes'
    BY <1>22, RoomsAssumption DEF FlagTypes, Probe, Past, Goes, queues, carriers,
       dialogs, markers, inbox, bot
  <1>23. ASSUME InstallForInbox
       PROVE  FlagTypes'
    <2>1. UNCHANGED <<due, paused, mail, resting, restart, armer, arming>> /\ (spent' = spent \/ Event)
      BY <1>23 DEF InstallForInbox, inbox, bot
    <2>2. QED
      BY <2>1, RoomsAssumption DEF Event, FlagTypes
  <1>24. QED
    BY <1>1, <1>2, <1>3, <1>4, <1>5, <1>6, <1>7, <1>8, <1>9, <1>10, <1>11,
       <1>12, <1>13, <1>14, <1>15, <1>16, <1>17, <1>18, <1>19, <1>20, <1>21,
       <1>22, <1>23 DEF Next, Goroutines, UpdateLoop, TurnGoesOn, Carries,
       Sweeps, Housekeeping, Worker

\* Goroutines past their turn.
LEMMA NextSweepTypes ==
  ASSUME SweepTypes, [Next]_vars
  PROVE  SweepTypes'
  <1>1. CASE UNCHANGED vars
    BY <1>1, RoomsAssumption DEF SweepTypes, Worker, vars, queues, carriers, slots,
       dialogs, markers, talks, inbox, bot, sweeps
  <1>2. ASSUME NEW m \in Msg, AcceptText(m) \/ AcceptMedia(m) \/ Ask(m)
       PROVE  SweepTypes'
    BY <1>2, RoomsAssumption DEF SweepTypes, Worker, AcceptText, Heard, Settled,
       Accepted, Free, Unlocked, AcceptMedia, Carry, Ask, queues, carriers, slots,
       dialogs, markers, talks, inbox, bot, sweeps
  <1>3. ASSUME NEW c \in Room, Stop(c) \/ Superstop(c) \/ NewCommand(c) \/
     RoundBoundary(c) \/ AskForCheck(c) \/ ArmRestart(c) \/ Create(c) \/
     Install(c) \/ QueueBurstForRestart(c) \/ FlushBurst(c)
       PROVE  SweepTypes'
    BY <1>3, RoomsAssumption DEF SweepTypes, Worker, Stop, Event, Superstop, NewCommand,
       Detach, Settled, RoundBoundary, AskForCheck, ArmRestart, Create, Begin, Install,
       QueueBurstForRestart, FlushBurst, Carry, queues, carriers, slots, dialogs,
       markers, talks, inbox, bot, sweeps
  <1>4. ASSUME Rested \/ PrepareBatch
       PROVE  SweepTypes'
    BY <1>4, RoomsAssumption DEF SweepTypes, Worker, Rested, PrepareBatch, queues,
       carriers, slots, dialogs, markers, talks, inbox, bot, sweeps
  <1>5. ASSUME NEW k \in Worker, Check(k)
       PROVE  SweepTypes'
    BY <1>5, RoomsAssumption DEF SweepTypes, Worker, Check, Settled, PutDown, queues,
       carriers, slots, dialogs, markers, talks, inbox, bot, sweeps
  <1>6. ASSUME NEW k \in Worker, NEW c \in Room, Dispatch(k, c)
       PROVE  SweepTypes'
    BY <1>6, RoomsAssumption DEF SweepTypes, Worker, Dispatch, Interject, QueueUp,
       StartTurn, Claim, CanClaim, PutDown, queues, carriers, slots, dialogs, markers,
       talks, inbox, bot, sweeps
  <1>7. ASSUME NEW c \in Room, CreateFails(c) \/ ResumeFails(c)
       PROVE  SweepTypes'
    BY <1>7, FailsWithout, RoomsAssumption DEF SweepTypes, Worker, NoSession,
       Settled, GiveUpSlot, queues, carriers, inbox, bot
  <1>8. ASSUME WakeInbox
       PROVE  SweepTypes'
    <2>1. UNCHANGED <<turn, batch, of, probing, lost, active>> /\ Home \in Worker /\ at[Home] = "off"
      BY <1>8, RoomsAssumption DEF WakeInbox, slots, sweeps, Worker
    <2>2. CASE UNCHANGED sweeps
      BY <2>1, <2>2 DEF SweepTypes, sweeps
    <2>3. CASE at' = [at EXCEPT ![Home] = "tick"] /\ left' = [left EXCEPT ![Home] = {Home}]
      BY <2>1, <2>3, RoomsAssumption DEF SweepTypes
    <2>4. CASE at' = [at EXCEPT ![Home] = "install"] /\ UNCHANGED left
      BY <2>1, <2>4, RoomsAssumption DEF SweepTypes
    <2>5. QED
      BY <1>8, <2>2, <2>3, <2>4 DEF WakeInbox
  <1>9. ASSUME NEW c \in Room, FinishTurn(c)
       PROVE  SweepTypes'
    BY <1>9, RoomsAssumption DEF SweepTypes, Worker, FinishTurn, Settled, Event,
       GiveUpSlot, queues, carriers, bot
  <1>10. ASSUME PrepareNothing
       PROVE  SweepTypes'
    BY <1>10, RoomsAssumption DEF SweepTypes, Worker, PrepareNothing, Event, GiveUpSlot,
       queues, carriers, dialogs, markers, talks, bot
  <1>11. ASSUME NEW c \in Room, FreeTurn(c)
       PROVE  SweepTypes'
    BY <1>11, RoomsAssumption DEF SweepTypes, Worker, FreeTurn, Goes, queues, carriers,
       slots, dialogs, markers, talks, inbox, bot
  <1>12. ASSUME NEW c \in Room, FinishRestartDrain(c)
       PROVE  SweepTypes'
    BY <1>12, RoomsAssumption DEF SweepTypes, Worker, FinishRestartDrain, Goes, queues,
       carriers, slots, dialogs, markers, talks, inbox
  <1>13. ASSUME InstallForInbox
       PROVE  SweepTypes'
    BY <1>13, RoomsAssumption DEF SweepTypes, Worker, InstallForInbox, queues, carriers,
       slots, inbox, bot
  <1>14. ASSUME Tick \/ CloseOld
       PROVE  SweepTypes'
    BY <1>14, RoomsAssumption DEF SweepTypes, Worker, Tick, CloseOld, Goes, Free,
       queues, carriers, slots, dialogs, markers, talks, inbox, bot
  <1>15. ASSUME NEW s \in Worker, Probe(s)
       PROVE  SweepTypes'
    BY <1>15, RoomsAssumption DEF SweepTypes, Worker, Probe, Past, Goes, queues,
       carriers, dialogs, markers, inbox, bot
  <1>16. ASSUME NEW s \in Worker, NEW c \in Room, Sweep(s, c)
       PROVE  SweepTypes'
    BY <1>16, RoomsAssumption DEF SweepTypes, Worker, Sweep, Past, Goes,
       DrainNextMessages, StartSteerCatchup, StartInboxTurn, NothingToStart,
       StartJobPoll, Claim, CanClaim, Background, carriers, dialogs, markers, talks,
       inbox, bot
  <1>17. QED
    BY <1>1, <1>2, <1>3, <1>4, <1>5, <1>6, <1>7, <1>8, <1>9, <1>10, <1>11,
       <1>12, <1>13, <1>14, <1>15, <1>16 DEF Next, Goroutines, UpdateLoop,
       TurnGoesOn, Carries, Sweeps, Housekeeping, Worker

\* A look at the checks is not disturbed.
LEMMA NextProbes ==
  ASSUME FlowTypes, SweepTypes, Probes, [Next]_vars
  PROVE  Probes'
  <1>1. CASE UNCHANGED vars
    BY <1>1, RoomsAssumption DEF FlowTypes, SweepTypes, Probes, Worker, vars, queues,
       carriers, slots, dialogs, markers, talks, inbox, bot, sweeps
  <1>2. ASSUME NEW m \in Msg, AcceptText(m) \/ AcceptMedia(m) \/ Ask(m)
       PROVE  Probes'
    BY <1>2, RoomsAssumption DEF FlowTypes, SweepTypes, Probes, Worker, AcceptText,
       Heard, Settled, Accepted, Free, Unlocked, AcceptMedia, Carry, Ask, queues,
       carriers, slots, dialogs, markers, talks, inbox, bot, sweeps
  <1>3. ASSUME NEW c \in Room, Stop(c) \/ Superstop(c) \/
     RoundBoundary(c) \/ AskForCheck(c) \/ ArmRestart(c) \/
     QueueBurstForRestart(c) \/ FlushBurst(c)
       PROVE  Probes'
    BY <1>3, RoomsAssumption DEF FlowTypes, SweepTypes, Probes, Worker, Stop, Event,
       Superstop, RoundBoundary,
       AskForCheck, ArmRestart, QueueBurstForRestart, FlushBurst, Carry, queues,
       carriers, slots, dialogs, markers, talks, inbox, bot, sweeps
  <1>4. ASSUME Rested
       PROVE  Probes'
    BY <1>4, RoomsAssumption DEF FlowTypes, SweepTypes, Probes, Worker, Rested, queues,
       carriers, slots, dialogs, markers, talks, inbox, bot, sweeps
  <1>5. ASSUME NEW k \in Worker, Check(k)
       PROVE  Probes'
    BY <1>5, RoomsAssumption DEF FlowTypes, SweepTypes, Probes, Worker, Check, Settled,
       PutDown, queues, carriers, slots, dialogs, markers, talks, inbox, bot, sweeps
  <1>6. ASSUME NEW c \in Room, CreateFails(c) \/ ResumeFails(c)
       PROVE  Probes'
    <2>1. /\ turn[c] # "probe" /\ turn' = [turn EXCEPT ![c] = "none"] /\ probing' = probing
          /\ at[c] = "off" /\ at' = [at EXCEPT ![c] = "freeown"]
      BY <1>6, FailsWithout DEF NoSession, GiveUpSlot
    <2>2. QED
      BY <2>1, RoomsAssumption DEF Probes, FlowTypes, SweepTypes, Worker
  <1>7. ASSUME WakeInbox
       PROVE  Probes'
    <2>1. UNCHANGED <<turn, batch, of, probing, lost, active>> /\ Home \in Worker /\ at[Home] = "off"
      BY <1>7, RoomsAssumption DEF WakeInbox, slots, sweeps, Worker
    <2>2. CASE UNCHANGED sweeps
      BY <2>1, <2>2 DEF Probes, FlowTypes, SweepTypes, sweeps
    <2>3. CASE at' = [at EXCEPT ![Home] = "tick"] /\ left' = [left EXCEPT ![Home] = {Home}]
      BY <2>1, <2>3, RoomsAssumption DEF Probes, FlowTypes, SweepTypes
    <2>4. CASE at' = [at EXCEPT ![Home] = "install"] /\ UNCHANGED left
      BY <2>1, <2>4, RoomsAssumption DEF Probes, FlowTypes, SweepTypes
    <2>5. QED
      BY <1>7, <2>2, <2>3, <2>4 DEF WakeInbox
  <1>8. ASSUME NEW c \in Room, Create(c)
       PROVE  Probes'
    BY <1>8, RoomsAssumption DEF FlowTypes, SweepTypes, Probes, Worker, Create, Begin,
       carriers, inbox, bot, sweeps
  <1>9. ASSUME NEW c \in Room, Install(c)
       PROVE  Probes'
    BY <1>9, RoomsAssumption DEF FlowTypes, SweepTypes, Probes, Worker, Install, Begin,
       carriers, inbox, bot, sweeps
  <1>10. ASSUME NEW c \in Room, FinishTurn(c)
       PROVE  Probes'
    BY <1>10, RoomsAssumption DEF FlowTypes, SweepTypes, Probes, Worker, FinishTurn,
       Settled, Event, GiveUpSlot, queues, carriers, bot
  <1>11. ASSUME PrepareBatch
       PROVE  Probes'
    BY <1>11, RoomsAssumption DEF FlowTypes, SweepTypes, Probes, Worker, PrepareBatch,
       queues, carriers, dialogs, markers, talks, inbox, bot, sweeps
  <1>12. ASSUME PrepareNothing
       PROVE  Probes'
    BY <1>12, RoomsAssumption DEF FlowTypes, SweepTypes, Probes, Worker, PrepareNothing,
       Event, GiveUpSlot, queues, carriers, dialogs, markers, talks, bot
  <1>13. ASSUME NEW k \in Worker, NEW c \in Room, Dispatch(k, c)
       PROVE  Probes'
    <2>1. /\ UNCHANGED <<at, probing>> /\ PutDown(k)
          /\ cpc[k] = "dispatch" /\ \E m \in carried[k] : To[m] = c
          /\ Interject(k, c) \/ QueueUp(k, c) \/ StartTurn(k, c)
      BY <1>13 DEF Dispatch, talks, dialogs, markers, inbox, bot, sweeps
    <2>2. CASE Interject(k, c)
      BY <2>1, <2>2 DEF Probes, FlowTypes, Interject, PutDown, slots
    <2>3. CASE QueueUp(k, c)
      BY <2>1, <2>3 DEF Probes, FlowTypes, QueueUp, PutDown, slots
    <2>4. CASE StartTurn(k, c)
      BY <2>1, <2>4 DEF Probes, FlowTypes, StartTurn, Claim, CanClaim, PutDown
    <2>5. QED
      BY <2>1, <2>2, <2>3, <2>4
  <1>14. ASSUME NEW c \in Room, FreeTurn(c)
       PROVE  Probes'
    BY <1>14, RoomsAssumption DEF FlowTypes, SweepTypes, Probes, Worker, FreeTurn, Goes,
       queues, carriers, slots, dialogs, markers, talks, inbox, bot
  <1>15. ASSUME NEW c \in Room, FinishRestartDrain(c)
       PROVE  Probes'
    BY <1>15, RoomsAssumption DEF FlowTypes, SweepTypes, Probes, Worker,
       FinishRestartDrain, Goes, queues, carriers, slots, dialogs, markers, talks, inbox
  <1>16. ASSUME InstallForInbox
       PROVE  Probes'
    BY <1>16, RoomsAssumption DEF FlowTypes, SweepTypes, Probes, Worker,
       InstallForInbox, queues, carriers, slots, inbox, bot
  <1>17. ASSUME Tick \/ CloseOld
       PROVE  Probes'
    BY <1>17, RoomsAssumption DEF FlowTypes, SweepTypes, Probes, Worker, Tick, CloseOld,
       Goes, Free, queues, carriers, slots, dialogs, markers, talks, inbox, bot
  <1>18. ASSUME NEW s \in Worker, Probe(s)
       PROVE  Probes'
    BY <1>18, RoomsAssumption DEF FlowTypes, SweepTypes, Probes, Worker, Probe, Past,
       Goes, queues, carriers, dialogs, markers, inbox, bot
  <1>19. ASSUME NEW s \in Worker, NEW c \in Room, Sweep(s, c)
       PROVE  Probes'
    <2>1. /\ UNCHANGED <<fate>> /\ at[s] \in {"sweep", "tick"} /\ probing[s] = NoOne
      BY <1>19 DEF Sweep, carriers, talks, dialogs, markers, inbox, bot
    <2>2. CASE DrainNextMessages(c) /\ Past(s, c) /\ UNCHANGED probing
      BY <2>1, <2>2, RoomsAssumption DEF Probes, FlowTypes, SweepTypes, Worker,
         DrainNextMessages, Claim, CanClaim, Past, Goes
    <2>3. CASE StartSteerCatchup(c) /\ Past(s, c) /\ UNCHANGED probing
      BY <2>1, <2>3, RoomsAssumption DEF Probes, FlowTypes, SweepTypes, Worker,
         StartSteerCatchup, Claim, CanClaim, Past, Goes
    <2>4. CASE StartInboxTurn(c) /\ Past(s, c) /\ UNCHANGED probing
      BY <2>1, <2>4, RoomsAssumption DEF Probes, FlowTypes, SweepTypes, Worker,
         StartInboxTurn, Reviews, Background, Claim, CanClaim, Past, Goes
    <2>5. CASE NothingToStart(c) /\ Past(s, c) /\ UNCHANGED probing
      BY <2>1, <2>5, RoomsAssumption DEF Probes, FlowTypes, SweepTypes, Worker,
         NothingToStart, slots, Past, Goes
    <2>6. CASE StartJobPoll(c) /\ probing' = [probing EXCEPT ![s] = c] /\ UNCHANGED <<at, left, lost>>
      BY <2>1, <2>6, RoomsAssumption DEF Probes, FlowTypes, SweepTypes, Worker,
         StartJobPoll, Background, Claim, CanClaim
    <2>7. QED
      BY <1>19, <2>2, <2>3, <2>4, <2>5, <2>6 DEF Sweep
  <1>20. ASSUME NEW c \in Room, NewCommand(c)
       PROVE  Probes'
    <2>1. UNCHANGED <<turn, probing>> /\ at[Loop] = "off" /\ Loop \in Worker
      BY <1>20 DEF NewCommand, Detach, Free, slots, Worker
    <2>2. at' = at \/ at' = [at EXCEPT ![Loop] = "close"]
      BY <1>20 DEF NewCommand, Detach
    <2>3. probing[Loop] = NoOne
      BY <2>1 DEF Probes
    <2>4. QED
      BY <2>1, <2>2, <2>3 DEF Probes, SweepTypes
  <1>21. QED
    BY <1>1, <1>2, <1>3, <1>4, <1>5, <1>6, <1>7, <1>8, <1>9, <1>10, <1>11,
       <1>12, <1>13, <1>14, <1>15, <1>16, <1>17, <1>18, <1>19, <1>20 DEF Next,
       Goroutines, UpdateLoop, TurnGoesOn, Carries, Sweeps, Housekeeping,
       Worker

\* Every slot is counted once.
LEMMA NextSlots ==
  ASSUME FlowTypes, SweepTypes, Probes, Slots, [Next]_vars
  PROVE  Slots'
  <1>1. CASE UNCHANGED vars
    BY <1>1, RoomsAssumption DEF Slots, vars, queues, carriers, slots, dialogs, markers,
       talks, inbox, bot, sweeps
  <1>2. ASSUME NEW m \in Msg, AcceptText(m) \/ AcceptMedia(m) \/ Ask(m)
       PROVE  Slots'
    BY <1>2, RoomsAssumption DEF Slots, AcceptText, Heard, Settled, Accepted, Free,
       Unlocked, AcceptMedia, Carry, Ask, queues, carriers, slots, dialogs, markers,
       talks, inbox, bot, sweeps
  <1>3. ASSUME NEW c \in Room, Stop(c) \/ Superstop(c) \/
     RoundBoundary(c) \/ AskForCheck(c) \/ ArmRestart(c) \/
     QueueBurstForRestart(c) \/ FlushBurst(c)
       PROVE  Slots'
    BY <1>3, RoomsAssumption DEF Slots, Stop, Event, Superstop, RoundBoundary, AskForCheck, ArmRestart,
       QueueBurstForRestart, FlushBurst, Carry, queues, carriers, slots, dialogs,
       markers, talks, inbox, bot, sweeps
  <1>4. ASSUME Rested
       PROVE  Slots'
    BY <1>4, RoomsAssumption DEF Slots, Rested, queues, carriers, slots, dialogs,
       markers, talks, inbox, bot, sweeps
  <1>5. ASSUME NEW k \in Worker, Check(k)
       PROVE  Slots'
    BY <1>5, RoomsAssumption DEF Slots, Check, Settled, PutDown, queues, carriers,
       slots, dialogs, markers, talks, inbox, bot, sweeps
  <1>6. ASSUME NEW c \in Room, CreateFails(c) \/ ResumeFails(c)
       PROVE  Slots'
    <2>1. /\ active' = active /\ turn[c] # "none" /\ at[c] = "off" /\ c \in Worker
          /\ turn' = [turn EXCEPT ![c] = "none"]
          /\ \E w \in {"free", "freeown"} : at' = [at EXCEPT ![c] = w]
      BY <1>6 DEF CreateFails, ResumeFails, Unresumable, NoSession, EndSession,
         GiveUpSlot, Worker
    <2>2. Cardinality(Held(turn')) = Cardinality(Held(turn)) - 1
      BY <2>1, HeldLess DEF FlowTypes
    <2>3. Cardinality(Owing(at')) = Cardinality(Owing(at)) + 1
      <3>1. at'[c] \in {"free", "freeown"} /\ \A r \in Worker \ {c} : at'[r] = at[r]
        BY <2>1 DEF SweepTypes
      <3>2. QED
        BY <2>1, <3>1, OwingMore
    <2>4. QED
      BY <2>1, <2>2, <2>3, Counts DEF Slots
  <1>7. ASSUME WakeInbox
       PROVE  Slots'
    <2>1. UNCHANGED <<turn, active>> /\ Home \in Worker /\ at[Home] = "off"
      BY <1>7, RoomsAssumption DEF WakeInbox, slots, Worker
    <2>2. at' = at \/ at' = [at EXCEPT ![Home] = "tick"] \/ at' = [at EXCEPT ![Home] = "install"]
      BY <1>7 DEF WakeInbox, sweeps
    <2>3. Owing(at') = Owing(at)
      BY <2>1, <2>2 DEF Owing, SweepTypes
    <2>4. QED
      BY <2>1, <2>3 DEF Slots
  <1>8. ASSUME NEW c \in Room, Create(c)
       PROVE  Slots'
    <2>1. UNCHANGED <<at, active>>
      BY <1>8 DEF Create, sweeps, Begin
    <2>2. Held(turn') = Held(turn)
      BY <1>8 DEF Create, sweeps, Begin, Held, FlowTypes
    <2>3. QED
      BY <2>1, <2>2 DEF Slots
  <1>9. ASSUME NEW c \in Room, Install(c)
       PROVE  Slots'
    <2>1. UNCHANGED <<at, active>>
      BY <1>9 DEF Install, sweeps, Begin
    <2>2. Held(turn') = Held(turn)
      BY <1>9 DEF Install, sweeps, Begin, Held, FlowTypes
    <2>3. QED
      BY <2>1, <2>2 DEF Slots
  <1>10. ASSUME NEW c \in Room, FinishTurn(c)
       PROVE  Slots'
    <2>1. /\ active' = active /\ turn[c] # "none" /\ at[c] = "off" /\ c \in Worker
          /\ turn' = [turn EXCEPT ![c] = "none"]
          /\ \E w \in {"free", "freeown"} : at' = [at EXCEPT ![c] = w]
      BY <1>10 DEF FinishTurn, GiveUpSlot, Worker
    <2>2. Cardinality(Held(turn')) = Cardinality(Held(turn)) - 1
      BY <2>1, HeldLess DEF FlowTypes
    <2>3. Cardinality(Owing(at')) = Cardinality(Owing(at)) + 1
      <3>1. at'[c] \in {"free", "freeown"} /\ \A r \in Worker \ {c} : at'[r] = at[r]
        BY <2>1 DEF SweepTypes
      <3>2. QED
        BY <2>1, <3>1, OwingMore
    <2>4. QED
      BY <2>1, <2>2, <2>3, Counts DEF Slots
  <1>11. ASSUME PrepareBatch
       PROVE  Slots'
    <2>1. UNCHANGED <<at, active>>
      BY <1>11 DEF PrepareBatch, sweeps
    <2>2. Held(turn') = Held(turn)
      BY <1>11 DEF PrepareBatch, sweeps, Held, FlowTypes
    <2>3. QED
      BY <2>1, <2>2 DEF Slots
  <1>12. ASSUME PrepareNothing
       PROVE  Slots'
    <2>1. /\ active' = active - 1 /\ turn[Home] # "none" /\ at[Home] = "off"
          /\ Home \in Worker /\ Home \in Room
          /\ turn' = [turn EXCEPT ![Home] = "none"] /\ at' = [at EXCEPT ![Home] = "drainfirst"]
      BY <1>12, RoomsAssumption DEF PrepareNothing, GiveUpSlot, Worker
    <2>2. Cardinality(Held(turn')) = Cardinality(Held(turn)) - 1 /\ Cardinality(Held(turn')) \in Nat
      <3>1. turn'[Home] = "none" /\ \A r \in Room \ {Home} : turn'[r] = turn[r]
        BY <2>1 DEF FlowTypes
      <3>2. QED
        BY <2>1, <3>1, HeldLess
    <2>3. Owing(at') = Owing(at)
      BY <2>1 DEF SweepTypes, Owing
    <2>4. QED
      BY <2>1, <2>2, <2>3, Counts, RoomsAssumption DEF Slots
  <1>13. ASSUME NEW k \in Worker, NEW c \in Room, Dispatch(k, c)
       PROVE  Slots'
    <2>1. UNCHANGED at /\ (Interject(k, c) \/ QueueUp(k, c) \/ StartTurn(k, c))
      BY <1>13 DEF Dispatch, sweeps
    <2>2. CASE UNCHANGED <<turn, active>>
      BY <2>1, <2>2 DEF Slots
    <2>3. CASE Claim(c, "create", carried[k], 0)
      <3>1. "create" \in Turn \ {"none"} /\ Owing(at') = Owing(at)
        BY <2>1 DEF Turn
      <3>2. QED
        BY <2>3, <3>1, ClaimCounted
    <2>4. QED
      BY <2>1, <2>2, <2>3 DEF Interject, QueueUp, StartTurn, slots
  <1>14. ASSUME NEW c \in Room, FreeTurn(c)
       PROVE  Slots'
    <2>1. /\ active' = active - 1 /\ turn' = turn /\ c \in Worker /\ at[c] \in {"free", "freeown"}
          /\ \E w \in {"sweep", "tick"} : at' = [at EXCEPT ![c] = w]
      BY <1>14 DEF FreeTurn, Goes, slots, Worker
    <2>2. Cardinality(Owing(at')) = Cardinality(Owing(at)) - 1 /\ Cardinality(Owing(at')) \in Nat
      BY ZenonT(60), <2>1, OwingLess DEF SweepTypes
    <2>3. QED
      BY <2>1, <2>2, Counts, RoomsAssumption DEF Slots
  <1>15. ASSUME NEW c \in Room, FinishRestartDrain(c)
       PROVE  Slots'
    <2>1. /\ UNCHANGED <<turn, active>> /\ c \in Worker /\ at[c] \in {"drain", "drainfirst"}
          /\ \E w \in {"off", "tick"} : at' = [at EXCEPT ![c] = w]
      BY <1>15, RoomsAssumption DEF FinishRestartDrain, Goes, slots, Worker
    <2>2. Owing(at') = Owing(at)
      BY <2>1 DEF SweepTypes, Owing
    <2>3. QED
      BY <2>1, <2>2 DEF Slots
  <1>16. ASSUME InstallForInbox
       PROVE  Slots'
    <2>1. /\ UNCHANGED <<turn, active>> /\ Home \in Worker /\ at[Home] \in {"install"}
          /\ \E w \in {"tick", "off"} : at' = [at EXCEPT ![Home] = w]
      BY <1>16, RoomsAssumption DEF InstallForInbox, Installs, SetCurrent, EndSession,
         slots, Worker
    <2>2. Owing(at') = Owing(at)
      BY <2>1 DEF SweepTypes, Owing
    <2>3. QED
      BY <2>1, <2>2 DEF Slots
  <1>17. ASSUME Tick \/ CloseOld
       PROVE  Slots'
    <2>1. /\ UNCHANGED <<turn, active>> /\ Loop \in Worker /\ at[Loop] \in {"off", "close"}
          /\ \E w \in {"tick", "off"} : at' = [at EXCEPT ![Loop] = w]
      BY <1>17, RoomsAssumption DEF Tick, CloseOld, EndSession, Goes, Free, slots,
         Worker
    <2>2. Owing(at') = Owing(at)
      BY <2>1 DEF SweepTypes, Owing
    <2>3. QED
      BY <2>1, <2>2 DEF Slots
  <1>18. ASSUME NEW s \in Worker, Probe(s)
       PROVE  Slots'
    <2> DEFINE c == probing[s]
    <2>1. /\ s \in Worker /\ c \in Room /\ turn[c] = "probe" /\ at[s] \in {"sweep", "tick"}
      BY <1>18 DEF Probe, Probes, SweepTypes
    <2> HIDE DEF c
    <2>2. Owing(at') = Owing(at)
      <3>1. \E w \in {at[s], "drain", "off"} : at' = [at EXCEPT ![s] = w]
        BY <1>18 DEF Probe, Past, Goes
      <3>2. QED
        BY <2>1, <3>1 DEF SweepTypes, Owing
    <2>3. CASE turn' = [turn EXCEPT ![c] = "run"] /\ active' = active
      <3>1. Held(turn') = Held(turn)
        BY <2>1, <2>3 DEF Held, FlowTypes
      <3>2. QED
        BY <2>2, <2>3, <3>1 DEF Slots
    <2>4. CASE turn' = [turn EXCEPT ![c] = "none"] /\ active' = active - 1
      <3>1. Cardinality(Held(turn')) = Cardinality(Held(turn)) - 1 /\ Cardinality(Held(turn')) \in Nat
        <4>1. turn'[c] = "none" /\ \A r \in Room \ {c} : turn'[r] = turn[r]
          BY <2>1, <2>4 DEF FlowTypes
        <4>2. QED
          BY <2>1, <4>1, HeldLess
      <3>2. QED
        BY <2>2, <2>4, <3>1, Counts, RoomsAssumption DEF Slots
    <2>5. QED
      BY <1>18, <2>3, <2>4 DEF Probe, c
  <1>19. ASSUME NEW s \in Worker, NEW c \in Room, Sweep(s, c)
       PROVE  Slots'
    <2>1. Owing(at') = Owing(at)
      <3>1. /\ s \in Worker /\ at[s] \in {"sweep", "tick"}
            /\ at' = at \/ \E w \in {at[s], "drain", "off"} : at' = [at EXCEPT ![s] = w]
        BY <1>19 DEF Sweep, Past, Goes
      <3>2. QED
        BY <3>1 DEF SweepTypes, Owing
    <2>2. CASE UNCHANGED <<turn, active>>
      BY <2>1, <2>2 DEF Slots
    <2>3. ASSUME NEW w \in Turn \ {"none"}, NEW x, NEW y, Claim(c, w, x, y)
          PROVE  Slots'
      BY <2>1, <2>3, ClaimCounted
    <2>4. /\ DrainNextMessages(c) => Claim(c, "create", pending[c], 0)
          /\ StartSteerCatchup(c) => Claim(c, "run", steer[c], main[c])
          /\ StartInboxTurn(c) => Claim(c, "prepare", {}, main[c])
          /\ StartJobPoll(c) => Claim(c, "probe", {}, main[c])
          /\ NothingToStart(c) => UNCHANGED <<turn, active>>
      BY DEF DrainNextMessages, StartSteerCatchup, StartInboxTurn, StartJobPoll,
         NothingToStart, slots
    <2>5. {"create", "run", "prepare", "probe"} \subseteq Turn \ {"none"}
      BY DEF Turn
    <2>6. QED
      BY <1>19, <2>2, <2>3, <2>4, <2>5 DEF Sweep
  <1>20. ASSUME NEW c \in Room, NewCommand(c)
       PROVE  Slots'
    <2>1. UNCHANGED <<turn, active>> /\ at[Loop] = "off" /\ Loop \in Worker
      BY <1>20 DEF NewCommand, Detach, Free, slots, Worker
    <2>2. at' = at \/ at' = [at EXCEPT ![Loop] = "close"]
      BY <1>20 DEF NewCommand, Detach
    <2>3. Owing(at') = Owing(at)
      BY <2>1, <2>2 DEF Owing, SweepTypes
    <2>4. QED
      BY <2>1, <2>3 DEF Slots
  <1>21. QED
    BY <1>1, <1>2, <1>3, <1>4, <1>5, <1>6, <1>7, <1>8, <1>9, <1>10, <1>11,
       <1>12, <1>13, <1>14, <1>15, <1>16, <1>17, <1>18, <1>19, <1>20 DEF Next,
       Goroutines, UpdateLoop, TurnGoesOn, Carries, Sweeps, Housekeeping,
       Worker

\* A turn keeps its conversation.
LEMMA NextDialogs ==
  ASSUME FlowTypes, DialogTypes, SweepTypes, Probes, Dialogs, [Next]_vars
  PROVE  Dialogs'
  <1>1. CASE UNCHANGED vars
    BY <1>1, RoomsAssumption DEF FlowTypes, DialogTypes, Dialogs, vars, queues,
       carriers, slots, dialogs, markers, talks, inbox, bot, sweeps
  <1>2. ASSUME NEW m \in Msg, AcceptText(m) \/ AcceptMedia(m) \/ Ask(m)
       PROVE  Dialogs'
    BY <1>2, RoomsAssumption DEF FlowTypes, DialogTypes, Dialogs, AcceptText, Heard,
       Settled, Accepted, Free, Unlocked, AcceptMedia, Carry, Ask, queues, carriers,
       slots, dialogs, markers, talks, inbox, bot, sweeps
  <1>3. ASSUME NEW c \in Room, Stop(c) \/ Superstop(c) \/ RoundBoundary(c) \/
     AskForCheck(c) \/ ArmRestart(c) \/ QueueBurstForRestart(c) \/
     FlushBurst(c) \/ FreeTurn(c) \/ FinishRestartDrain(c)
       PROVE  Dialogs'
    BY <1>3, RoomsAssumption DEF FlowTypes, DialogTypes, Dialogs, Stop, Event,
       Superstop, RoundBoundary, AskForCheck, ArmRestart, QueueBurstForRestart,
       FlushBurst, Carry, FreeTurn, Goes, FinishRestartDrain, queues, carriers, slots,
       dialogs, markers, talks, inbox, bot, sweeps
  <1>4. ASSUME WakeInbox \/ Rested \/ Tick \/ CloseOld
       PROVE  Dialogs'
    BY <1>4, RoomsAssumption DEF FlowTypes, DialogTypes, Dialogs, WakeInbox, Event,
       Opens, Unresumable, Current, Rested, Tick, CloseOld, EndSession, Goes, Free,
       queues, carriers, slots, dialogs, markers, talks, inbox, bot, sweeps
  <1>5. ASSUME NEW k \in Worker, Check(k)
       PROVE  Dialogs'
    BY <1>5, RoomsAssumption DEF FlowTypes, DialogTypes, Dialogs, Check, Settled,
       PutDown, queues, carriers, slots, dialogs, markers, talks, inbox, bot, sweeps
  <1>6. ASSUME NEW c \in Room, NewCommand(c)
       PROVE  Dialogs'
    BY <1>6, RoomsAssumption DEF FlowTypes, DialogTypes, Dialogs, NewCommand, Detach,
       SetCurrent, Current, Settled, Event, carriers, slots, inbox, bot, sweeps
  <1>7. ASSUME NEW c \in Room, CreateFails(c) \/ ResumeFails(c)
       PROVE  Dialogs'
    BY <1>7, FailsWithout, RoomsAssumption DEF FlowTypes, DialogTypes, Dialogs, NoSession, Settled, GiveUpSlot,
       queues, carriers, inbox, bot
  <1>8. ASSUME NEW c \in Room, Create(c)
       PROVE  Dialogs'
    <2>1. UNCHANGED <<main, cached>>
      BY <1>8 DEF Create, talks, dialogs, markers
    <2>2. CASE main[c] # 0 /\ of' = [of EXCEPT ![c] = main[c]] /\ Begin(c)
      BY <2>1, <2>2 DEF Dialogs, FlowTypes, DialogTypes, Begin
    <2>3. ASSUME NEW s \in Session, of' = [of EXCEPT ![c] = s], turn' = [turn EXCEPT ![c] = "open"]
          PROVE  Dialogs'
      <3>1. s # 0
        BY RoomsAssumption DEF Session
      <3>2. QED
        BY <2>1, <2>3, <3>1 DEF Dialogs, FlowTypes, DialogTypes
    <2>4. QED
      BY <1>8, <2>2, <2>3 DEF Create
  <1>9. ASSUME NEW c \in Room, Install(c)
       PROVE  Dialogs'
    BY <1>9, RoomsAssumption DEF FlowTypes, DialogTypes, Dialogs, Install, Installs,
       SetCurrent, EndSession, Begin, carriers, inbox, bot, sweeps
  <1>10. ASSUME NEW c \in Room, FinishTurn(c)
       PROVE  Dialogs'
    <2>1. /\ turn[c] \in {"run", "review"} /\ main' = main
          /\ turn' = [turn EXCEPT ![c] = "none"] /\ of' = [of EXCEPT ![c] = 0]
      BY <1>10 DEF FinishTurn, GiveUpSlot
    <2>2. cached' = cached \/ cached' = [cached EXCEPT ![c] = main[c]]
      BY <1>10, <2>1 DEF FinishTurn, MarkCurrent, SetCurrent, markers, Dialogs
    <2>3. QED
      BY <2>1, <2>2 DEF Dialogs, FlowTypes, DialogTypes
  <1>11. ASSUME PrepareBatch
       PROVE  Dialogs'
    BY <1>11, RoomsAssumption DEF FlowTypes, DialogTypes, Dialogs, PrepareBatch, queues,
       carriers, dialogs, markers, talks, inbox, bot, sweeps
  <1>12. ASSUME PrepareNothing
       PROVE  Dialogs'
    BY <1>12, RoomsAssumption DEF FlowTypes, DialogTypes, Dialogs, PrepareNothing,
       Event, GiveUpSlot, queues, carriers, dialogs, markers, talks, bot
  <1>13. ASSUME NEW k \in Worker, NEW c \in Room, Dispatch(k, c)
       PROVE  Dialogs'
    <2>1. /\ UNCHANGED <<main, cached>> /\ PutDown(k)
          /\ cpc[k] = "dispatch" /\ \E m \in carried[k] : To[m] = c
          /\ Interject(k, c) \/ QueueUp(k, c) \/ StartTurn(k, c)
      BY <1>13 DEF Dispatch, talks, dialogs, markers, inbox, bot, sweeps
    <2>2. CASE Interject(k, c)
      BY <2>1, <2>2 DEF Dialogs, FlowTypes, DialogTypes, Interject, PutDown, slots
    <2>3. CASE QueueUp(k, c)
      BY <2>1, <2>3 DEF Dialogs, FlowTypes, DialogTypes, QueueUp, PutDown, slots
    <2>4. CASE StartTurn(k, c)
      BY <2>1, <2>4 DEF Dialogs, FlowTypes, DialogTypes, StartTurn, Claim, CanClaim,
         PutDown
    <2>5. QED
      BY <2>1, <2>2, <2>3, <2>4
  <1>14. ASSUME InstallForInbox
       PROVE  Dialogs'
    <2>1. UNCHANGED <<turn, of>>
      BY <1>14 DEF InstallForInbox, slots
    <2>2. CASE UNCHANGED <<main, cached>>
      BY <2>1, <2>2 DEF Dialogs
    <2>3. CASE /\ main[Home] = 0 /\ main' = [main EXCEPT ![Home] = opening]
               /\ cached' = [cached EXCEPT ![Home] = opening]
      BY <2>1, <2>3, RoomsAssumption DEF Dialogs, DialogTypes
    <2>4. QED
      BY <1>14, <2>2, <2>3 DEF InstallForInbox, Installs, SetCurrent
  <1>15. ASSUME NEW s \in Worker, Probe(s)
       PROVE  Dialogs'
    <2> DEFINE c == probing[s]
    <2>1. c \in Room /\ turn[c] = "probe" /\ UNCHANGED <<main, cached, batch, burst, cpc, carried>>
      BY <1>15 DEF Probe, Probes, SweepTypes, dialogs, markers, queues, carriers
    <2> HIDE DEF c
    <2>2. CASE turn' = [turn EXCEPT ![c] = "run"] /\ of' = of
      BY <2>1, <2>2 DEF Dialogs, FlowTypes, DialogTypes
    <2>3. CASE turn' = [turn EXCEPT ![c] = "none"] /\ of' = [of EXCEPT ![c] = 0]
      BY <2>1, <2>3 DEF Dialogs, FlowTypes, DialogTypes
    <2>4. QED
      BY <1>15, <2>2, <2>3 DEF Probe, c
  <1>16. ASSUME NEW s \in Worker, NEW c \in Room, Sweep(s, c)
       PROVE  Dialogs'
    <2>1. /\ UNCHANGED <<main, cached>> /\ at[s] \in {"sweep", "tick"} /\ probing[s] = NoOne
      BY <1>16 DEF Sweep, carriers, talks, dialogs, markers, inbox, bot
    <2>2. CASE DrainNextMessages(c) /\ Past(s, c) /\ UNCHANGED probing
      BY <2>1, <2>2 DEF Dialogs, FlowTypes, DialogTypes, DrainNextMessages, Claim,
         CanClaim
    <2>3. CASE StartSteerCatchup(c) /\ Past(s, c) /\ UNCHANGED probing
      BY <2>1, <2>3 DEF Dialogs, FlowTypes, DialogTypes, StartSteerCatchup, Claim,
         CanClaim
    <2>4. CASE StartInboxTurn(c) /\ Past(s, c) /\ UNCHANGED probing
      BY <2>1, <2>4 DEF Dialogs, FlowTypes, DialogTypes, StartInboxTurn, Reviews,
         Background, Claim, CanClaim
    <2>5. CASE NothingToStart(c) /\ Past(s, c) /\ UNCHANGED probing
      BY <2>1, <2>5 DEF Dialogs, FlowTypes, DialogTypes, NothingToStart, slots
    <2>6. CASE StartJobPoll(c) /\ probing' = [probing EXCEPT ![s] = c] /\ UNCHANGED <<at, left, lost>>
      BY <2>1, <2>6 DEF Dialogs, FlowTypes, DialogTypes, StartJobPoll, Background,
         Claim, CanClaim
    <2>7. QED
      BY <1>16, <2>2, <2>3, <2>4, <2>5, <2>6 DEF Sweep
  <1>17. QED
    BY <1>1, <1>2, <1>3, <1>4, <1>5, <1>6, <1>7, <1>8, <1>9, <1>10, <1>11,
       <1>12, <1>13, <1>14, <1>15, <1>16 DEF Next, Goroutines, UpdateLoop,
       TurnGoesOn, Carries, Sweeps, Housekeeping, Worker

\* A room whose conversations are left alone keeps them, even when somebody lets go
\* of one,
LEMMA KeptThere ==
  ASSUME NEW c \in Room, KeptIn(c), main'[c] = main[c], cached'[c] = cached[c],
         row'[c] = row[c], records'[c] = records[c], born'[c] = born[c],
         Opened(c)' \in {0, Opened(c)}, Waking(c)' \in {0, Waking(c)},
         Closing(c)' \in {0, Closing(c)}, born[c] \in Nat
  PROVE  KeptIn(c)'
  BY DEF KeptIn, Apart, Inherited

\* one that closes the conversation it had in hand,
LEMMA KeptOnClose ==
  ASSUME DialogTypes, NEW c \in Room, KeptIn(c), NEW s, EndSession(c, s),
         main'[c] = main[c], cached'[c] = cached[c], born'[c] = born[c],
         Opened(c)' \in {0, Opened(c)}, Waking(c)' \in {0, Waking(c)},
         Closing(c)' \in {0, Closing(c)},
         \/ s = Opened(c) /\ Opened(c)' = 0
         \/ s = Waking(c) /\ Waking(c)' = 0
         \/ s = Closing(c) /\ Closing(c)' = 0
  PROVE  KeptIn(c)'
  <1>1. born[c] \in Nat /\ 0 \notin records[c]
    BY DEF DialogTypes, Session
  <1>2. CASE row'[c] = row[c] /\ records'[c] = records[c]
    BY <1>1, <1>2, KeptThere
  <1>3. CASE /\ records'[c] = records[c] \ {s}
             /\ row'[c] = IF row[c] = s THEN 0 ELSE row[c]
    <2>1. \A r \in {main[c], Opened(c)', Waking(c)'} : r = s => r \in {0, Inherited}
      BY DEF KeptIn, Apart
    <2>2. \A r \in {main'[c], Opened(c)', Waking(c)'} :
            r <= born'[c] /\ (r \notin {0, Inherited} => r \in records'[c])
      BY <1>1, <1>3, <2>1 DEF KeptIn, Inherited
    <2>3. main'[c] \in records'[c] => row'[c] = main'[c]
      BY <1>3 DEF KeptIn
    <2>4. cached'[c] = Unread => row'[c] \in {0, Inherited}
      BY <1>3 DEF KeptIn
    <2>5. QED
      BY <1>1, <2>2, <2>3, <2>4 DEF KeptIn, Apart, Inherited
  <1>4. QED
    BY <1>2, <1>3 DEF EndSession, DialogTypes

\* makes it the room's,
LEMMA KeptOnInstall ==
  ASSUME DialogTypes, NEW c \in Room, KeptIn(c), NEW s \in Session, main[c] = 0,
         main'[c] = s, cached'[c] = s, row'[c] = s, records'[c] = records[c],
         born'[c] = born[c], Closing(c)' = Closing(c),
         \/ s = Opened(c) /\ Opened(c)' = 0 /\ Waking(c)' = Waking(c)
         \/ s = Waking(c) /\ Waking(c)' = 0 /\ Opened(c)' = Opened(c)
  PROVE  KeptIn(c)'
  <1>1. born[c] \in Nat /\ s \in Nat /\ s # 0 /\ s # Unread
    BY RoomsAssumption DEF DialogTypes, Session, Unread
  <1>2. QED
    BY <1>1 DEF KeptIn, Apart, Inherited

\* or opens one.
LEMMA KeptOnOpen ==
  ASSUME DialogTypes, NEW c \in Room, KeptIn(c), NEW s \in Session, Opens(c, s),
         main'[c] = main[c], cached'[c] = cached[c], row'[c] = row[c],
         Closing(c)' = Closing(c),
         \/ Opened(c) = 0 /\ Opened(c)' = s /\ Waking(c)' = Waking(c)
         \/ Waking(c) = 0 /\ Waking(c)' = s /\ Opened(c)' = Opened(c)
  PROVE  KeptIn(c)'
  <1>1. born[c] \in Nat /\ s \in Nat /\ s # 0
    BY RoomsAssumption DEF DialogTypes, Session
  <1>2. main[c] = 0 /\ (s = Inherited \/ s = born[c] + 1)
    BY DEF Opens, Current, KeptIn
  <1>3. /\ born'[c] = (IF born[c] < s THEN s ELSE born[c])
        /\ records'[c] = records[c] \cup {s}
    BY DEF Opens, DialogTypes
  <1>4. \A r \in {main[c], Opened(c), Waking(c), Closing(c)} : r <= born[c]
    BY DEF KeptIn
  <1>5. born[c] <= born'[c] /\ s <= born'[c] /\ born'[c] \in Nat
    BY <1>1, <1>3
  <1>6. 0 \notin records'[c]
    BY <1>1, <1>3 DEF DialogTypes, Session
  <1>7. /\ \A r \in {main[c], Opened(c), Waking(c), Closing(c)} : Apart(s, r) /\ Apart(r, s)
    BY <1>1, <1>2, <1>4 DEF Apart, Inherited
  <1>8. /\ Opened(c) \in Nat /\ Waking(c) \in Nat /\ Closing(c) \in Nat
    BY DEF DialogTypes, Session, Opened, Waking, Closing
  <1>9. QED
    BY <1>1, <1>2, <1>3, <1>4, <1>5, <1>6, <1>7, <1>8 DEF KeptIn, Apart, Inherited

\* Most steps leave all alone.
LEMMA KeptAll ==
  ASSUME DialogTypes, Kept, UNCHANGED <<main, cached, row, records, born, ended, opening>>,
         \A c \in Room : /\ turn'[c] = "open" <=> turn[c] = "open"
                         /\ turn[c] = "open" => of'[c] = of[c],
         at'[Home] = "install" <=> at[Home] = "install",
         at'[Loop] = "close" <=> at[Loop] = "close",
         at[Loop] = "close" => left'[Loop] = left[Loop]
  PROVE  Kept'
  <1>1. \A c \in Room : /\ Opened(c)' = Opened(c) /\ Waking(c)' = Waking(c)
                        /\ Closing(c)' = Closing(c)
    BY DEF Opened, Waking, Closing
  <1>2. \A c \in Room : born[c] \in Nat
    BY DEF DialogTypes, Session
  <1>3. QED
    BY <1>1, <1>2, KeptThere DEF Kept

\* The record and the row of a room's conversation.
LEMMA NextKept ==
  ASSUME FlowTypes, DialogTypes, SweepTypes, Probes, Dialogs, Kept, [Next]_vars
  PROVE  Kept'
  <1> USE RoomsAssumption
  <1>0. Home \in Worker /\ Loop \in Worker /\ Home # Loop
    BY DEF Worker
  <1>1. CASE UNCHANGED vars
    BY <1>1, KeptAll DEF vars, slots, sweeps, talks, dialogs, markers
  <1>2. ASSUME NEW m \in Msg, AcceptText(m) \/ AcceptMedia(m) \/ Ask(m)
        PROVE  Kept'
    <2>1. UNCHANGED <<slots, talks, sweeps>>
      BY <1>2 DEF AcceptText, AcceptMedia, Ask
    <2>2. QED
      BY <2>1, KeptAll DEF slots, sweeps, talks, dialogs, markers
  <1>3. ASSUME NEW c \in Room, Stop(c) \/ Superstop(c) \/ RoundBoundary(c) \/ AskForCheck(c)
                               \/ ArmRestart(c) \/ QueueBurstForRestart(c) \/ FlushBurst(c)
        PROVE  Kept'
    <2>1. UNCHANGED <<turn, of, main, markers, records, born, ended, opening, sweeps>>
      BY <1>3 DEF Stop, Superstop, RoundBoundary, AskForCheck, ArmRestart, QueueBurstForRestart,
         FlushBurst, slots, talks, dialogs
    <2>2. QED
      BY <2>1, KeptAll DEF sweeps, markers
  <1>4. ASSUME NEW k \in Worker, Rested \/ Check(k)
        PROVE  Kept'
    <2>1. UNCHANGED <<slots, talks, sweeps>>
      BY <1>4 DEF Rested, Check
    <2>2. QED
      BY <2>1, KeptAll DEF slots, sweeps, talks, dialogs, markers
  <1>5. ASSUME NEW k \in Worker, NEW c \in Room, Dispatch(k, c)
        PROVE  Kept'
    <2>1. UNCHANGED <<talks, sweeps>> /\ (Interject(k, c) \/ QueueUp(k, c) \/ StartTurn(k, c))
      BY <1>5 DEF Dispatch
    <2>2. \/ UNCHANGED <<turn, of>>
          \/ /\ turn[c] = "none" /\ turn' = [turn EXCEPT ![c] = "create"]
             /\ of' = [of EXCEPT ![c] = 0]
      BY <2>1 DEF Interject, QueueUp, StartTurn, Claim, CanClaim, slots
    <2>3. QED
      BY <2>1, <2>2, KeptAll DEF sweeps, talks, dialogs, markers, FlowTypes, DialogTypes
  <1>6. ASSUME PrepareBatch \/ PrepareNothing
        PROVE  Kept'
    <2>1. /\ UNCHANGED talks /\ turn[Home] = "prepare"
          /\ \/ turn' = [turn EXCEPT ![Home] = "review"] /\ UNCHANGED <<of, at, left>>
             \/ /\ turn' = [turn EXCEPT ![Home] = "none"] /\ of' = [of EXCEPT ![Home] = 0]
                /\ at[Home] = "off" /\ at' = [at EXCEPT ![Home] = "drainfirst"]
                /\ left' = [left EXCEPT ![Home] = Room]
      BY <1>6 DEF PrepareBatch, PrepareNothing, GiveUpSlot, sweeps
    <2>2. QED
      BY <1>0, <2>1, KeptAll DEF talks, dialogs, markers, FlowTypes, DialogTypes, SweepTypes
  <1>7. ASSUME NEW c \in Room, FreeTurn(c) \/ FinishRestartDrain(c)
        PROVE  Kept'
    <2>1. /\ UNCHANGED <<slots, talks, left>> /\ c # Loop /\ c \in Worker
          /\ at[c] \notin {"install", "close"}
          /\ \E w \in {"sweep", "tick", "off"} : at' = [at EXCEPT ![c] = w]
      BY <1>7 DEF FreeTurn, FinishRestartDrain, Goes, Worker
    <2>2. QED
      BY <1>0, <2>1, KeptAll DEF slots, talks, dialogs, markers, SweepTypes
  <1>8. ASSUME Tick
        PROVE  Kept'
    <2>1. /\ UNCHANGED <<slots, talks>> /\ at[Loop] = "off" /\ at' = [at EXCEPT ![Loop] = "tick"]
          /\ left' = [left EXCEPT ![Loop] = Room]
      BY <1>8 DEF Tick, Free, Goes
    <2>2. QED
      BY <1>0, <2>1, KeptAll DEF slots, talks, dialogs, markers, SweepTypes
  <1>9. ASSUME NEW s \in Worker, Probe(s)
        PROVE  Kept'
    <2> DEFINE c == probing[s]
    <2>1. c \in Room /\ turn[c] = "probe" /\ at[s] \in {"sweep", "tick"}
      BY <1>9 DEF Probe, Probes, SweepTypes
    <2>2. /\ UNCHANGED dialogs /\ left' = [left EXCEPT ![s] = @ \ {c}]
          /\ \E w \in {at[s], "drain", "off"} : at' = [at EXCEPT ![s] = w]
          /\ \E w \in {"run", "none"} : turn' = [turn EXCEPT ![c] = w]
          /\ of' = of \/ of' = [of EXCEPT ![c] = 0]
      BY <1>9 DEF Probe, Past, Goes
    <2> HIDE DEF c
    <2>3. QED
      BY <1>0, <2>1, <2>2, KeptAll DEF dialogs, markers, FlowTypes, DialogTypes, SweepTypes
  <1>10. ASSUME NEW s \in Worker, NEW c \in Room, Sweep(s, c)
         PROVE  Kept'
    <2>1. /\ UNCHANGED talks /\ at[s] \in {"sweep", "tick"}
          /\ left' = left \/ left' = [left EXCEPT ![s] = @ \ {c}]
          /\ at' = at \/ \E w \in {at[s], "drain", "off"} : at' = [at EXCEPT ![s] = w]
      BY <1>10 DEF Sweep, Past, Goes
    <2>2. \/ UNCHANGED <<turn, of>>
          \/ /\ turn[c] = "none"
             /\ \E w \in {"create", "run", "prepare", "probe"} : turn' = [turn EXCEPT ![c] = w]
             /\ \E v \in {0, main[c]} : of' = [of EXCEPT ![c] = v]
      BY <1>10 DEF Sweep, DrainNextMessages, StartSteerCatchup, StartInboxTurn, StartJobPoll,
         NothingToStart, Claim, CanClaim, slots
    <2>3. QED
      BY <1>0, <2>1, <2>2, KeptAll DEF talks, dialogs, markers, FlowTypes, DialogTypes, SweepTypes
  <1>11. ASSUME NEW c \in Room, NewCommand(c)
         PROVE  Kept'
    <2>1. /\ UNCHANGED <<turn, of, records, born, opening>> /\ at[Loop] = "off" /\ turn[c] = "none"
          /\ main' = [main EXCEPT ![c] = 0]
          /\ cached' = [cached EXCEPT ![c] = 0] /\ row' = [row EXCEPT ![c] = 0]
          /\ \E e \in {main[c], Current(c), ended[c]} : ended' = [ended EXCEPT ![c] = e]
          /\ \/ UNCHANGED <<at, left>>
             \/ /\ main[c] # 0 /\ ended' = [ended EXCEPT ![c] = main[c]]
                /\ at' = [at EXCEPT ![Loop] = "close"] /\ left' = [left EXCEPT ![Loop] = {c}]
      BY <1>11 DEF NewCommand, Detach, SetCurrent, Free, slots
    <2>2. ASSUME NEW d \in Room PROVE KeptIn(d)'
      <3>1. KeptIn(d)
        BY DEF Kept
      <3>2. Opened(d)' = Opened(d) /\ Waking(d)' = Waking(d)
        BY <1>0, <2>1 DEF Opened, Waking, SweepTypes
      <3>3. CASE d # c
        <4>1. Closing(d)' = Closing(d)
          BY <1>0, <2>1, <3>3 DEF Closing, SweepTypes, DialogTypes
        <4>2. QED
          BY <2>1, <3>1, <3>2, <3>3, <4>1, KeptThere DEF DialogTypes, Session
      <3>4. CASE d = c
        <4>1. main'[d] = 0 /\ cached'[d] = 0 /\ row'[d] = 0 /\ Closing(d)' \in {0, main[d]}
          BY <1>0, <2>1, <3>4 DEF Closing, SweepTypes, DialogTypes
        <4>2. 0 \notin records[d] /\ born[d] \in Nat /\ Unread # 0
          BY DEF DialogTypes, Session, Unread
        <4>3. QED
          BY <2>1, <3>1, <3>2, <4>1, <4>2 DEF KeptIn, Apart, Inherited
      <3>5. QED
        BY <3>3, <3>4
    <2>3. QED
      BY <2>2 DEF Kept
  <1>12. ASSUME NEW c \in Room, Create(c)
         PROVE  Kept'
    <2>1. UNCHANGED <<main, cached, row, ended, opening, at, left>> /\ turn[c] = "create"
      BY <1>12 DEF Create, talks, dialogs, markers, sweeps
    <2>2. CASE UNCHANGED talks /\ turn' = [turn EXCEPT ![c] = "run"] /\ of' = [of EXCEPT ![c] = main[c]]
      BY <2>1, <2>2, KeptAll DEF talks, dialogs, markers, FlowTypes, DialogTypes
    <2>3. ASSUME NEW s \in Session, Opens(c, s), of' = [of EXCEPT ![c] = s],
                 turn' = [turn EXCEPT ![c] = "open"]
          PROVE  Kept'
      <3> SUFFICES ASSUME NEW d \in Room PROVE KeptIn(d)'
        BY DEF Kept
      <3>1. /\ KeptIn(d) /\ Waking(d)' = Waking(d) /\ Closing(d)' = Closing(d) /\ born[d] \in Nat
        BY <2>1 DEF Kept, Waking, Closing, DialogTypes, Session
      <3>2. CASE d = c
        <4>1. Opened(d) = 0 /\ Opened(d)' = s
          BY <2>1, <2>3, <3>2 DEF Opened, FlowTypes, DialogTypes
        <4>2. QED
          BY <2>1, <2>3, <3>1, <3>2, <4>1, KeptOnOpen
      <3>3. CASE d # c
        <4>1. Opened(d)' = Opened(d) /\ records'[d] = records[d] /\ born'[d] = born[d]
          BY <2>1, <2>3, <3>3 DEF Opens, Opened, FlowTypes, DialogTypes
        <4>2. QED
          BY <2>1, <3>1, <4>1, KeptThere
      <3>4. QED
        BY <3>2, <3>3
    <2>4. QED
      BY <1>12, <2>2, <2>3 DEF Create, Begin
  <1>13. ASSUME NEW c \in Room, Install(c)
         PROVE  Kept'
    <2>1. /\ turn[c] = "open" /\ turn' = [turn EXCEPT ![c] = "run"] /\ Installs(c, of[c])
          /\ of' = [of EXCEPT ![c] = main'[c]] /\ UNCHANGED <<born, ended, opening, at, left>>
      BY <1>13 DEF Install, Begin, sweeps
    <2> SUFFICES ASSUME NEW d \in Room PROVE KeptIn(d)'
      BY DEF Kept
    <2>2. KeptIn(d) /\ Waking(d)' = Waking(d) /\ Closing(d)' = Closing(d) /\ born[d] \in Nat
      BY <2>1 DEF Kept, Waking, Closing, DialogTypes, Session
    <2>3. CASE d # c
      <3>1. /\ main'[d] = main[d] /\ cached'[d] = cached[d] /\ row'[d] = row[d]
            /\ records'[d] = records[d]
        BY <2>1, <2>3 DEF Installs, EndSession, SetCurrent, DialogTypes
      <3>2. Opened(d)' = Opened(d)
        BY <2>1, <2>3 DEF Opened, FlowTypes, DialogTypes
      <3>3. QED
        BY <2>1, <2>2, <3>1, <3>2, KeptThere
    <2>4. CASE d = c
      <3>1. Opened(c) = of[c] /\ of[c] \in Session /\ Opened(c)' = 0
        BY <2>1 DEF Opened, Dialogs, DialogTypes, FlowTypes
      <3>2. CASE main[c] # 0
        BY <2>1, <2>2, <2>4, <3>1, <3>2, KeptOnClose DEF Installs
      <3>3. CASE main[c] = 0
        <4>1. main'[c] = of[c] /\ cached'[c] = of[c] /\ row'[c] = of[c] /\ records' = records
          BY <2>1, <3>3 DEF Installs, SetCurrent, DialogTypes
        <4>2. QED
          BY <2>1, <2>2, <2>4, <3>1, <3>3, <4>1, KeptOnInstall
      <3>4. QED
        BY <3>2, <3>3
    <2>5. QED
      BY <2>3, <2>4
  <1>14. ASSUME NEW c \in Room, CreateFails(c) \/ ResumeFails(c)
         PROVE  Kept'
    <2>1. /\ turn[c] \in {"create", "open"} /\ turn' = [turn EXCEPT ![c] = "none"]
          /\ of' = [of EXCEPT ![c] = 0] /\ at[c] = "off" /\ at' = [at EXCEPT ![c] = "freeown"]
          /\ left' = [left EXCEPT ![c] = {c}] /\ UNCHANGED <<main, cached, born, ended, opening>>
          /\ UNCHANGED <<row, records>> \/ (turn[c] = "open" /\ EndSession(c, of[c]))
      BY <1>14, FailsWithout DEF CreateFails, ResumeFails, NoSession, GiveUpSlot
    <2> SUFFICES ASSUME NEW d \in Room PROVE KeptIn(d)'
      BY DEF Kept
    <2>2. KeptIn(d) /\ Waking(d)' = Waking(d) /\ Closing(d)' = Closing(d) /\ born[d] \in Nat
      BY <1>0, <2>1 DEF Kept, Waking, Closing, DialogTypes, SweepTypes, Session
    <2>3. Opened(d)' = IF d = c THEN 0 ELSE Opened(d)
      BY <2>1 DEF Opened, FlowTypes, DialogTypes
    <2>4. CASE row'[d] = row[d] /\ records'[d] = records[d]
      BY <2>1, <2>2, <2>3, <2>4, KeptThere
    <2>5. CASE d = c /\ turn[c] = "open" /\ EndSession(c, of[c])
      <3>1. Opened(c) = of[c]
        BY <2>5 DEF Opened
      <3>2. QED
        BY <2>1, <2>2, <2>3, <2>5, <3>1, KeptOnClose
    <2>6. QED
      BY <2>1, <2>4, <2>5 DEF EndSession, DialogTypes
  <1>15. ASSUME NEW c \in Room, FinishTurn(c)
         PROVE  Kept'
    <2>1. /\ turn[c] \in {"run", "review"} /\ turn' = [turn EXCEPT ![c] = "none"]
          /\ of' = [of EXCEPT ![c] = 0] /\ at[c] = "off" /\ at' = [at EXCEPT ![c] = "free"]
          /\ left' = [left EXCEPT ![c] = Room]
          /\ UNCHANGED <<main, records, born, ended, opening>>
          /\ of[c] = main[c] /\ main[c] # 0
      BY <1>15 DEF FinishTurn, GiveUpSlot, Dialogs
    <2> SUFFICES ASSUME NEW d \in Room PROVE KeptIn(d)'
      BY DEF Kept
    <2>2. /\ KeptIn(d) /\ Opened(d)' = Opened(d) /\ Waking(d)' = Waking(d)
          /\ Closing(d)' = Closing(d) /\ born[d] \in Nat
      BY <1>0, <2>1 DEF Kept, Opened, Waking, Closing, FlowTypes, DialogTypes, SweepTypes, Session
    <2>3. CASE row'[d] = row[d] /\ cached'[d] = cached[d]
      BY <2>1, <2>2, <2>3, KeptThere
    <2>4. CASE d = c /\ row'[c] = main[c] /\ cached'[c] = main[c]
      <3>1. main[c] # Unread
        BY <2>1 DEF DialogTypes, Session, Unread
      <3>2. QED
        BY <2>1, <2>2, <2>4, <3>1 DEF KeptIn
    <2>5. QED
      BY <1>15, <2>1, <2>3, <2>4 DEF FinishTurn, MarkCurrent, SetCurrent, markers, DialogTypes
  <1>16. ASSUME WakeInbox
         PROVE  Kept'
    <2>1. UNCHANGED <<turn, of, main, cached, row, ended>> /\ at[Home] = "off"
      BY <1>16 DEF WakeInbox, slots, talks, dialogs, markers
    <2>2. CASE UNCHANGED talks /\ (at' = at \/ at' = [at EXCEPT ![Home] = "tick"])
               /\ (left' = left \/ left' = [left EXCEPT ![Home] = {Home}])
      BY <1>0, <2>1, <2>2, KeptAll DEF talks, dialogs, markers, SweepTypes
    <2>3. ASSUME NEW s \in Session, Opens(Home, s), opening' = s, left' = left,
                 at' = [at EXCEPT ![Home] = "install"]
          PROVE  Kept'
      <3> SUFFICES ASSUME NEW d \in Room PROVE KeptIn(d)'
        BY DEF Kept
      <3>1. /\ KeptIn(d) /\ Opened(d)' = Opened(d) /\ Closing(d)' = Closing(d) /\ born[d] \in Nat
        BY <1>0, <2>1, <2>3 DEF Kept, Opened, Closing, DialogTypes, SweepTypes, Session
      <3>2. CASE d = Home
        <4>1. Waking(d) = 0 /\ Waking(d)' = s
          BY <1>0, <2>1, <2>3, <3>2 DEF Waking, SweepTypes
        <4>2. QED
          BY <2>1, <2>3, <3>1, <3>2, <4>1, KeptOnOpen
      <3>3. CASE d # Home
        <4>1. Waking(d)' = Waking(d) /\ records'[d] = records[d] /\ born'[d] = born[d]
          BY <2>3, <3>3 DEF Opens, Waking, DialogTypes
        <4>2. QED
          BY <2>1, <3>1, <4>1, KeptThere
      <3>4. QED
        BY <3>2, <3>3
    <2>4. QED
      BY <1>16, <2>2, <2>3 DEF WakeInbox, sweeps
  <1>17. ASSUME InstallForInbox
         PROVE  Kept'
    <2>1. /\ UNCHANGED <<turn, of, born, ended>> /\ at[Home] = "install" /\ opening' = 0
          /\ \E w \in {"tick", "off"} : at' = [at EXCEPT ![Home] = w]
          /\ left' = left \/ left' = [left EXCEPT ![Home] = {Home}]
          /\ \/ Installs(Home, opening)
             \/ EndSession(Home, opening) /\ UNCHANGED <<main, cached>>
      BY <1>17 DEF InstallForInbox, slots
    <2> SUFFICES ASSUME NEW d \in Room PROVE KeptIn(d)'
      BY DEF Kept
    <2>2. /\ KeptIn(d) /\ Opened(d)' = Opened(d) /\ Closing(d)' = Closing(d) /\ born[d] \in Nat
          /\ Waking(d)' = 0 /\ Waking(Home) = opening
      BY <1>0, <2>1 DEF Kept, Opened, Closing, Waking, DialogTypes, SweepTypes, Session
    <2>3. CASE d # Home
      <3>1. /\ main'[d] = main[d] /\ cached'[d] = cached[d] /\ row'[d] = row[d]
            /\ records'[d] = records[d]
        BY <2>1, <2>3 DEF Installs, EndSession, SetCurrent, DialogTypes
      <3>2. QED
        BY <2>1, <2>2, <3>1, KeptThere
    <2>4. CASE d = Home /\ EndSession(Home, opening) /\ UNCHANGED <<main, cached>>
      BY <2>1, <2>2, <2>4, KeptOnClose
    <2>5. CASE d = Home /\ main[Home] = 0 /\ Installs(Home, opening)
      <3>1. /\ main'[d] = opening /\ cached'[d] = opening /\ row'[d] = opening
            /\ records' = records
        BY <2>5 DEF Installs, SetCurrent, DialogTypes
      <3>2. CASE opening \in Session
        BY <2>1, <2>2, <2>5, <3>1, <3>2, KeptOnInstall
      <3>3. CASE opening = 0
        BY <2>1, <2>2, <2>5, <3>1, <3>3 DEF KeptIn, Apart, Unread
      <3>4. QED
        BY <3>2, <3>3 DEF DialogTypes
    <2>6. QED
      BY <2>1, <2>3, <2>4, <2>5 DEF Installs
  <1>18. ASSUME CloseOld
         PROVE  Kept'
    <2>1. /\ UNCHANGED <<turn, of, main, cached, born, ended, opening>> /\ at[Loop] = "close"
          /\ at' = [at EXCEPT ![Loop] = "off"]
      BY <1>18 DEF CloseOld, slots
    <2>2. PICK c \in left[Loop] : EndSession(c, ended[c])
      BY <1>18 DEF CloseOld
    <2> SUFFICES ASSUME NEW d \in Room PROVE KeptIn(d)'
      BY DEF Kept
    <2>3. /\ KeptIn(d) /\ Opened(d)' = Opened(d) /\ Waking(d)' = Waking(d)
          /\ Closing(d)' = 0 /\ born[d] \in Nat
      BY <1>0, <2>1 DEF Kept, Opened, Closing, Waking, DialogTypes, SweepTypes, Session
    <2>4. CASE d = c
      <3>1. Closing(c) = ended[c]
        BY <2>1, <2>2 DEF Closing
      <3>2. QED
        BY <2>1, <2>2, <2>3, <2>4, <3>1, KeptOnClose
    <2>5. CASE d # c
      <3>1. row'[d] = row[d] /\ records'[d] = records[d]
        BY <2>2, <2>5 DEF EndSession, DialogTypes
      <3>2. QED
        BY <2>1, <2>3, <3>1, KeptThere
    <2>6. QED
      BY <2>4, <2>5
  <1>19. QED
    BY <1>1, <1>2, <1>3, <1>4, <1>5, <1>6, <1>7, <1>8, <1>9, <1>10, <1>11, <1>12, <1>13,
       <1>14, <1>15, <1>16, <1>17, <1>18 DEF Next, Goroutines, UpdateLoop, TurnGoesOn,
       Carries, Sweeps, Housekeeping, Worker

\* Hands.
LEMMA NextHands ==
  ASSUME FlowTypes, SweepTypes, Probes, Hands, [Next]_vars
  PROVE  Hands'
  <1>1. CASE UNCHANGED vars
    BY <1>1, RoomsAssumption DEF FlowTypes, Hands, Worker, vars, queues, carriers,
       slots, dialogs, markers, talks, inbox, bot, sweeps
  <1>2. ASSUME NEW c \in Room, Stop(c) \/ Superstop(c) \/ NewCommand(c) \/
     AskForCheck(c) \/ ArmRestart(c) \/ FreeTurn(c) \/ FinishRestartDrain(c)
       PROVE  Hands'
    BY SMTT(30), <1>2, RoomsAssumption DEF FlowTypes, Hands, Worker, Stop, Event,
       Superstop, NewCommand, Detach, Settled, AskForCheck, ArmRestart, FreeTurn, Goes,
       FinishRestartDrain, queues, carriers, slots, dialogs, markers, talks, inbox, bot,
       sweeps
  <1>3. ASSUME WakeInbox \/ Rested \/ InstallForInbox \/ Tick \/ CloseOld
       PROVE  Hands'
    BY <1>3, RoomsAssumption DEF FlowTypes, Hands, Worker, WakeInbox, Event, Rested,
       InstallForInbox, Tick, CloseOld, Goes, Free, queues, carriers, slots, dialogs,
       markers, talks, inbox, bot, sweeps
  <1>4. ASSUME NEW m \in Msg, AcceptText(m)
       PROVE  Hands'
    BY SMTT(30), <1>4, RoomsAssumption DEF FlowTypes, Hands, Worker, AcceptText, Heard,
       Settled, Accepted, Free, Unlocked, carriers, slots, dialogs, markers, talks, bot,
       sweeps
  <1>5. ASSUME NEW m \in Msg, AcceptMedia(m)
       PROVE  Hands'
    <2>1. UNCHANGED <<burst, batch, turn>> /\ Loop \in Worker
      BY <1>5 DEF AcceptMedia, queues, slots, Worker
    <2>2. CASE UNCHANGED carriers
      BY <2>1, <2>2 DEF Hands, carriers
    <2>3. CASE Carry(Loop, {m})
      BY <2>1, <2>3 DEF Hands, FlowTypes, Carry
    <2>4. QED
      BY <1>5, <2>2, <2>3 DEF AcceptMedia
  <1>6. ASSUME NEW m \in Msg, Ask(m)
       PROVE  Hands'
    BY <1>6, RoomsAssumption DEF FlowTypes, Hands, Worker, Ask, Accepted, Carry, Free,
       queues, slots, dialogs, markers, talks, inbox, bot, sweeps
  <1>7. ASSUME NEW c \in Room, RoundBoundary(c)
       PROVE  Hands'
    BY <1>7, RoomsAssumption DEF FlowTypes, Hands, Worker, RoundBoundary, carriers,
       dialogs, markers, talks, inbox, bot, sweeps
  <1>8. ASSUME NEW c \in Room, CreateFails(c) \/ ResumeFails(c)
       PROVE  Hands'
    <2>1. /\ turn' = [turn EXCEPT ![c] = "none"] /\ batch' = [batch EXCEPT ![c] = {}]
          /\ UNCHANGED <<burst, cpc, carried>>
      BY <1>8, FailsWithout DEF NoSession, GiveUpSlot, queues, carriers
    <2>2. QED
      BY <2>1 DEF Hands, FlowTypes
  <1>9. ASSUME NEW c \in Room, Create(c)
       PROVE  Hands'
    BY <1>9, RoomsAssumption DEF FlowTypes, Hands, Worker, Create, Begin, carriers,
       inbox, bot, sweeps
  <1>10. ASSUME NEW c \in Room, Install(c)
       PROVE  Hands'
    BY <1>10, RoomsAssumption DEF FlowTypes, Hands, Worker, Install, Begin, carriers,
       inbox, bot, sweeps
  <1>11. ASSUME NEW c \in Room, QueueBurstForRestart(c)
       PROVE  Hands'
    BY <1>11, RoomsAssumption DEF FlowTypes, Hands, Worker, QueueBurstForRestart,
       carriers, slots, dialogs, markers, talks, inbox, sweeps
  <1>12. ASSUME NEW c \in Room, FinishTurn(c)
       PROVE  Hands'
    BY <1>12, RoomsAssumption DEF FlowTypes, Hands, Worker, FinishTurn, Settled, Event,
       GiveUpSlot, queues, carriers, bot
  <1>13. ASSUME PrepareBatch
       PROVE  Hands'
    BY <1>13, RoomsAssumption DEF FlowTypes, Hands, Worker, PrepareBatch, queues,
       carriers, dialogs, markers, talks, inbox, bot, sweeps
  <1>14. ASSUME PrepareNothing
       PROVE  Hands'
    BY <1>14, RoomsAssumption DEF FlowTypes, Hands, Worker, PrepareNothing, Event,
       GiveUpSlot, queues, carriers, dialogs, markers, talks, bot
  <1>15. ASSUME NEW c \in Room, FlushBurst(c)
       PROVE  Hands'
    BY <1>15, RoomsAssumption DEF FlowTypes, Hands, Worker, FlushBurst, Carry, slots,
       dialogs, markers, talks, inbox, bot, sweeps
  <1>16. ASSUME NEW k \in Worker, Check(k)
       PROVE  Hands'
    <2>1. UNCHANGED <<burst, batch, turn>> /\ cpc[k] = "check"
      BY <1>16 DEF Check, queues, slots
    <2>2. CASE PutDown(k)
      BY <2>1, <2>2 DEF Hands, FlowTypes, PutDown
    <2>3. CASE cpc' = [cpc EXCEPT ![k] = "dispatch"] /\ UNCHANGED carried
      BY <2>1, <2>3 DEF Hands, FlowTypes
    <2>4. QED
      BY <1>16, <2>2, <2>3 DEF Check
  <1>17. ASSUME NEW k \in Worker, NEW c \in Room, Dispatch(k, c)
       PROVE  Hands'
    <2>1. /\ UNCHANGED <<fate, burst>> /\ PutDown(k)
          /\ cpc[k] = "dispatch" /\ \E m \in carried[k] : To[m] = c
          /\ Interject(k, c) \/ QueueUp(k, c) \/ StartTurn(k, c)
      BY <1>17 DEF Dispatch, talks, dialogs, markers, inbox, bot, sweeps
    <2>2. CASE Interject(k, c)
      BY <2>1, <2>2 DEF Hands, FlowTypes, Interject, PutDown, slots
    <2>3. CASE QueueUp(k, c)
      BY <2>1, <2>3 DEF Hands, FlowTypes, QueueUp, PutDown, slots
    <2>4. CASE StartTurn(k, c)
      BY <2>1, <2>4 DEF Hands, FlowTypes, StartTurn, Claim, CanClaim, PutDown
    <2>5. QED
      BY <2>1, <2>2, <2>3, <2>4
  <1>18. ASSUME NEW s \in Worker, Probe(s)
       PROVE  Hands'
    <2> DEFINE c == probing[s]
    <2>1. c \in Room /\ turn[c] = "probe" /\ UNCHANGED <<main, cached, batch, burst, cpc, carried>>
      BY <1>18 DEF Probe, Probes, SweepTypes, dialogs, markers, queues, carriers
    <2> HIDE DEF c
    <2>2. CASE turn' = [turn EXCEPT ![c] = "run"] /\ of' = of
      BY <2>1, <2>2 DEF Hands, FlowTypes
    <2>3. CASE turn' = [turn EXCEPT ![c] = "none"] /\ of' = [of EXCEPT ![c] = 0]
      BY <2>1, <2>3 DEF Hands, FlowTypes
    <2>4. QED
      BY <1>18, <2>2, <2>3 DEF Probe, c
  <1>19. ASSUME NEW s \in Worker, NEW c \in Room, Sweep(s, c)
       PROVE  Hands'
    <2>1. /\ UNCHANGED <<burst, cpc, carried>> /\ at[s] \in {"sweep", "tick"} /\ probing[s] = NoOne
      BY <1>19 DEF Sweep, carriers, talks, dialogs, markers, inbox, bot
    <2>2. CASE DrainNextMessages(c) /\ Past(s, c) /\ UNCHANGED probing
      BY <2>1, <2>2 DEF Hands, FlowTypes, DrainNextMessages, Claim, CanClaim
    <2>3. CASE StartSteerCatchup(c) /\ Past(s, c) /\ UNCHANGED probing
      BY <2>1, <2>3 DEF Hands, FlowTypes, StartSteerCatchup, Claim, CanClaim
    <2>4. CASE StartInboxTurn(c) /\ Past(s, c) /\ UNCHANGED probing
      BY <2>1, <2>4 DEF Hands, FlowTypes, StartInboxTurn, Reviews, Background, Claim,
         CanClaim
    <2>5. CASE NothingToStart(c) /\ Past(s, c) /\ UNCHANGED probing
      BY <2>1, <2>5 DEF Hands, FlowTypes, NothingToStart, slots
    <2>6. CASE StartJobPoll(c) /\ probing' = [probing EXCEPT ![s] = c] /\ UNCHANGED <<at, left, lost>>
      BY <2>1, <2>6 DEF Hands, FlowTypes, StartJobPoll, Background, Claim, CanClaim
    <2>7. QED
      BY <1>19, <2>2, <2>3, <2>4, <2>5, <2>6 DEF Sweep
  <1>20. QED
    BY <1>1, <1>2, <1>3, <1>4, <1>5, <1>6, <1>7, <1>8, <1>9, <1>10, <1>11,
       <1>12, <1>13, <1>14, <1>15, <1>16, <1>17, <1>18, <1>19 DEF Next,
       Goroutines, UpdateLoop, TurnGoesOn, Carries, Sweeps, Housekeeping,
       Worker

\* An accepted message is passed on.
LEMMA NextNothingLost ==
  ASSUME FlowTypes, Hands, NothingLost, [Next]_vars
  PROVE  NothingLost'
  <1>1. CASE UNCHANGED vars
    BY <1>1, RoomsAssumption DEF FlowTypes, Hands, NothingLost, Worker, vars, queues,
       carriers, slots, dialogs, markers, talks, inbox, bot, sweeps
  <1>2. ASSUME NEW c \in Room, Stop(c) \/ Superstop(c) \/ AskForCheck(c) \/
     ArmRestart(c) \/ FreeTurn(c) \/ FinishRestartDrain(c)
       PROVE  NothingLost'
    BY <1>2, RoomsAssumption DEF FlowTypes, Hands, NothingLost, Worker, Stop, Event,
       Superstop, AskForCheck, ArmRestart, FreeTurn, Goes, FinishRestartDrain, queues,
       carriers, slots, dialogs, markers, talks, inbox, bot, sweeps
  <1>3. ASSUME WakeInbox \/ Rested \/ PrepareBatch \/ InstallForInbox \/ Tick \/ CloseOld
       PROVE  NothingLost'
    BY <1>3, RoomsAssumption DEF FlowTypes, Hands, NothingLost, Worker, WakeInbox,
       Event, Rested, PrepareBatch, InstallForInbox, Tick, CloseOld, Goes, Free, queues,
       carriers, slots, dialogs, markers, talks, inbox, bot, sweeps
  <1>4. ASSUME NEW s \in Worker, Probe(s)
       PROVE  NothingLost'
    BY <1>4, RoomsAssumption DEF FlowTypes, Hands, NothingLost, Worker, Probe, Past,
       Goes, queues, carriers, slots, dialogs, markers, talks, inbox, bot, sweeps
  <1>5. ASSUME NEW m \in Msg, AcceptText(m)
       PROVE  NothingLost'
    BY <1>5, RoomsAssumption DEF FlowTypes, Hands, NothingLost, Worker, AcceptText,
       Heard, Settled, Accepted, Free, Unlocked, carriers, slots, dialogs, markers,
       talks, bot, sweeps
  <1>6. ASSUME NEW m \in Msg, AcceptMedia(m)
       PROVE  NothingLost'
    <2>1. UNCHANGED <<burst, pending, steer, batch>> /\ Loop \in Worker
      BY <1>6 DEF AcceptMedia, queues, slots, Worker
    <2>2. CASE Settled({m}) /\ UNCHANGED carriers
      BY <2>1, <2>2 DEF NothingLost, FlowTypes, Settled, carriers
    <2>3. CASE Accepted(m) /\ Carry(Loop, {m})
      <3>1. carried[Loop] = {}
        BY <1>6, <2>1 DEF AcceptMedia, Free, Hands
      <3>2. m \in carried'[Loop] /\ \A k \in Worker : carried[k] \subseteq carried'[k]
        BY <2>1, <2>3, <3>1 DEF Carry, FlowTypes
      <3>3. \A n \in Msg : fate'[n] = "held" => n = m \/ fate[n] = "held"
        BY <2>3 DEF Accepted, FlowTypes
      <3>4. QED
        BY <2>1, <3>2, <3>3 DEF NothingLost
    <2>4. QED
      BY <1>6, <2>2, <2>3 DEF AcceptMedia
  <1>7. ASSUME NEW m \in Msg, Ask(m)
       PROVE  NothingLost'
    BY <1>7, RoomsAssumption DEF FlowTypes, Hands, NothingLost, Worker, Ask, Accepted,
       Carry, Free, queues, slots, dialogs, markers, talks, inbox, bot, sweeps
  <1>8. ASSUME NEW c \in Room, NewCommand(c)
       PROVE  NothingLost'
    BY <1>8, RoomsAssumption DEF FlowTypes, Hands, NothingLost, Worker, NewCommand,
       Detach, Settled, Event, carriers, slots, inbox, bot, sweeps
  <1>9. ASSUME NEW c \in Room, RoundBoundary(c)
       PROVE  NothingLost'
    BY <1>9, RoomsAssumption DEF FlowTypes, Hands, NothingLost, Worker, RoundBoundary,
       carriers, dialogs, markers, talks, inbox, bot, sweeps
  <1>10. ASSUME NEW c \in Room, CreateFails(c) \/ ResumeFails(c)
       PROVE  NothingLost'
    BY <1>10, FailsWithout, RoomsAssumption DEF FlowTypes, Hands, NothingLost, Worker, NoSession,
       Settled, GiveUpSlot, queues, carriers, inbox, bot
  <1>11. ASSUME NEW c \in Room, Create(c)
       PROVE  NothingLost'
    BY SMTT(30), <1>11, RoomsAssumption DEF FlowTypes, Hands, NothingLost, Worker,
       Create, Begin, carriers, inbox, bot, sweeps
  <1>12. ASSUME NEW c \in Room, Install(c)
       PROVE  NothingLost'
    BY <1>12, RoomsAssumption DEF FlowTypes, Hands, NothingLost, Worker, Install, Begin,
       carriers, inbox, bot, sweeps
  <1>13. ASSUME NEW c \in Room, QueueBurstForRestart(c)
       PROVE  NothingLost'
    BY <1>13, RoomsAssumption DEF FlowTypes, Hands, NothingLost, Worker,
       QueueBurstForRestart, carriers, slots, dialogs, markers, talks, inbox, sweeps
  <1>14. ASSUME NEW c \in Room, FinishTurn(c)
       PROVE  NothingLost'
    BY <1>14, RoomsAssumption DEF FlowTypes, Hands, NothingLost, Worker, FinishTurn,
       Settled, Event, GiveUpSlot, queues, carriers, bot
  <1>15. ASSUME PrepareNothing
       PROVE  NothingLost'
    BY <1>15, RoomsAssumption DEF FlowTypes, Hands, NothingLost, Worker, PrepareNothing,
       Event, GiveUpSlot, queues, carriers, dialogs, markers, talks, bot
  <1>16. ASSUME NEW c \in Room, FlushBurst(c)
       PROVE  NothingLost'
    BY <1>16, RoomsAssumption DEF FlowTypes, Hands, NothingLost, Worker, FlushBurst,
       Carry, slots, dialogs, markers, talks, inbox, bot, sweeps
  <1>17. ASSUME NEW k \in Worker, Check(k)
       PROVE  NothingLost'
    <2>1. UNCHANGED <<burst, pending, steer, batch>>
      BY <1>17 DEF Check, queues, slots
    <2>2. CASE Settled(carried[k]) /\ PutDown(k)
      BY <2>1, <2>2 DEF NothingLost, FlowTypes, Settled, PutDown
    <2>3. CASE UNCHANGED <<fate, carried>>
      BY <2>1, <2>3 DEF NothingLost
    <2>4. QED
      BY <1>17, <2>2, <2>3 DEF Check
  <1>18. ASSUME NEW k \in Worker, NEW c \in Room, Dispatch(k, c)
       PROVE  NothingLost'
    <2>1. /\ UNCHANGED <<fate, burst>> /\ PutDown(k)
          /\ cpc[k] = "dispatch" /\ \E m \in carried[k] : To[m] = c
          /\ Interject(k, c) \/ QueueUp(k, c) \/ StartTurn(k, c)
      BY <1>18 DEF Dispatch, talks, dialogs, markers, inbox, bot, sweeps
    <2>2. CASE Interject(k, c)
      BY <2>1, <2>2, RoomsAssumption DEF NothingLost, Hands, FlowTypes, Interject,
         PutDown, slots
    <2>3. CASE QueueUp(k, c)
      BY <2>1, <2>3, RoomsAssumption DEF NothingLost, Hands, FlowTypes, QueueUp,
         PutDown, slots
    <2>4. CASE StartTurn(k, c)
      BY <2>1, <2>4, RoomsAssumption DEF NothingLost, Hands, FlowTypes, StartTurn,
         Claim, CanClaim, PutDown
    <2>5. QED
      BY <2>1, <2>2, <2>3, <2>4
  <1>19. ASSUME NEW s \in Worker, NEW c \in Room, Sweep(s, c)
       PROVE  NothingLost'
    <2>1. /\ UNCHANGED <<fate, burst, carried>> /\ at[s] \in {"sweep", "tick"} /\ probing[s] = NoOne
      BY <1>19 DEF Sweep, carriers, talks, dialogs, markers, inbox, bot
    <2>2. CASE DrainNextMessages(c) /\ Past(s, c) /\ UNCHANGED probing
      BY <2>1, <2>2, RoomsAssumption DEF NothingLost, Hands, FlowTypes,
         DrainNextMessages, Claim, CanClaim
    <2>3. CASE StartSteerCatchup(c) /\ Past(s, c) /\ UNCHANGED probing
      BY <2>1, <2>3, RoomsAssumption DEF NothingLost, Hands, FlowTypes,
         StartSteerCatchup, Claim, CanClaim
    <2>4. CASE StartInboxTurn(c) /\ Past(s, c) /\ UNCHANGED probing
      BY <2>1, <2>4, RoomsAssumption DEF NothingLost, Hands, FlowTypes, StartInboxTurn,
         Reviews, Background, Claim, CanClaim
    <2>5. CASE NothingToStart(c) /\ Past(s, c) /\ UNCHANGED probing
      BY <2>1, <2>5, RoomsAssumption DEF NothingLost, Hands, FlowTypes, NothingToStart,
         slots
    <2>6. CASE StartJobPoll(c) /\ probing' = [probing EXCEPT ![s] = c] /\ UNCHANGED <<at, left, lost>>
      BY <2>1, <2>6, RoomsAssumption DEF NothingLost, Hands, FlowTypes, StartJobPoll,
         Background, Claim, CanClaim
    <2>7. QED
      BY <1>19, <2>2, <2>3, <2>4, <2>5, <2>6 DEF Sweep
  <1>20. QED
    BY <1>1, <1>2, <1>3, <1>4, <1>5, <1>6, <1>7, <1>8, <1>9, <1>10, <1>11,
       <1>12, <1>13, <1>14, <1>15, <1>16, <1>17, <1>18, <1>19 DEF Next,
       Goroutines, UpdateLoop, TurnGoesOn, Carries, Sweeps, Housekeeping,
       Worker

\* The initial state.
LEMMA InitInductive == Init => RoomsInductive
  <1> SUFFICES ASSUME Init PROVE RoomsInductive
    OBVIOUS
  <1>1. /\ FlowTypes /\ SweepTypes /\ Probes /\ Hands /\ NothingLost
    BY RoomsAssumption DEF Init, FlowTypes, Turn, SweepTypes, Probes, Hands,
       NothingLost, Worker
  <1>2. DialogTypes /\ Dialogs
    <2>1. Inherited \in Session
      BY RoomsAssumption DEF Inherited, Session
    <2>2. PICK found \in Found : Inherits(found)
      BY DEF Init
    <2>3. /\ row \in [Room -> {0} \cup Session]
          /\ records \in [Room -> SUBSET Session] /\ stored \in [Room -> SUBSET Session]
      BY <2>1, <2>2 DEF Inherits
    <2>4. QED
      BY <2>1, <2>3 DEF Init, DialogTypes, Dialogs
  <1>3. Kept
    <2>1. PICK found \in Found : Inherits(found)
      BY DEF Init
    <2>2. \A c \in Room : row[c] \in {0, Inherited} /\ 0 \notin records[c]
      BY <2>1 DEF Inherits, Inherited
    <2>3. QED
      BY <2>2 DEF Init, Kept, KeptIn, Apart, Opened, Waking, Closing, Inherited, Unread
  <1>4. FlagTypes
    <2>1. due = [c \in Room |-> FALSE] /\ paused = due /\ mail = FALSE /\ resting = FALSE
      BY DEF Init
    <2>2. due \in [Room -> BOOLEAN] /\ paused \in [Room -> BOOLEAN]
      BY <2>1, Zenon
    <2>3. mail \in BOOLEAN /\ resting \in BOOLEAN
      BY <2>1, Zenon
    <2>4. QED
      BY <2>2, <2>3, RoomsAssumption DEF Init, FlagTypes
  <1>5. Slots
    <2>1. Held(turn) = {} /\ Owing(at) = {} /\ active = 0
      BY DEF Init, Held, Owing
    <2>2. Cardinality(Held(turn)) = 0 /\ Cardinality(Owing(at)) = 0
      BY <2>1, FS_EmptySet
    <2>3. QED
      BY <2>1, <2>2, RoomsAssumption DEF Slots
  <1>6. QED
    BY <1>1, <1>2, <1>3, <1>4, <1>5 DEF RoomsInductive

\* is kept by every step,
LEMMA NextInductive == RoomsInductive /\ [Next]_vars => RoomsInductive'
  BY NextFlowTypes, NextDialogTypes, NextFlagTypes, NextSweepTypes, NextProbes,
     NextSlots, NextDialogs, NextKept, NextHands, NextNothingLost DEF RoomsInductive

\* and so holds always.
LEMMA Inductive == Spec => []RoomsInductive
  BY InitInductive, NextInductive, PTL DEF Spec

-----------------------------------------------------------------------------
(* The theorems.                                                           *)

\* Types.
THEOREM TypesOK == Spec => []TypeOK
  <1>1. RoomsInductive => TypeOK
    BY DEF RoomsInductive, FlowTypes, DialogTypes, FlagTypes, SweepTypes, Slots, Turn,
       TypeOK
  <1>2. QED
    BY <1>1, Inductive, PTL

\* The cap counts the slots, and none leaks.
THEOREM CapCountsSlots == Spec => []SlotsCounted
  <1>1. RoomsInductive => SlotsCounted
    BY DEF RoomsInductive, Slots, Held, Owing, SlotsCounted
  <1>2. QED
    BY <1>1, Inductive, PTL

\* Never more turns than the cap.
THEOREM NoMoreThanTheCap == Spec => [](Cardinality({c \in Room : turn[c] # "none"}) <= MaxTurns)
  <1>1. RoomsInductive => Cardinality({c \in Room : turn[c] # "none"}) <= MaxTurns
    <2>1. RoomsInductive => Cardinality(Held(turn)) <= MaxTurns
      BY Counts, RoomsAssumption DEF RoomsInductive, Slots
    <2>2. QED
      BY <2>1 DEF Held
  <1>2. QED
    BY <1>1, Inductive, PTL

\* A turn talks to its room's conversation from start to end, and nobody's
\* failure or close takes the record or the row of one that this process has
\* made the room's: a session made later, here or after a restart, resumes it.
THEOREM OneConversation == Spec => []SameConversation
  <1>1. RoomsInductive => TurnsTalkToMain
    BY DEF RoomsInductive, Dialogs, TurnsTalkToMain
  <1>2. RoomsInductive => MarkedAndKept
    BY DEF RoomsInductive, Kept, KeptIn, MarkedAndKept
  <1>3. RoomsInductive => SameConversation
    BY <1>1, <1>2 DEF SameConversation
  <1>4. QED
    BY <1>3, Inductive, PTL

\* No accepted message is ever dropped.
THEOREM MessagesKept == Spec => []NothingLost
  <1>1. RoomsInductive => NothingLost
    BY DEF RoomsInductive
  <1>2. QED
    BY <1>1, Inductive, PTL
=============================================================================
