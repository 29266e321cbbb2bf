------------------------------ MODULE HostConfig ------------------------------
(***************************************************************************)
(* The configuration of a running Telegram host: the file on disk, the     *)
(* generation the runtime publishes to its sessions, and a reload that     *)
(* replaces it while sessions open, run turns and close.                   *)
(*                                                                         *)
(* A reload is one goroutine under the controller's mutex.  It reads the   *)
(* file once, takes the registered sessions, builds a configuration for    *)
(* each with no lock held, and publishes them all in one critical section, *)
(* or starts over when the registry has changed.  The model may ask for a  *)
(* reload from inside a turn (the shell3 tool), a person from outside one  *)
(* (/reload).  Every other action is one critical section of Runtime.mu or *)
(* Session.mu.                                                             *)
(*                                                                         *)
(* A text of the file stands for all that is parsed from it.  A session    *)
(* is created once and never comes back under its name; an error of the    *)
(* conversation store while one is created changes nothing here.           *)
(***************************************************************************)
EXTENDS Integers, FiniteSets

CONSTANTS
  Session,   \* the sessions the runtime may create
  Text,      \* what shell3.lisp may hold
  Valid,     \* texts that load, with a telegram and an orchestrator form
  Keyed,     \* valid texts whose model key resolves
  Fixed,     \* Fixed[g]: token-env, home chat and schedules of a valid text
  Boot,      \* the text the host started with
  Person,    \* who types /reload
  None       \* no text, no session

ASSUME ConfigAssumption ==
  /\ Valid \subseteq Text /\ Keyed \subseteq Valid /\ Boot \in Keyed
  /\ None \notin Text \cup Session /\ Person \notin Session \cup {None}

VARIABLES
  disk,       \* the text of the file
  current,    \* telegramHostController.current
  settings,   \* the text whose turn cap, group mode and allowlist the bot has
  at,         \* the reload: "idle", "snapshot", "publish" or "apply"
  caller,     \* who asked for it, None for nobody
  fresh,      \* the text it has read and checked
  live,       \* the sessions it has built configurations for
  factory,    \* the text Runtime.sessionConfig builds from
  closed,     \* Runtime.closed
  sessions,   \* Runtime.sessions
  phase,      \* phase[s]: "none", "open", "closed" (Session.closed) or "gone"
  handed,     \* handed[s]: the decorator has run, the caller has the session
  cfg,        \* cfg[s]: Session.cfg
  tools,      \* tools[s]: cfg carries the host tools
  pendingCfg, \* pendingCfg[s]
  turn,       \* turn[s]: "none", "running", or "returned" with busy still set
  tc,         \* tc[s]: the configuration its turn captured
  tcTools     \* tcTools[s]: with the host tools

control == <<current, settings, at, caller, fresh, live>>
session == <<phase, handed, cfg, tools, pendingCfg, turn, tc, tcTools>>
vars == <<disk, control, factory, closed, sessions, session>>

Init ==
  /\ disk = Boot /\ current = Boot /\ settings = Boot /\ factory = Boot
  /\ at = "idle" /\ caller = None /\ fresh = None /\ live = {}
  /\ closed = FALSE /\ sessions = {}
  /\ phase = [s \in Session |-> "none"]
  /\ handed = [s \in Session |-> FALSE]
  /\ cfg = [s \in Session |-> None]
  /\ tools = [s \in Session |-> FALSE]
  /\ pendingCfg = [s \in Session |-> None]
  /\ turn = [s \in Session |-> "none"]
  /\ tc = [s \in Session |-> None]
  /\ tcTools = [s \in Session |-> FALSE]

-----------------------------------------------------------------------------
(* Sessions *)

Busy(s) == turn[s] # "none"

(* A session takes the published generation and enters the registry.  The *)
(* decorator runs after the runtime's mutex is released.                  *)
Create(s) ==
  /\ ~closed /\ phase[s] = "none"
  /\ phase' = [phase EXCEPT ![s] = "open"]
  /\ cfg' = [cfg EXCEPT ![s] = factory]
  /\ sessions' = sessions \cup {s}
  /\ UNCHANGED <<disk, control, factory, closed, handed, tools, pendingCfg,
                 turn, tc, tcTools>>

(* RegisterHostTool refuses a busy session, and the front end goes on      *)
(* without the tool.                                                       *)
RegisterHostTool(s) == tools' = [tools EXCEPT ![s] = @ \/ ~Busy(s)]

(* The front end registers its tools and the creator returns with the      *)
(* session.                                                                *)
Decorate(s) ==
  /\ phase[s] # "none" /\ ~handed[s]
  /\ RegisterHostTool(s)
  /\ handed' = [handed EXCEPT ![s] = TRUE]
  /\ UNCHANGED <<disk, control, factory, closed, sessions, phase, cfg,
                 pendingCfg, turn, tc, tcTools>>

(* Send marks the session busy and captures its configuration in one       *)
(* critical section.                                                       *)
Send(s) ==
  /\ handed[s] /\ phase[s] = "open" /\ ~Busy(s)
  /\ turn' = [turn EXCEPT ![s] = "running"]
  /\ tc' = [tc EXCEPT ![s] = cfg[s]]
  /\ tcTools' = [tcTools EXCEPT ![s] = tools[s]]
  /\ UNCHANGED <<disk, control, factory, closed, sessions, phase, handed, cfg,
                 tools, pendingCfg>>

(* The turn goroutine returns and closes done: a turn that has called for  *)
(* a reload is inside it until the reload answers.                         *)
TurnReturns(s) ==
  /\ turn[s] = "running" /\ caller # s
  /\ turn' = [turn EXCEPT ![s] = "returned"]
  /\ UNCHANGED <<disk, control, factory, closed, sessions, phase, handed, cfg,
                 tools, pendingCfg, tc, tcTools>>

(* A bug: a reload installs the configuration as it was built.            *)
CarriedNone(s, g) == FALSE

(* reloadConfigLocked: the host tools are carried across.                  *)
Carried(s, g) == tools[s]

(* Its deferred section clears busy and adopts the queued generation.      *)
TurnEnds(s) ==
  LET adopts == pendingCfg[s] # None /\ phase[s] = "open"
  IN /\ turn[s] = "returned"
     /\ turn' = [turn EXCEPT ![s] = "none"]
     /\ tc' = [tc EXCEPT ![s] = None]
     /\ tcTools' = [tcTools EXCEPT ![s] = FALSE]
     /\ IF adopts
        THEN /\ cfg' = [cfg EXCEPT ![s] = pendingCfg[s]]
             /\ tools' = [tools EXCEPT ![s] = Carried(s, pendingCfg[s])]
             /\ pendingCfg' = [pendingCfg EXCEPT ![s] = None]
        ELSE UNCHANGED <<cfg, tools, pendingCfg>>
     /\ UNCHANGED <<disk, control, factory, closed, sessions, phase, handed>>

(* doClose refuses further turns, cancels and joins the one that runs,     *)
(* then leaves the registry.                                               *)
BeginClose(s) ==
  /\ phase[s] = "open" /\ (handed[s] \/ closed)
  /\ phase' = [phase EXCEPT ![s] = "closed"]
  /\ UNCHANGED <<disk, control, factory, closed, sessions, handed, cfg, tools,
                 pendingCfg, turn, tc, tcTools>>

Forget(s) ==
  /\ phase[s] = "closed" /\ turn[s] # "running"
  /\ phase' = [phase EXCEPT ![s] = "gone"]
  /\ sessions' = sessions \ {s}
  /\ UNCHANGED <<disk, control, factory, closed, handed, cfg, tools,
                 pendingCfg, turn, tc, tcTools>>

(* Runtime.Close empties the registry before it closes the sessions.       *)
CloseRuntime ==
  /\ ~closed
  /\ closed' = TRUE /\ sessions' = {}
  /\ UNCHANGED <<disk, control, factory, session>>

-----------------------------------------------------------------------------
(* Control *)

Edit(t) ==
  /\ t # disk
  /\ disk' = t
  /\ UNCHANGED <<control, factory, closed, sessions, session>>

(* telegramChange, of two texts that load *)
Change(old, new) == CASE new = old               -> "none"
                      [] Fixed[new] # Fixed[old] -> "restart_required"
                      [] OTHER                   -> "reloadable"

(* The file parses, has the forms of a host, and its schedules resolve.   *)
Loads(t) == t \in Valid

(* sessionFactory resolves the key of the main model.                      *)
MakesFactory(t) == t \in Keyed

Accepted(t) == Loads(t) /\ Change(current, t) # "restart_required" /\ MakesFactory(t)

(* A bug: the bot's settings change before the runtime takes the           *)
(* generation.                                                             *)
BeginReloadApplies(who) ==
  /\ at = "idle"
  /\ who \in Session => turn[who] = "running"
  /\ Accepted(disk)
  /\ at' = "snapshot" /\ fresh' = disk /\ caller' = who /\ settings' = disk
  /\ UNCHANGED <<disk, current, live, factory, closed, sessions, session>>

(* The only read of the file: a text that does not load, needs a restart   *)
(* or has no key is refused with an answer, and nothing else happens.      *)
BeginReload(who) ==
  /\ at = "idle"
  /\ who \in Session => turn[who] = "running"
  /\ Accepted(disk)
  /\ at' = "snapshot" /\ fresh' = disk /\ caller' = who
  /\ UNCHANGED <<disk, current, settings, live, factory, closed, sessions,
                 session>>

Answer ==
  /\ at' = "idle" /\ caller' = None /\ fresh' = None /\ live' = {}

(* A bug: the sessions are built from a second read of the file.           *)
SnapshotRereads ==
  /\ at = "snapshot"
  /\ IF closed
     THEN Answer
     ELSE /\ at' = "publish" /\ live' = sessions /\ UNCHANGED caller
          /\ fresh' = IF disk \in Keyed THEN disk ELSE fresh
  /\ UNCHANGED <<disk, current, settings, factory, closed, sessions, session>>

(* ReloadConfig takes the registered sessions and, with no lock held,      *)
(* builds a configuration for each.                                        *)
Snapshot ==
  /\ at = "snapshot"
  /\ IF closed
     THEN Answer
     ELSE at' = "publish" /\ live' = sessions /\ UNCHANGED <<caller, fresh>>
  /\ UNCHANGED <<disk, current, settings, factory, closed, sessions, session>>

PublishTo(targets) ==
  /\ at' = "apply" /\ factory' = fresh
  /\ pendingCfg' = [s \in Session |->
                      IF s \in targets /\ Busy(s) THEN fresh ELSE pendingCfg[s]]
  /\ cfg' = [s \in Session |->
               IF s \in targets /\ ~Busy(s) THEN fresh ELSE cfg[s]]
  /\ tools' = [s \in Session |->
                 IF s \in targets /\ ~Busy(s) THEN Carried(s, fresh) ELSE tools[s]]
  /\ UNCHANGED <<caller, fresh, live, phase, handed, turn, tc, tcTools>>

(* A bug: the registry is not looked at again.                             *)
PublishUnchecked ==
  /\ at = "publish"
  /\ IF \E s \in live : phase[s] # "open"
     THEN Answer /\ UNCHANGED <<factory, session>>
     ELSE PublishTo(live)
  /\ UNCHANGED <<disk, current, settings, closed, sessions>>

(* A bug: a reload waits until no session is in a turn.                    *)
PublishWaits ==
  /\ at = "publish"
  /\ \A s \in live : ~Busy(s)
  /\ PublishTo(live)
  /\ UNCHANGED <<disk, current, settings, closed, sessions>>

(* With the registry as it was and every session of it locked and open,    *)
(* idle sessions take the generation, busy ones queue it, later ones are   *)
(* built from it.                                                          *)
Publish ==
  /\ at = "publish"
  /\ IF sessions # live
     THEN at' = "snapshot" /\ UNCHANGED <<caller, fresh, live, factory, session>>
     ELSE IF \E s \in live : phase[s] # "open"
     THEN Answer /\ UNCHANGED <<factory, session>>
     ELSE PublishTo(live)
  /\ UNCHANGED <<disk, current, settings, closed, sessions>>

(* The bot's setters; the allowlist of a configuration that loaded cannot  *)
(* be refused.                                                             *)
ApplyTelegramSettings == settings' = fresh

(* Then the controller records what is active.                             *)
Apply ==
  /\ at = "apply"
  /\ ApplyTelegramSettings /\ current' = fresh
  /\ Answer
  /\ UNCHANGED <<disk, factory, closed, sessions, session>>

-----------------------------------------------------------------------------

Reload == Snapshot \/ Publish \/ Apply

SessionStep(s) ==
  \/ Create(s) \/ Decorate(s) \/ Send(s) \/ TurnReturns(s) \/ TurnEnds(s)
  \/ BeginClose(s) \/ Forget(s)

Next ==
  \/ Reload \/ CloseRuntime
  \/ \E who \in Session \cup {Person} : BeginReload(who)
  \/ \E t \in Text : Edit(t)
  \/ \E s \in Session : SessionStep(s)

(* The goroutine of a reload runs on, and so does what follows a turn.     *)
(* Nothing makes a turn return, a person reload or a session close.        *)
Spec == Init /\ [][Next]_vars /\ WF_vars(Reload)
-----------------------------------------------------------------------------

TypeOK ==
  /\ disk \in Text /\ current \in Valid /\ settings \in Valid /\ factory \in Valid
  /\ at \in {"idle", "snapshot", "publish", "apply"}
  /\ caller \in Session \cup {Person, None} /\ (caller = None <=> at = "idle")
  /\ fresh \in Valid \cup {None} /\ (fresh = None <=> at = "idle")
  /\ live \subseteq Session /\ sessions \subseteq Session /\ closed \in BOOLEAN
  /\ phase \in [Session -> {"none", "open", "closed", "gone"}]
  /\ handed \in [Session -> BOOLEAN]
  /\ cfg \in [Session -> Valid \cup {None}]
  /\ tools \in [Session -> BOOLEAN]
  /\ pendingCfg \in [Session -> Valid \cup {None}]
  /\ turn \in [Session -> {"none", "running", "returned"}]
  /\ tc \in [Session -> Valid \cup {None}]
  /\ tcTools \in [Session -> BOOLEAN]

(* The generation the next turn of a session will capture *)
Upcoming(s) == IF pendingCfg[s] # None THEN pendingCfg[s] ELSE cfg[s]

(* A reload reaches every session: whatever opened, ran or closed while it *)
(* built its configurations, the next turn of a registered session that is *)
(* not closing runs the generation the runtime has published               *)
(* (Runtime.ReloadConfig, Session.queueReloadLocked).                      *)
NextTurnPublished ==
  \A s \in sessions : phase[s] = "open" => Upcoming(s) = factory

(* A turn keeps the tools of its front end: no reload, at any moment       *)
(* between the creation of a session and the end of a turn, takes them     *)
(* from it (Session.reloadConfigLocked, RegisterHostTool).                 *)
ToolsKept ==
  \A s \in Session : turn[s] = "running" => tcTools[s]

(* Only what was checked is ever run: the file may change at any time, but *)
(* no turn, session or factory gets a generation that does not load, has   *)
(* no key, or changes what only a restart may change                       *)
(* (orchestrator.ReloadChecked, validateTelegramReload).                   *)
OnlyChecked ==
  LET Used == {factory, current} \cup {x \in {tc[s] : s \in Session}
                  \cup {Upcoming(s) : s \in Session} : x # None}
  IN \A g \in Used : g \in Keyed /\ Fixed[g] = Fixed[Boot]

(* Between reloads the host is of one generation: the bot's settings, the  *)
(* controller's record, by which the next reload is judged, and the        *)
(* runtime's factory agree, also after a reload that failed                *)
(* (telegramHostController.reload, applyTelegramSettings).                 *)
OneGeneration ==
  at = "idle" => current = factory /\ settings = factory

(* A reload answers, although the turn that asked for it is itself busy    *)
(* until it does and sessions come and go (Runtime.ReloadConfig).          *)
ReloadAnswers == at # "idle" ~> at = "idle"
=============================================================================
