--------------------------- MODULE HostConfigProofs ---------------------------
(***************************************************************************)
(* The safety properties of HostConfig, for any sessions and texts.  What  *)
(* the properties say of a state between two reloads or at the start of a  *)
(* turn, the inductive invariant says of all states: which texts may be in *)
(* the hands of anybody, what a reload under way has changed so far, and   *)
(* what a session keeps while its turn runs.                               *)
(***************************************************************************)
EXTENDS HostConfig, TLAPS

\* A text a host may run that was started with Boot.
Good(g) == g \in Keyed /\ Fixed[g] = Fixed[Boot]

\* Nobody holds another.
TextsGood ==
  /\ Good(current) /\ Good(settings) /\ Good(factory)
  /\ fresh # None => Good(fresh)
  /\ \A s \in Session : /\ cfg[s] # None => Good(cfg[s])
                        /\ pendingCfg[s] # None => Good(pendingCfg[s])
                        /\ tc[s] # None => Good(tc[s])

\* The runtime is ahead of the bot and the controller only while a reload
\* that has published applies the rest.
InStep ==
  IF at = "apply" THEN factory = fresh ELSE current = factory /\ settings = factory

\* A session has its tools before its first turn, a generation is queued
\* for a turn that runs, and one that does not exist yet has nothing.
SessionOK ==
  /\ \A s \in sessions : phase[s] \in {"open", "closed"}
  /\ \A s \in Session :
       /\ phase[s] = "none" =>
            ~handed[s] /\ cfg[s] = None /\ pendingCfg[s] = None
       /\ turn[s] # "none" => handed[s]
       /\ handed[s] => tools[s]
       /\ phase[s] = "open" /\ turn[s] = "none" => pendingCfg[s] = None

ConfigInductive ==
  TypeOK /\ TextsGood /\ InStep /\ SessionOK /\ NextTurnPublished /\ ToolsKept

\* Every step preserves the types.
LEMMA NextTypeOK ==
  ASSUME TypeOK, TextsGood, [Next]_vars
  PROVE  TypeOK'
  <1>1. CASE UNCHANGED vars
    BY <1>1, ConfigAssumption DEF TypeOK, TextsGood, Good, vars, control,
       session
  <1>2. ASSUME NEW s \in Session, Create(s)
       PROVE  TypeOK'
    BY <1>2, ConfigAssumption DEF TypeOK, TextsGood, Good, Create, control
  <1>3. ASSUME NEW s \in Session, Decorate(s)
       PROVE  TypeOK'
    BY <1>3, ConfigAssumption DEF TypeOK, TextsGood, Good, Decorate,
       RegisterHostTool, Busy, control
  <1>4. ASSUME NEW s \in Session, Send(s)
       PROVE  TypeOK'
    BY <1>4, ConfigAssumption DEF TypeOK, TextsGood, Good, Send, Busy,
       control
  <1>5. ASSUME NEW s \in Session, TurnReturns(s)
       PROVE  TypeOK'
    BY <1>5, ConfigAssumption DEF TypeOK, TextsGood, Good, TurnReturns,
       control
  <1>6. ASSUME NEW s \in Session, TurnEnds(s)
       PROVE  TypeOK'
    BY <1>6, ConfigAssumption DEF TypeOK, TextsGood, Good, TurnEnds, Carried,
       control
  <1>7. ASSUME NEW s \in Session, BeginClose(s)
       PROVE  TypeOK'
    BY <1>7, ConfigAssumption DEF TypeOK, TextsGood, Good, BeginClose,
       control
  <1>8. ASSUME NEW s \in Session, Forget(s)
       PROVE  TypeOK'
    BY <1>8, ConfigAssumption DEF TypeOK, TextsGood, Good, Forget, control
  <1>9. ASSUME CloseRuntime
       PROVE  TypeOK'
    BY <1>9, ConfigAssumption DEF TypeOK, TextsGood, Good, CloseRuntime,
       control, session
  <1>10. ASSUME NEW t \in Text, Edit(t)
       PROVE  TypeOK'
    BY <1>10, ConfigAssumption DEF TypeOK, TextsGood, Good, Edit, control,
       session
  <1>11. ASSUME NEW who \in Session \cup {Person}, BeginReload(who)
       PROVE  TypeOK'
    BY <1>11, ConfigAssumption DEF TypeOK, TextsGood, Good, BeginReload,
       Accepted, Loads, MakesFactory, Change, session
  <1>12. ASSUME Snapshot
       PROVE  TypeOK'
    BY <1>12, ConfigAssumption DEF TypeOK, TextsGood, Good, Snapshot, Answer,
       session
  <1>13. ASSUME Publish
       PROVE  TypeOK'
    <2>1. UNCHANGED <<disk, current, settings, closed, sessions>>
      BY <1>13 DEF Publish
    <2>2. CASE UNCHANGED <<caller, fresh, live, factory, session>> /\ at' = "snapshot"
      BY <1>13, <2>1, <2>2 DEF TypeOK, session, Publish
    <2>3. CASE Answer /\ UNCHANGED <<factory, session>>
      BY <2>1, <2>3 DEF TypeOK, session, Answer
    <2>4. CASE PublishTo(live) /\ at = "publish"
      <3>1. fresh \in Valid /\ UNCHANGED <<caller, fresh, live, phase, handed, turn, tc, tcTools>>
        BY <2>4 DEF TypeOK, PublishTo
      <3>2. at' = "apply" /\ factory' = fresh
        BY <2>4 DEF PublishTo
      <3>3. /\ pendingCfg' \in [Session -> Valid \cup {None}]
            /\ cfg' \in [Session -> Valid \cup {None}]
            /\ tools' \in [Session -> BOOLEAN]
        BY <2>4, <3>1 DEF TypeOK, PublishTo, Carried
      <3>4. QED
        BY <2>1, <2>4, <3>1, <3>2, <3>3 DEF TypeOK
    <2>5. QED
      BY <1>13, <2>2, <2>3, <2>4 DEF Publish
  <1>14. ASSUME Apply
       PROVE  TypeOK'
    BY <1>14, ConfigAssumption DEF TypeOK, TextsGood, Good, Apply,
       ApplyTelegramSettings, Answer, session
  <1>15. QED
    BY <1>1, <1>2, <1>3, <1>4, <1>5, <1>6, <1>7, <1>8, <1>9, <1>10, <1>11,
       <1>12, <1>13, <1>14 DEF Next, Reload, SessionStep

\* Only checked texts spread.
LEMMA NextTextsGood ==
  ASSUME TypeOK, TextsGood, [Next]_vars
  PROVE  TextsGood'
  <1>1. CASE UNCHANGED vars
    BY <1>1, ConfigAssumption DEF TypeOK, TextsGood, Good, vars, control,
       session
  <1>2. ASSUME NEW s \in Session, Decorate(s) \/ TurnReturns(s) \/
     BeginClose(s) \/ Forget(s)
       PROVE  TextsGood'
    BY <1>2, ConfigAssumption DEF TypeOK, TextsGood, Good, Decorate,
       RegisterHostTool, Busy, TurnReturns, BeginClose, Forget, control,
       session
  <1>3. ASSUME CloseRuntime
       PROVE  TextsGood'
    BY <1>3, ConfigAssumption DEF TypeOK, TextsGood, Good, CloseRuntime,
       control, session
  <1>4. ASSUME NEW t \in Text, Edit(t)
       PROVE  TextsGood'
    BY <1>4, ConfigAssumption DEF TypeOK, TextsGood, Good, Edit, control,
       session
  <1>5. ASSUME NEW s \in Session, Create(s)
       PROVE  TextsGood'
    BY <1>5, ConfigAssumption DEF TypeOK, TextsGood, Good, Create, control
  <1>6. ASSUME NEW s \in Session, Send(s)
       PROVE  TextsGood'
    BY <1>6, ConfigAssumption DEF TypeOK, TextsGood, Good, Send, Busy,
       control
  <1>7. ASSUME NEW s \in Session, TurnEnds(s)
       PROVE  TextsGood'
    BY <1>7, ConfigAssumption DEF TypeOK, TextsGood, Good, TurnEnds, Carried,
       control
  <1>8. ASSUME NEW who \in Session \cup {Person}, BeginReload(who)
       PROVE  TextsGood'
    BY <1>8, ConfigAssumption DEF TypeOK, TextsGood, Good, BeginReload,
       Accepted, Loads, MakesFactory, Change, session
  <1>9. ASSUME Snapshot
       PROVE  TextsGood'
    BY <1>9, ConfigAssumption DEF TypeOK, TextsGood, Good, Snapshot, Answer,
       session
  <1>10. ASSUME Publish
       PROVE  TextsGood'
    <2>1. UNCHANGED <<current, settings, tc>> /\ at = "publish"
      BY <1>10 DEF Publish, PublishTo, session
    <2>2. CASE UNCHANGED <<caller, fresh, live, factory, session>>
      BY <2>1, <2>2 DEF TextsGood, Good, session
    <2>3. CASE Answer /\ UNCHANGED <<factory, session>>
      BY <2>1, <2>3 DEF TextsGood, Good, session, Answer
    <2>4. CASE PublishTo(live)
      <3>1. Good(fresh) /\ fresh' = fresh /\ factory' = fresh
        BY <2>1, <2>4 DEF TypeOK, TextsGood, PublishTo
      <3>2. \A s \in Session : /\ cfg'[s] \in {cfg[s], fresh}
                               /\ pendingCfg'[s] \in {pendingCfg[s], fresh}
        BY <2>4 DEF PublishTo
      <3>3. QED
        BY <2>1, <3>1, <3>2 DEF TextsGood, Good
    <2>5. QED
      BY <1>10, <2>2, <2>3, <2>4 DEF Publish
  <1>11. ASSUME Apply
       PROVE  TextsGood'
    BY <1>11, ConfigAssumption DEF TypeOK, TextsGood, Good, Apply,
       ApplyTelegramSettings, Answer, session
  <1>12. QED
    BY <1>1, <1>2, <1>3, <1>4, <1>5, <1>6, <1>7, <1>8, <1>9, <1>10, <1>11 DEF
       Next, Reload, SessionStep

\* Who is ahead of whom.
LEMMA NextInStep ==
  ASSUME TypeOK, InStep, [Next]_vars
  PROVE  InStep'
  <1>1. CASE UNCHANGED vars
    BY <1>1, ConfigAssumption DEF TypeOK, InStep, vars, control, session
  <1>2. ASSUME NEW s \in Session, Create(s) \/ Decorate(s) \/ Send(s) \/
     TurnReturns(s) \/ TurnEnds(s) \/ BeginClose(s) \/ Forget(s)
       PROVE  InStep'
    BY <1>2, ConfigAssumption DEF TypeOK, InStep, Create, Decorate,
       RegisterHostTool, Busy, Send, TurnReturns, TurnEnds, Carried,
       BeginClose, Forget, control, session
  <1>3. ASSUME CloseRuntime
       PROVE  InStep'
    BY <1>3, ConfigAssumption DEF TypeOK, InStep, CloseRuntime, control,
       session
  <1>4. ASSUME NEW t \in Text, Edit(t)
       PROVE  InStep'
    BY <1>4, ConfigAssumption DEF TypeOK, InStep, Edit, control, session
  <1>5. ASSUME NEW who \in Session \cup {Person}, BeginReload(who)
       PROVE  InStep'
    BY <1>5, ConfigAssumption DEF TypeOK, InStep, BeginReload, Accepted,
       Loads, MakesFactory, Change, session
  <1>6. ASSUME Snapshot
       PROVE  InStep'
    BY <1>6, ConfigAssumption DEF TypeOK, InStep, Snapshot, Answer, session
  <1>7. ASSUME Publish
       PROVE  InStep'
    BY <1>7, ConfigAssumption DEF TypeOK, InStep, Publish, PublishTo, Answer,
       Carried, Busy
  <1>8. ASSUME Apply
       PROVE  InStep'
    BY <1>8, ConfigAssumption DEF TypeOK, InStep, Apply,
       ApplyTelegramSettings, Answer, session
  <1>9. QED
    BY <1>1, <1>2, <1>3, <1>4, <1>5, <1>6, <1>7, <1>8 DEF Next, Reload,
       SessionStep

\* The life of a session.
LEMMA NextSessionOK ==
  ASSUME TypeOK, SessionOK, [Next]_vars
  PROVE  SessionOK'
  <1>1. CASE UNCHANGED vars
    BY <1>1, ConfigAssumption DEF TypeOK, SessionOK, vars, control, session
  <1>2. ASSUME NEW t \in Text, Edit(t)
       PROVE  SessionOK'
    BY <1>2, ConfigAssumption DEF TypeOK, SessionOK, Edit, control, session
  <1>3. ASSUME NEW who \in Session \cup {Person}, BeginReload(who)
       PROVE  SessionOK'
    BY <1>3, ConfigAssumption DEF TypeOK, SessionOK, BeginReload, Accepted,
       Loads, MakesFactory, Change, control, session
  <1>4. ASSUME Snapshot \/ Apply
       PROVE  SessionOK'
    BY <1>4, ConfigAssumption DEF TypeOK, SessionOK, Snapshot, Answer, Apply,
       ApplyTelegramSettings, control, session
  <1>5. ASSUME NEW s \in Session, Create(s)
       PROVE  SessionOK'
    BY <1>5, ConfigAssumption DEF TypeOK, SessionOK, Create, control
  <1>6. ASSUME NEW s \in Session, Decorate(s)
       PROVE  SessionOK'
    BY ZenonT(60), <1>6, ConfigAssumption DEF TypeOK, SessionOK, Decorate,
       RegisterHostTool, Busy, control
  <1>7. ASSUME NEW s \in Session, Send(s)
       PROVE  SessionOK'
    BY <1>7, ConfigAssumption DEF TypeOK, SessionOK, Send, Busy, control
  <1>8. ASSUME NEW s \in Session, TurnReturns(s)
       PROVE  SessionOK'
    BY <1>8, ConfigAssumption DEF TypeOK, SessionOK, TurnReturns, control
  <1>9. ASSUME NEW s \in Session, TurnEnds(s)
       PROVE  SessionOK'
    BY <1>9, ConfigAssumption DEF TypeOK, SessionOK, TurnEnds, Carried,
       control
  <1>10. ASSUME NEW s \in Session, BeginClose(s)
       PROVE  SessionOK'
    BY <1>10, ConfigAssumption DEF TypeOK, SessionOK, BeginClose, control
  <1>11. ASSUME NEW s \in Session, Forget(s)
       PROVE  SessionOK'
    BY <1>11, ConfigAssumption DEF TypeOK, SessionOK, Forget, control
  <1>12. ASSUME CloseRuntime
       PROVE  SessionOK'
    BY <1>12, ConfigAssumption DEF TypeOK, SessionOK, CloseRuntime, control,
       session
  <1>13. ASSUME Publish
       PROVE  SessionOK'
    <2>1. sessions' = sessions
      BY <1>13 DEF Publish
    <2>2. CASE UNCHANGED session
      BY <2>1, <2>2 DEF SessionOK, session
    <2>3. CASE PublishTo(live) /\ sessions = live /\ \A s \in live : phase[s] = "open"
      <3>1. UNCHANGED <<phase, handed, turn>>
        BY <2>3 DEF PublishTo
      <3>2. \A s \in Session : tools'[s] = tools[s]
        BY <2>3 DEF PublishTo, Carried, TypeOK
      <3>3. \A s \in Session :
              /\ pendingCfg'[s] # pendingCfg[s] => s \in live /\ turn[s] # "none"
              /\ cfg'[s] # cfg[s] => s \in live
        BY <2>3 DEF PublishTo, Busy
      <3>4. QED
        BY <2>1, <2>3, <3>1, <3>2, <3>3 DEF SessionOK
    <2>4. QED
      BY <1>13, <2>2, <2>3 DEF Publish
  <1>14. QED
    BY <1>1, <1>2, <1>3, <1>4, <1>5, <1>6, <1>7, <1>8, <1>9, <1>10, <1>11,
       <1>12, <1>13 DEF Next, Reload, SessionStep

\* Every registered session is reached.
LEMMA NextNextTurnPublished ==
  ASSUME TypeOK, TextsGood, InStep, SessionOK, NextTurnPublished, [Next]_vars
  PROVE  NextTurnPublished'
  <1>1. CASE UNCHANGED vars
    BY <1>1, ConfigAssumption DEF TypeOK, SessionOK, NextTurnPublished,
       Upcoming, vars, control, session
  <1>2. ASSUME NEW s \in Session, Decorate(s) \/ Send(s) \/ TurnReturns(s)
       PROVE  NextTurnPublished'
    BY <1>2, ConfigAssumption DEF TypeOK, SessionOK, NextTurnPublished,
       Upcoming, Decorate, RegisterHostTool, Busy, Send, TurnReturns,
       control, session
  <1>3. ASSUME NEW t \in Text, Edit(t)
       PROVE  NextTurnPublished'
    BY <1>3, ConfigAssumption DEF TypeOK, SessionOK, NextTurnPublished,
       Upcoming, Edit, control, session
  <1>4. ASSUME NEW who \in Session \cup {Person}, BeginReload(who)
       PROVE  NextTurnPublished'
    BY <1>4, ConfigAssumption DEF TypeOK, SessionOK, NextTurnPublished,
       Upcoming, BeginReload, Accepted, Loads, MakesFactory, Change, control,
       session
  <1>5. ASSUME Snapshot \/ Apply
       PROVE  NextTurnPublished'
    BY <1>5, ConfigAssumption DEF TypeOK, SessionOK, NextTurnPublished,
       Upcoming, Snapshot, Answer, Apply, ApplyTelegramSettings, control,
       session
  <1>6. ASSUME NEW s \in Session, Create(s)
       PROVE  NextTurnPublished'
    BY <1>6, ConfigAssumption DEF TypeOK, SessionOK, NextTurnPublished,
       Upcoming, Create, control
  <1>7. ASSUME NEW s \in Session, TurnEnds(s)
       PROVE  NextTurnPublished'
    BY <1>7, ConfigAssumption DEF TypeOK, SessionOK, NextTurnPublished,
       Upcoming, TurnEnds, Carried, control
  <1>8. ASSUME NEW s \in Session, BeginClose(s)
       PROVE  NextTurnPublished'
    BY <1>8, ConfigAssumption DEF TypeOK, SessionOK, NextTurnPublished,
       Upcoming, BeginClose, control
  <1>9. ASSUME NEW s \in Session, Forget(s)
       PROVE  NextTurnPublished'
    BY <1>9, ConfigAssumption DEF TypeOK, SessionOK, NextTurnPublished,
       Upcoming, Forget, control
  <1>10. ASSUME CloseRuntime
       PROVE  NextTurnPublished'
    BY <1>10, ConfigAssumption DEF TypeOK, SessionOK, NextTurnPublished,
       Upcoming, CloseRuntime, control, session
  <1>11. ASSUME Publish
       PROVE  NextTurnPublished'
    <2>1. sessions' = sessions
      BY <1>11 DEF Publish
    <2>2. CASE UNCHANGED <<factory, session>>
      BY <2>1, <2>2 DEF NextTurnPublished, Upcoming, session
    <2>3. CASE PublishTo(live) /\ sessions = live
      <3>1. factory' = fresh /\ phase' = phase
        BY <2>3 DEF PublishTo
      <3>2. SUFFICES ASSUME NEW s \in sessions, phase[s] = "open"
                     PROVE  Upcoming(s)' = fresh
        BY <2>1, <3>1 DEF NextTurnPublished
      <3>3. s \in live /\ s \in Session
        BY <2>3, <3>2 DEF TypeOK
      <3>4. CASE turn[s] # "none"
        <4>1. fresh # None
          BY <1>11, ConfigAssumption DEF Publish, TypeOK
        <4>2. pendingCfg'[s] = fresh
          BY <2>3, <3>3, <3>4 DEF PublishTo, Busy
        <4>3. QED
          BY <4>1, <4>2 DEF Upcoming
      <3>5. CASE turn[s] = "none"
        <4>1. pendingCfg'[s] = None /\ cfg'[s] = fresh
          BY <2>3, <3>2, <3>3, <3>5 DEF PublishTo, Busy, SessionOK
        <4>2. QED
          BY <4>1 DEF Upcoming
      <3>6. QED
        BY <3>4, <3>5
    <2>4. QED
      BY <1>11, <2>2, <2>3 DEF Publish
  <1>12. QED
    BY <1>1, <1>2, <1>3, <1>4, <1>5, <1>6, <1>7, <1>8, <1>9, <1>10, <1>11 DEF
       Next, Reload, SessionStep

\* Tools of a running turn.
LEMMA NextToolsKept ==
  ASSUME TypeOK, SessionOK, ToolsKept, [Next]_vars
  PROVE  ToolsKept'
  <1>1. CASE UNCHANGED vars
    BY <1>1, ConfigAssumption DEF TypeOK, SessionOK, ToolsKept, vars,
       control, session
  <1>2. ASSUME NEW s \in Session, Create(s) \/ Decorate(s) \/ BeginClose(s)
     \/ Forget(s)
       PROVE  ToolsKept'
    BY <1>2, ConfigAssumption DEF TypeOK, SessionOK, ToolsKept, Create,
       Decorate, RegisterHostTool, Busy, BeginClose, Forget, control, session
  <1>3. ASSUME CloseRuntime \/ Snapshot \/ Publish \/ Apply
       PROVE  ToolsKept'
    BY <1>3, ConfigAssumption DEF TypeOK, SessionOK, ToolsKept, CloseRuntime,
       Snapshot, Answer, Publish, PublishTo, Carried, Busy, Apply,
       ApplyTelegramSettings, control, session
  <1>4. ASSUME NEW t \in Text, Edit(t)
       PROVE  ToolsKept'
    BY <1>4, ConfigAssumption DEF TypeOK, SessionOK, ToolsKept, Edit,
       control, session
  <1>5. ASSUME NEW who \in Session \cup {Person}, BeginReload(who)
       PROVE  ToolsKept'
    BY <1>5, ConfigAssumption DEF TypeOK, SessionOK, ToolsKept, BeginReload,
       Accepted, Loads, MakesFactory, Change, control, session
  <1>6. ASSUME NEW s \in Session, Send(s)
       PROVE  ToolsKept'
    BY <1>6, ConfigAssumption DEF TypeOK, SessionOK, ToolsKept, Send, Busy,
       control
  <1>7. ASSUME NEW s \in Session, TurnReturns(s)
       PROVE  ToolsKept'
    BY <1>7, ConfigAssumption DEF TypeOK, SessionOK, ToolsKept, TurnReturns,
       control
  <1>8. ASSUME NEW s \in Session, TurnEnds(s)
       PROVE  ToolsKept'
    BY <1>8, ConfigAssumption DEF TypeOK, SessionOK, ToolsKept, TurnEnds,
       Carried, control
  <1>9. QED
    BY <1>1, <1>2, <1>3, <1>4, <1>5, <1>6, <1>7, <1>8 DEF Next, Reload,
       SessionStep

\* The invariant holds at first,
LEMMA InitInductive == Init => ConfigInductive
  BY ZenonT(60), ConfigAssumption DEF Init, ConfigInductive, TypeOK, TextsGood, Good, InStep, SessionOK,
     NextTurnPublished, ToolsKept

\* is kept by every step,
LEMMA NextInductive == ConfigInductive /\ [Next]_vars => ConfigInductive'
  BY NextTypeOK, NextTextsGood, NextInStep, NextSessionOK, NextNextTurnPublished,
     NextToolsKept DEF ConfigInductive

\* and so holds always.
LEMMA Inductive == Spec => []ConfigInductive
  BY InitInductive, NextInductive, PTL DEF Spec

-----------------------------------------------------------------------------
(* The theorems.                                                           *)

\* Types.
THEOREM TypesOK == Spec => []TypeOK
  <1>1. ConfigInductive => TypeOK
    BY DEF ConfigInductive
  <1>2. QED
    BY <1>1, Inductive, PTL

\* Whatever opens, runs or closes during a reload, the next turn of every
\* registered session runs what the runtime has published.
THEOREM ReloadReachesAll == Spec => []NextTurnPublished
  <1>1. ConfigInductive => NextTurnPublished
    BY DEF ConfigInductive
  <1>2. QED
    BY <1>1, Inductive, PTL

\* No turn ever runs without the tools of its front end.
THEOREM TurnsKeepTools == Spec => []ToolsKept
  <1>1. ConfigInductive => ToolsKept
    BY DEF ConfigInductive
  <1>2. QED
    BY <1>1, Inductive, PTL

\* No text that was not checked against the one the host started with is
\* ever in use.
THEOREM NothingUnchecked == Spec => []OnlyChecked
  <1>1. ConfigInductive => OnlyChecked
    BY ConfigAssumption DEF ConfigInductive, TextsGood, Good, OnlyChecked, Upcoming
  <1>2. QED
    BY <1>1, Inductive, PTL

\* Bot, controller and runtime agree whenever no reload is under way.
THEOREM HostOfOneGeneration == Spec => []OneGeneration
  <1>1. ConfigInductive => OneGeneration
    BY DEF ConfigInductive, InStep, OneGeneration
  <1>2. QED
    BY <1>1, Inductive, PTL
=============================================================================
