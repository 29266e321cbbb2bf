----------------------------- MODULE BeatenRun -----------------------------
(***************************************************************************)
(* One workflow run as its drivers see it through the files: whether it is *)
(* there and has ended, whether its end was announced, and who holds its   *)
(* execution lock.  No nodes, no signals, no steps inside a beat: a driver *)
(* takes the lock, perhaps ends the run, and gives the lock back.          *)
(*                                                                         *)
(* WrkRun implements this.  Every run of ScheduleLedger implements it too, *)
(* and whatever a driver outside the ledger may do here, ScheduleLedger    *)
(* allows.  The two modules agree on it.                                   *)
(***************************************************************************)
CONSTANTS
  Driver,  \* whoever beats or cancels the run
  Helper,  \* the agents that outlive a killed driver and keep its lock
  NoOne    \* the holder of a free lock

VARIABLES
  stage,   \* see Stages
  told,    \* notify.json: the end was announced
  holder   \* who holds beat.lock

bVars == <<stage, told, holder>>

\* overdue: not ended, although the deadline has passed.
\* failed: also a cancelled run.
Live == {"open", "overdue"}
Ended == {"completed", "failed"}
Stages == {"none"} \cup Live \cup Ended

\* The run is looked at before it was started, or from then on.
BInit == stage \in {"none", "open"} /\ ~told /\ holder = NoOne

Create == stage = "none" /\ stage' = "open" /\ UNCHANGED <<told, holder>>

Expire == stage = "open" /\ stage' = "overdue" /\ UNCHANGED <<told, holder>>

\* What the holder of a fresh lock does at once: a run whose deadline has
\* passed fails, one that was cancelled may, one that has ended stays.
AtTake(s) ==
  CASE s = "open"    -> {"open", "failed"}
    [] s = "overdue" -> {"failed"}
    [] OTHER         -> {s}

Take(d) ==
  /\ holder = NoOne /\ stage # "none"
  /\ holder' = d
  /\ stage' \in AtTake(stage)
  /\ UNCHANGED told

\* The deadline may pass between the last look at it and the end.
Settle(d) ==
  /\ holder = d /\ stage \in Live
  /\ stage' \in Ended
  /\ UNCHANGED <<told, holder>>

\* The lock is given up at the end of the beat or with the driver's death.
\* Only the end of a run is announced; only an unfinished run has helpers.
GiveUp(d) ==
  /\ holder = d
  /\ \/ holder' = NoOne
     \/ holder' = Helper /\ stage \in Live
  /\ \/ UNCHANGED told
     \/ stage \in Ended /\ told' = TRUE
  /\ UNCHANGED stage

HelperExits == holder = Helper /\ holder' = NoOne /\ UNCHANGED <<stage, told>>

BNext ==
  \/ Create \/ Expire \/ HelperExits
  \/ \E d \in Driver : Take(d) \/ Settle(d) \/ GiveUp(d)

BSpec == BInit /\ [][BNext]_bVars
=============================================================================
