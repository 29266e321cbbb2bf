------------------------------ MODULE HostRestart ------------------------------
(***************************************************************************)
(* The life of a Telegram host across restarts, and the journal of host    *)
(* actions in host-actions.json that tells the model what happened.        *)
(*                                                                         *)
(* A host is one process image.  A restart the shell3 tool has queued runs *)
(* when the last reply is out: the host closes everything, writes that it  *)
(* is executing, and re-execs itself with its instance in the environment. *)
(* The new image confirms the restart once it is ready to run.  A service  *)
(* manager may launch a host that is down, with no such handoff.           *)
(*                                                                         *)
(* How turns drain is TelegramRooms; a reload and what else the tool does  *)
(* is one action here, for its receipt.  The teardown of a host outlasts   *)
(* the writing of a receipt that was already due.                          *)
(***************************************************************************)
EXTENDS Integers, Sequences

CONSTANTS
  MaxHosts,    \* bound on the images that come up
  MaxReceipts  \* the receipts a journal keeps, 12 in the code

ASSUME RestartAssumption == MaxHosts \in Nat /\ MaxReceipts \in Nat \ {0}

VARIABLES
  valid,     \* shell3.lisp loads and its secrets resolve
  readable,  \* the journal can be read and parsed
  journal,   \* its receipts
  phase,     \* "down", "booting", "up", "leaving" or "replacing"
  host,      \* the instance that is up, or was last
  handoff,   \* SHELL3_RESTART_RECEIPT in the environment, 0 for unset
  actions,   \* the receipts in the memory of the host
  loadErr,   \* its journal could not be read
  restart,   \* "none" or "queued"
  due,       \* receipts of a restart about to be recorded
  origin     \* history: the instance whose exec brought a host up, 0 for none

vars == <<valid, readable, journal, phase, host, handoff, actions, loadErr,
          restart, due, origin>>

Host == 1 .. MaxHosts

Receipt == [by : Host, did : {"startup", "restart", "other"},
            outcome : {"done", "queued", "cancelled", "failed", "executing",
                       "completed"},
            previous : Host \cup {0}]

Init ==
  /\ valid = TRUE /\ readable = TRUE /\ journal = <<>>
  /\ phase = "booting" /\ host = 0 /\ handoff = 0
  /\ actions = <<>> /\ loadErr = FALSE /\ restart = "none" /\ due = {}
  /\ origin = [h \in Host |-> 0]

-----------------------------------------------------------------------------
(* The journal *)

Action(h, did, outcome) ==
  [by |-> h, did |-> did, outcome |-> outcome, previous |-> 0]

(* saveLocked keeps the latest receipts *)
Latest(receipts) ==
  IF Len(receipts) > MaxReceipts
  THEN SubSeq(receipts, Len(receipts) - MaxReceipts + 1, Len(receipts))
  ELSE receipts

(* A journal that could not be read is left alone; a write may fail, and   *)
(* then the receipts stay in memory.  A write whose directory could not be *)
(* synced is done, and reported as failed all the same.                    *)
Saved(receipts, unread, ok) ==
  /\ actions' = Latest(receipts)
  /\ IF ok /\ ~unread
     THEN journal' = actions' /\ readable' = TRUE
     ELSE UNCHANGED <<journal, readable>>

Record(did, outcome) ==
  \E ok \in BOOLEAN : Saved(Append(actions, Action(host, did, outcome)), loadErr, ok)

-----------------------------------------------------------------------------
(* A host that is up *)

(* The tool's other actions and the pause of a progress check.            *)
OtherAction ==
  /\ phase = "up"
  /\ Record("other", "done")
  /\ UNCHANGED <<valid, phase, host, handoff, loadErr, restart, due, origin>>

(* What prepareRestart asks of the configuration on disk                   *)
Loads == valid

(* A configuration that would not start is refused; otherwise the restart  *)
(* is armed, if it is not already.                                         *)
RequestRestart ==
  /\ phase = "up" /\ "queued" \notin due
  /\ IF Loads
     THEN restart' = "queued" /\ due' = due \cup {"queued"}
     ELSE due' = due \cup {"failed"} /\ UNCHANGED restart
  /\ UNCHANGED <<valid, readable, journal, phase, host, handoff, actions,
                 loadErr, origin>>

(* A reply that could not be delivered cancels the restart.                *)
CancelRestart ==
  /\ phase = "up" /\ restart = "queued" /\ "cancelled" \notin due
  /\ restart' = "none" /\ due' = due \cup {"cancelled"}
  /\ UNCHANGED <<valid, readable, journal, phase, host, handoff, actions,
                 loadErr, origin>>

(* The receipt is written after the bot's mutex has been released.         *)
RecordDue(outcome) ==
  /\ phase \in {"up", "leaving"} /\ outcome \in due
  /\ due' = due \ {outcome}
  /\ Record("restart", outcome)
  /\ UNCHANGED <<valid, phase, host, handoff, loadErr, restart, origin>>

(* RestartReady: no turn is active, so no call of the tool either.         *)
Leave ==
  /\ phase = "up" /\ restart = "queued" /\ due \cap {"queued", "failed"} = {}
  /\ phase' = "leaving"
  /\ UNCHANGED <<valid, readable, journal, host, handoff, actions, loadErr,
                 restart, due, origin>>

-----------------------------------------------------------------------------
(* From one image to the next *)

Ended ==
  /\ phase' = "down" /\ handoff' = 0 /\ restart' = "none" /\ due' = {}
  /\ loadErr' = FALSE

(* A bug: the exec does not depend on the receipt.                         *)
ExecuteAnyway ==
  /\ phase = "leaving" /\ due = {}
  /\ Record("restart", "executing")
  /\ phase' = "replacing"
  /\ UNCHANGED <<valid, host, handoff, loadErr, restart, due, origin>>

(* The last deferred call.  Without a receipt known to be on disk there is *)
(* no exec: the failure is recorded, as far as it can be, and the process  *)
(* returns.                                                                *)
Execute ==
  LET executing == Append(actions, Action(host, "restart", "executing"))
  IN /\ phase = "leaving" /\ due = {}
     /\ \/ /\ ~loadErr
           /\ Saved(executing, loadErr, TRUE)
           /\ phase' = "replacing"
           /\ UNCHANGED <<handoff, loadErr, restart, due>>
        \/ /\ \/ Saved(executing, loadErr, TRUE)
              \/ \E ok \in BOOLEAN :
                   Saved(Append(executing, Action(host, "restart", "failed")),
                         loadErr, ok)
           /\ Ended
     /\ UNCHANGED <<valid, host, origin>>

(* The exec hands the instance over in the environment, or fails.         *)
Exec ==
  /\ phase = "replacing"
  /\ \/ /\ phase' = "booting" /\ handoff' = host /\ restart' = "none"
        /\ actions' = <<>>
        /\ UNCHANGED <<readable, journal, loadErr, due>>
     \/ Record("restart", "failed") /\ Ended
  /\ UNCHANGED <<valid, host, origin>>

(* A bug: a restart that was queued when the last host went is taken as    *)
(* done.                                                                   *)
ConfirmsQueued(receipts) ==
  \E i \in DOMAIN receipts :
    /\ receipts[i].did = "restart" /\ receipts[i].outcome \in {"queued", "executing"}
    /\ \A j \in i + 1 .. Len(receipts) : receipts[j].did # "restart"

RestartBy(h, r) == r.by = h /\ r.did = "restart"

(* The last word of instance h on its restart is that it executes it.      *)
Executing(h, receipts) ==
  \E i \in DOMAIN receipts :
    /\ RestartBy(h, receipts[i]) /\ receipts[i].outcome = "executing"
    /\ \A j \in i + 1 .. Len(receipts) : ~RestartBy(h, receipts[j])

Confirms(receipts) == Executing(handoff, receipts)

Opening(h, receipts) ==
  IF Confirms(receipts)
  THEN [by |-> h, did |-> "restart", outcome |-> "completed", previous |-> handoff]
  ELSE Action(h, "startup", "completed")

(* Configuration, transports and owners are ready: only now the journal is *)
(* opened and the handoff leaves the environment.                          *)
ComeUp ==
  /\ phase = "booting" /\ Loads /\ host < MaxHosts
  /\ host' = host + 1 /\ phase' = "up" /\ handoff' = 0
  /\ origin' = [origin EXCEPT ![host + 1] = handoff]
  /\ \E read \in {readable, FALSE}, ok \in BOOLEAN :
       LET found == IF read THEN journal ELSE <<>>
       IN /\ loadErr' = ~read
          /\ Saved(Append(found, Opening(host + 1, found)), ~read, ok)
  /\ UNCHANGED <<valid, restart, due>>

(* The boot fails, the host is stopped, or it is killed.                   *)
Halt ==
  /\ phase # "down"
  /\ Ended /\ actions' = <<>>
  /\ UNCHANGED <<valid, readable, journal, host, origin>>

(* The service manager *)
Launch ==
  /\ phase = "down" /\ host < MaxHosts
  /\ phase' = "booting" /\ actions' = <<>>
  /\ UNCHANGED <<valid, readable, journal, host, handoff, loadErr, restart,
                 due, origin>>

-----------------------------------------------------------------------------
(* The files *)

Edit ==
  /\ valid' = ~valid
  /\ UNCHANGED <<readable, journal, phase, host, handoff, actions, loadErr,
                 restart, due, origin>>

(* The journal is damaged, or repaired.                                    *)
Touch ==
  /\ readable' = ~readable
  /\ UNCHANGED <<valid, journal, phase, host, handoff, actions, loadErr,
                 restart, due, origin>>

Next ==
  \/ OtherAction \/ RequestRestart \/ CancelRestart
  \/ \E outcome \in {"queued", "cancelled", "failed"} : RecordDue(outcome)
  \/ Leave \/ Execute \/ Exec \/ ComeUp \/ Halt \/ Launch \/ Edit \/ Touch

Spec == Init /\ [][Next]_vars

-----------------------------------------------------------------------------

TypeOK ==
  /\ valid \in BOOLEAN /\ readable \in BOOLEAN /\ loadErr \in BOOLEAN
  /\ journal \in Seq(Receipt) /\ Len(journal) <= MaxReceipts
  /\ actions \in Seq(Receipt) /\ Len(actions) <= MaxReceipts
  /\ phase \in {"down", "booting", "up", "leaving", "replacing"}
  /\ host \in Host \cup {0} /\ handoff \in Host \cup {0}
  /\ restart \in {"none", "queued"}
  /\ due \subseteq {"queued", "cancelled", "failed"}
  /\ origin \in [Host -> Host \cup {0}]

(* No restart is claimed that did not happen: a receipt that says a        *)
(* restart completed, in memory or in the journal, is of a host that the   *)
(* exec of the host it names brought up, whatever was queued, cancelled,   *)
(* killed or launched in between (openHostFeedback).                       *)
CompletedFounded ==
  \A receipts \in {journal, actions} : \A i \in DOMAIN receipts :
    LET r == receipts[i]
    IN r.did = "restart" /\ r.outcome = "completed" =>
         r.previous # 0 /\ origin[r.by] = r.previous

(* A restart that did happen is confirmed: a host that an exec brought up  *)
(* and that can read the journal finds the word of the old one in it,      *)
(* although a receipt of its own may have failed to be written             *)
(* (hostFeedback.executing, openHostFeedback).                             *)
RestartConfirmed ==
  [][phase = "booting" /\ phase' = "up" /\ handoff # 0 /\ ~loadErr' =>
       LET last == actions'[Len(actions')]
       IN last.outcome = "completed" /\ last.previous = handoff]_vars

(* Receipts leave the journal only by age: each write keeps a tail of what *)
(* was there before, and drops receipts only to keep the latest            *)
(* MaxReceipts; a host that could not read it writes nothing               *)
(* (hostFeedback.saveLocked).                                              *)
KeepsTail(old, new) ==
  \E k \in 0 .. Len(old) :
    /\ Len(old) - k <= Len(new) /\ (k > 0 => Len(new) = MaxReceipts)
    /\ \A i \in 1 .. Len(old) - k : new[i] = old[k + i]

JournalGrows == [][KeepsTail(journal, journal')]_vars

(* A restart that was queued, and that no reply failed to delay, reaches   *)
(* the exec: the drained host is replaced, not stopped (RestartReady).     *)
RestartExecs == [][Execute => phase' = "replacing"]_vars
=============================================================================
