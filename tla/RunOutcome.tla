----------------------------- MODULE RunOutcome -----------------------------
(***************************************************************************)
(* What a workflow run promises to the rest of the system, without beats,  *)
(* locks or files: it ends at most once, it announces nothing but that     *)
(* end, and a signal it accepted stays known until it is in the ledger,    *)
(* where it stays.                                                         *)
(***************************************************************************)
EXTENDS Naturals

CONSTANTS Outcome,  \* the ways a run can end
          Signals,  \* the notices the run may be sent
          Open      \* the run has not ended; not a member of Outcome

VARIABLES outcome,   \* how the run ended, or Open
          announced, \* announced[o]: how often outcome o was announced
          accepted,  \* signals taken from their senders
          ledger     \* signals recorded in the run

aVars == <<outcome, announced, accepted, ledger>>

AInit ==
  /\ outcome = Open
  /\ announced = [o \in Outcome |-> 0]
  /\ accepted = {}
  /\ ledger = {}

End ==
  /\ outcome = Open
  /\ outcome' \in Outcome
  /\ UNCHANGED <<announced, accepted, ledger>>

Announce ==
  /\ outcome \in Outcome
  /\ announced' = [announced EXCEPT ![outcome] = @ + 1]
  /\ UNCHANGED <<outcome, accepted, ledger>>

Accept(s) ==
  /\ s \notin accepted
  /\ accepted' = accepted \cup {s}
  /\ UNCHANGED <<outcome, announced, ledger>>

\* Recording again what is there already changes nothing.  An ended run
\* records no signal.
Record(s) ==
  /\ outcome = Open /\ s \in accepted \ ledger
  /\ ledger' = ledger \cup {s}
  /\ UNCHANGED <<outcome, announced, accepted>>

ANext == End \/ Announce \/ \E s \in Signals : Accept(s) \/ Record(s)

ASpec == AInit /\ [][ANext]_aVars
=============================================================================
