--------------------------- MODULE CommandPromise ---------------------------
(***************************************************************************)
(* What the background commands promise to whoever starts them, without    *)
(* processes, flags, rows or goroutines: a command runs only while         *)
(* somebody answers for it, who lets go of it when its result is told, and *)
(* only an end of its own is told as its result.                           *)
(***************************************************************************)
EXTENDS Naturals

CONSTANT Command  \* commands that may be asked for

VARIABLES taken,    \* commands that were admitted
          kept,     \* those that a job manager or a row still answers for
          state,    \* state[c]: what the process of c did
          told,     \* told[c]: notices of its result
          lost,     \* lost[c]: notices that its result was lost
          excused   \* stopped by the user, or without a row for want of a disk

pVars == <<taken, kept, state, told, lost, excused>>

PInit ==
  /\ taken = {} /\ kept = {} /\ excused = {}
  /\ state = [c \in Command |-> "none"]
  /\ told = [c \in Command |-> 0] /\ lost = [c \in Command |-> 0]

Take(c) ==
  /\ c \notin taken
  /\ taken' = taken \cup {c} /\ kept' = kept \cup {c}
  /\ UNCHANGED <<state, told, lost, excused>>

Start(c) ==
  /\ c \in kept /\ state[c] = "none"
  /\ state' = [state EXCEPT ![c] = "alive"]
  /\ UNCHANGED <<taken, kept, told, lost, excused>>

End(c) ==
  /\ state[c] = "alive"
  /\ \E how \in {"done", "killed"} : state' = [state EXCEPT ![c] = how]
  /\ UNCHANGED <<taken, kept, told, lost, excused>>

\* Nobody reports a command again that has been let go.
Tell(c) ==
  /\ c \in kept /\ state[c] = "done"
  /\ told' = [told EXCEPT ![c] = @ + 1]
  /\ UNCHANGED <<taken, kept, state, lost, excused>>

TellLost(c) ==
  /\ c \in taken
  /\ lost' = [lost EXCEPT ![c] = @ + 1]
  /\ UNCHANGED <<taken, kept, state, told, excused>>

Excuse ==
  /\ excused \subseteq excused' /\ excused' \ excused \subseteq kept
  /\ UNCHANGED <<taken, kept, state, told, lost>>

\* A host that is killed lets go of many at once.
LetGo ==
  /\ kept' \subseteq kept
  /\ \A c \in kept \ kept' : state[c] = "none" \/ told[c] + lost[c] > 0 \/ c \in excused
  /\ UNCHANGED <<taken, state, told, lost, excused>>

PNext ==
  \/ \E c \in Command : Take(c) \/ Start(c) \/ End(c) \/ Tell(c) \/ TellLost(c)
  \/ Excuse \/ LetGo

PSpec == PInit /\ [][PNext]_pVars
=============================================================================
