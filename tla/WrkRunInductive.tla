--------------------------- MODULE WrkRunInductive ---------------------------
(***************************************************************************)
(* The inductive invariant of WrkRun.  Each conjunct says, for one part of *)
(* the state, what a process that is at a given place of Beat or Cancel    *)
(* may rely on: the invariants of WrkRun hold in every reachable state but *)
(* are not preserved by a step on their own.                               *)
(***************************************************************************)
EXTENDS WrkRun

Body == {"recover", "ingest", "claimed", "recorded", "advance", "choose", "wave"}
Telling == {"notify", "receipt"}

\* The lock is held by a process that is inside a beat or a cancellation: no
\* return of either forgets it.
OwnerAtWork == owner # NoOne => owner \in Inside

\* The body of a beat runs with the status it wrote, the notice is posted
\* only for a terminal run.
StatusByPc ==
  \A p \in Proc :
     /\ pc[p] \in Body => status = "running"
     /\ pc[p] \in Telling => status \in Terminal

\* ingestSignals handles one claim at a time, and records it before the Ack.
ClaimByPc ==
  \A d \in Driver :
     /\ pc[d] = "ingest" => procQ = {}
     /\ pc[d] = "claimed" => \E s \in Signal : procQ = {s}
     /\ pc[d] = "recorded" => procQ \subseteq events

\* A canceller wrote the marker before it waits for the lock, and nobody
\* withdraws it from a run that may still be cancelled.
MarkByPc ==
  \A c \in Canceller :
     pc[c] = "lock" => cancelled \/ status \in {"completed", "failed"}

\* notify.json is written after the inbox took the notice of this outcome,
\* and each notice beyond the first was paid for by a fault.
NoticeByPc ==
  /\ \A p \in Proc : pc[p] = "receipt" => notices[status] > 0
  /\ \A t \in Terminal : notices[t] <=
        faults + (IF receipt \/ \E p \in Proc : pc[p] = "receipt" THEN 1 ELSE 0)

\* The status files agree with the processes of the wave; a wait node never
\* has a process.
NodeByPhase ==
  \A n \in Node :
     /\ phase[n] = "starting" => node[n] = "pending"
     /\ phase[n] \in {"work", "check", "orphan"} => node[n] = "running"
     /\ phase[n] # "off" => n \notin Wait

\* Before its wave a beat remembers what the files say, and none says "running"
\* or "interrupted".  In the wave a node in flight is remembered as pending, and
\* one that returned agrees with its file, or failed, or was interrupted by a
\* context that stays cancelled until the beat is over.  At rest all agree.
Agrees(n) == Reset(node[n]) = states[n]

MemoryByPc ==
  /\ \A p \in Proc : pc[p] \in Body \ {"wave"} => \A n \in Node :
        Agrees(n) /\ node[n] = states[n]
  /\ \A p \in Proc : pc[p] = "wave" => \A n \in Node :
        IF phase[n] \in InFlight THEN states[n] = "pending"
        ELSE \/ Agrees(n) \/ states[n] = "failed"
             \/ states[n] = "interrupted" /\ ContextDone
  /\ status \in {"ready", "waiting"} => \A n \in Node : Agrees(n)

\* Only the beat that holds the lock can be told to stop, at the cost of a fault.
StopsOwner == stopping \subseteq {owner} /\ (stopping # {} => faults > 0)

\* The attempts of a loop: what is left before an attempt, during it, and
\* after one that an interruption wasted.  A stop signal that the current
\* beat has not answered yet is a fault still to be charged.
Charged == faults - (IF owner \in stopping THEN 1 ELSE 0)

TriesOf(n) ==
  /\ node[n] = "pending" => tries[n] < MaxTries[n] + Charged
  /\ node[n] = "running" =>
       tries[n] <= MaxTries[n] +
         (IF phase[n] \in InFlight THEN Charged ELSE faults - 1)
  /\ node[n] = "interrupted" =>
       \/ tries[n] < MaxTries[n] + faults
       \/ expired \/ cancelled \/ status \in Terminal
  /\ tries[n] <= MaxTries[n] + faults

TriesByNode == \A n \in Loop : TriesOf(n)

\* The conjunction that every step preserves.
Inductive ==
  /\ TypeOK /\ OneOwner /\ OwnerAtWork /\ StatusByPc
  /\ ClaimByPc /\ NoSignalLost
  /\ MarkByPc /\ OutcomeJustified
  /\ NoticeByPc /\ NoticeTruthful
  /\ NodeByPhase /\ DependencyOrder /\ WriterAlone
  /\ MemoryByPc /\ StopsOwner /\ TriesByNode
=============================================================================
