---------------------------- MODULE NoticeInbox ----------------------------
(***************************************************************************)
(* The "main" inbox (internal/inbox) and its automatic delivery: senders   *)
(* publish notices, the attached hosts (Telegram, interactive console)     *)
(* lease a bounded batch, send it to the model as an ordinary turn, verify *)
(* that the prompt is in the saved conversation and only then commit it,   *)
(* while `shell3 inbox read` and `shell3 inbox archive` work on the same   *)
(* files without any lock.                                                 *)
(*                                                                         *)
(* A body is a number of units: what one batch or one read may hold is     *)
(* counted in units, each of whole UTF-8 characters.  A step is one file   *)
(* operation, one SQLite transaction or one turn of the conversation.      *)
(***************************************************************************)
EXTENDS Integers, FiniteSets

CONSTANTS
  Notice,        \* notices that may be sent to main
  Units,         \* Units[n]: length of the body of n
  Host,          \* hosts attached to the state root
  Reader,        \* processes running `shell3 inbox read` or `archive`
  BatchNotices,  \* notices in a batch, 8 in the code
  BatchUnits,    \* body units in a batch, 32 KiB in the code
  MaxCommands,   \* bound on inbox commands
  MaxFaults      \* bound on crashes, failed turns, failed reads and writes

ASSUME InboxAssumption ==
  /\ IsFiniteSet(Notice) /\ Units \in [Notice -> Nat]
  /\ BatchNotices \in Nat \ {0} /\ BatchUnits \in Nat \ {0}
  /\ MaxCommands \in Nat /\ MaxFaults \in Nat

VARIABLES
  place,      \* place[n]: the directory that holds n
  created,    \* created[n]: when n was published
  read,       \* read[n]: contiguous progress of inbox reads, 0 when there is none
  delivered,  \* delivered[n]: progress of automatic delivery, 0 when there is none
  lease,      \* hosts that hold inbox-reader.lock
  pc,         \* pc[h]: where host h is
  batch,      \* batch[h]: the parts of the leased batch
  left,       \* left[h]: parts Commit has still to handle
  unsaved,    \* unsaved[h]: parts in the conversation of h that SQLite has not
  saved,      \* units in a saved conversation, whichever host's
  paused,     \* hosts whose review was stopped by the user
  shown,      \* units printed by inbox reads
  given,      \* units given to the model by a delivery that has not failed
  cli,        \* cli[r]: the command process r is running
  commands, faults

fileVars == <<place, created, read, delivered>>
hostVars == <<lease, pc, batch, left>>
talkVars == <<unsaved, saved, paused, given>>
cliVars == <<cli, shown, commands>>
vars == <<fileVars, hostVars, talkVars, cliVars, faults>>

Span(n, a, b) == {n} \X (a..(b - 1))
Unit == UNION {Span(n, 0, Units[n]) : n \in Notice}
Part == UNION {[notice : {n}, from : 0..Units[n], to : 0..Units[n]] : n \in Notice}
UnitsOf(parts) == UNION {Span(p.notice, p.from, p.to) : p \in parts}

Resting == [op |-> "none"]

\* Both hosts are attached and nothing has been sent.
Init ==
  /\ place = [n \in Notice |-> "unsent"] /\ created = [n \in Notice |-> 0]
  /\ read = [n \in Notice |-> 0] /\ delivered = [n \in Notice |-> 0]
  /\ lease = {} /\ pc = [h \in Host |-> "idle"]
  /\ batch = [h \in Host |-> {}] /\ left = [h \in Host |-> {}]
  /\ unsaved = [h \in Host |-> {}] /\ saved = {}
  /\ paused = {} /\ given = {} /\ shown = {}
  /\ cli = [r \in Reader |-> Resting] /\ commands = 0 /\ faults = 0

Fault == faults < MaxFaults /\ faults' = faults + 1

Pending == {n \in Notice : place[n] = "new"}
FullyRead(n) == read[n] # 0 /\ read[n] = Units[n]

-----------------------------------------------------------------------------
(* Senders.                                                                *)

Notify(n) ==
  /\ place[n] = "unsent"
  /\ place' = [place EXCEPT ![n] = "new"]
  /\ created' = [created EXCEPT ![n] = Cardinality({m \in Notice : place[m] # "unsent"}) + 1]
  /\ UNCHANGED <<read, delivered, hostVars, talkVars, cliVars, faults>>

-----------------------------------------------------------------------------
(* A host: lease, turn, verification.                                      *)

Boot(h) ==
  /\ pc[h] = "down"
  /\ pc' = [pc EXCEPT ![h] = "idle"]
  /\ UNCHANGED <<fileVars, lease, batch, left, talkVars, cliVars, faults>>

\* The pending notices that List sorts before n, and what is left of them.
Ahead(n) == {m \in Pending : created[m] < created[n]}
Backlog(S) == Cardinality({u \in Unit : u[1] \in S /\ u[2] >= delivered[u[1]]})
Room(n) == BatchUnits - Backlog(Ahead(n))

\* Faulty variant: automatic delivery continues where inbox reads stopped.
PartAfterReads(n) ==
  [notice |-> n, from |-> read[n],
   to |-> IF read[n] + Room(n) < Units[n] THEN read[n] + Room(n) ELSE Units[n]]

PartOf(n) ==
  [notice |-> n, from |-> delivered[n],
   to |-> IF delivered[n] + Room(n) < Units[n] THEN delivered[n] + Room(n) ELSE Units[n]]
NextBatch ==
  {PartOf(n) : n \in {m \in Pending : /\ Cardinality(Ahead(m)) < BatchNotices
                                      /\ Room(m) > 0}}

\* Faulty variant: two hosts may hold the reader lock.
PrepareUnlocked(h) ==
  /\ pc[h] = "idle" /\ h \notin paused /\ NextBatch # {}
  /\ lease' = lease \cup {h}
  /\ pc' = [pc EXCEPT ![h] = "leased"]
  /\ batch' = [batch EXCEPT ![h] = NextBatch]
  /\ UNCHANGED <<fileVars, left, talkVars, cliVars, faults>>

\* A busy lease or an empty inbox yields no batch: the host tries again later.
PrepareBatch(h) ==
  /\ pc[h] = "idle" /\ h \notin paused /\ lease = {} /\ NextBatch # {}
  /\ lease' = lease \cup {h}
  /\ pc' = [pc EXCEPT ![h] = "leased"]
  /\ batch' = [batch EXCEPT ![h] = NextBatch]
  /\ UNCHANGED <<fileVars, left, talkVars, cliVars, faults>>

\* Session.Send: the turn has begun and the prompt is in the conversation.
Send(h) ==
  /\ pc[h] = "leased"
  /\ pc' = [pc EXCEPT ![h] = "turn"]
  /\ unsaved' = [unsaved EXCEPT ![h] = @ \cup batch[h]]
  /\ given' = given \cup UnitsOf(batch[h])
  /\ UNCHANGED <<fileVars, lease, batch, left, saved, paused, cliVars, faults>>

\* Faulty variant: a delivery that ends without an error keeps its lease.
CloseKeepsLease(h) ==
  /\ lease' = lease
  /\ pc' = [pc EXCEPT ![h] = "idle"]
  /\ batch' = [batch EXCEPT ![h] = {}] /\ left' = [left EXCEPT ![h] = {}]

\* The deferred batch.Close, with the prompt's fate decided.
Close(h) ==
  /\ lease' = lease \ {h}
  /\ pc' = [pc EXCEPT ![h] = "idle"]
  /\ batch' = [batch EXCEPT ![h] = {}] /\ left' = [left EXCEPT ![h] = {}]
Abandon(h) == Close(h) /\ given' = given \ UnitsOf(batch[h])

SendRejected(h) ==
  /\ pc[h] = "leased" /\ Fault /\ Abandon(h)
  /\ UNCHANGED <<fileVars, unsaved, saved, paused, cliVars>>

\* saveHistory appends everything unsaved in one transaction, or nothing.
SavesHistory(h) ==
  /\ saved' = saved \cup UnitsOf(unsaved[h])
  /\ unsaved' = [unsaved EXCEPT ![h] = {}]

TurnDone(h) ==
  /\ pc[h] = "turn" /\ pc' = [pc EXCEPT ![h] = "verify"]
  /\ \/ SavesHistory(h) /\ UNCHANGED faults
     \/ Fault /\ UNCHANGED <<unsaved, saved>>
  /\ UNCHANGED <<fileVars, lease, batch, left, paused, given, cliVars>>

\* A stream error, or the user's /stop: the input is saved, nothing commits.
TurnFails(h) ==
  /\ pc[h] = "turn" /\ Fault /\ Abandon(h)
  /\ SavesHistory(h) \/ UNCHANGED <<unsaved, saved>>
  /\ paused' \in {paused, paused \cup {h}}
  /\ UNCHANGED <<fileVars, cliVars>>

\* Faulty variant: a turn that answered is taken for a turn that was saved.
VerifyTrusts(h) ==
  /\ pc[h] = "verify"
  /\ pc' = [pc EXCEPT ![h] = "commit"] /\ left' = [left EXCEPT ![h] = batch[h]]
  /\ UNCHANGED <<lease, batch, given, faults, fileVars, unsaved, saved, paused, cliVars>>

Verify(h) ==
  /\ pc[h] = "verify"
  /\ \/ /\ unsaved[h] = {}
        /\ pc' = [pc EXCEPT ![h] = "commit"] /\ left' = [left EXCEPT ![h] = batch[h]]
        /\ UNCHANGED <<lease, batch, given, faults>>
     \/ /\ unsaved[h] # {} /\ Abandon(h) /\ UNCHANGED faults
     \/ /\ Fault /\ Abandon(h)
  /\ UNCHANGED <<fileVars, unsaved, saved, paused, cliVars>>

\* An ordinary message of the user resumes review; its turn saves the
\* whole conversation.
UserSpeaks(h) ==
  /\ pc[h] = "idle" /\ (h \in paused \/ unsaved[h] # {})
  /\ paused' = paused \ {h}
  /\ SavesHistory(h)
  /\ UNCHANGED <<fileVars, hostVars, given, cliVars, faults>>

Crash(h) ==
  /\ pc[h] # "down" /\ Fault
  /\ pc' = [pc EXCEPT ![h] = "down"]
  /\ lease' = lease \ {h}
  /\ batch' = [batch EXCEPT ![h] = {}] /\ left' = [left EXCEPT ![h] = {}]
  /\ given' = given \ UnitsOf(batch[h])
  /\ unsaved' = [unsaved EXCEPT ![h] = {}] /\ paused' = paused \ {h}
  /\ UNCHANGED <<fileVars, saved, cliVars>>

-----------------------------------------------------------------------------
(* Commit, part by part in the order of creation.                          *)

First(h, p) ==
  /\ p \in left[h]
  /\ \A q \in left[h] : created[p.notice] <= created[q.notice]
Full(p) == p.to = Units[p.notice]
At(h, where) == pc' = [pc EXCEPT ![h] = where]
Handled(h, p) == At(h, "commit") /\ left' = [left EXCEPT ![h] = @ \ {p}]

Committing == {"commit", "progress", "record", "write", "validate", "move", "clear", "drop"}

\* A failing file operation ends Commit with an error.
CommitFails(h) ==
  /\ pc[h] \in Committing /\ Fault /\ Abandon(h)
  /\ UNCHANGED <<fileVars, unsaved, saved, paused, cliVars>>

CommitDone(h) ==
  /\ pc[h] = "commit" /\ left[h] = {} /\ Close(h)
  /\ UNCHANGED <<fileVars, talkVars, cliVars, faults>>

\* Store.Read: an inbox archive may have taken the notice.
LookAt(h, p) ==
  /\ pc[h] = "commit" /\ First(h, p)
  /\ IF place[p.notice] = "archived" THEN Handled(h, p)
     ELSE At(h, IF Full(p) THEN "record" ELSE "progress") /\ UNCHANGED left
  /\ UNCHANGED <<fileVars, lease, batch, talkVars, cliVars, faults>>

SaveProgress(h, p) ==
  /\ pc[h] = "progress" /\ First(h, p)
  /\ delivered' = [delivered EXCEPT ![p.notice] = p.to]
  /\ Handled(h, p)
  /\ UNCHANGED <<place, created, read, lease, batch, talkVars, cliVars, faults>>

\* RecordRead(0, Total): refused once archived, nothing to do when not ahead.
RecordRead(h, p) ==
  /\ pc[h] = "record" /\ First(h, p)
  /\ IF place[p.notice] # "new" THEN Abandon(h)
     ELSE At(h, IF p.to <= read[p.notice] THEN "validate" ELSE "write")
          /\ UNCHANGED <<lease, batch, left, given>>
  /\ UNCHANGED <<fileVars, unsaved, saved, paused, cliVars, faults>>

WriteRead(h, p) ==
  /\ pc[h] = "write" /\ First(h, p)
  /\ read' = [read EXCEPT ![p.notice] = p.to]
  /\ At(h, "validate")
  /\ UNCHANGED <<place, created, delivered, lease, batch, left, talkVars, cliVars, faults>>

\* ArchiveRead of the one notice: pending and fully read, or an error.
Validate(h, p) ==
  /\ pc[h] = "validate" /\ First(h, p)
  /\ IF place[p.notice] = "new" /\ FullyRead(p.notice)
     THEN At(h, "move") /\ UNCHANGED <<lease, batch, left, given>>
     ELSE Abandon(h)
  /\ UNCHANGED <<fileVars, unsaved, saved, paused, cliVars, faults>>

Move(h, p) ==
  /\ pc[h] = "move" /\ First(h, p)
  /\ IF place[p.notice] = "new"
     THEN /\ place' = [place EXCEPT ![p.notice] = "archived"]
          /\ At(h, "clear") /\ UNCHANGED <<lease, batch, left, given>>
     ELSE Abandon(h) /\ UNCHANGED place
  /\ UNCHANGED <<created, read, delivered, unsaved, saved, paused, cliVars, faults>>

ClearRead(h, p) ==
  /\ pc[h] = "clear" /\ First(h, p)
  /\ read' = [read EXCEPT ![p.notice] = 0]
  /\ At(h, "drop")
  /\ UNCHANGED <<place, created, delivered, lease, batch, left, talkVars, cliVars, faults>>

DropProgress(h, p) ==
  /\ pc[h] = "drop" /\ First(h, p)
  /\ delivered' = [delivered EXCEPT ![p.notice] = 0]
  /\ Handled(h, p)
  /\ UNCHANGED <<place, created, read, lease, batch, talkVars, cliVars, faults>>

-----------------------------------------------------------------------------
(* shell3 inbox read and shell3 inbox archive.                             *)

Runs(r, command) == cli' = [cli EXCEPT ![r] = command]
Starts(r) == /\ cli[r] = Resting /\ commands < MaxCommands
             /\ commands' = commands + 1

\* The chunk is printed before any progress is recorded.  A read of an archived
\* notice, or past the end of a body, changes no file and is left out.
InboxRead(r, n, a, b) ==
  /\ Starts(r) /\ place[n] = "new"
  /\ a <= read[n] /\ a < b
  /\ shown' = shown \cup Span(n, a, b)
  /\ Runs(r, [op |-> "record", notice |-> n, from |-> a, to |-> b])
  /\ UNCHANGED <<fileVars, hostVars, talkVars, faults>>

CliRecord(r) ==
  /\ cli[r].op = "record"
  /\ Runs(r, IF /\ place[cli[r].notice] = "new"
                /\ cli[r].from <= read[cli[r].notice] /\ read[cli[r].notice] < cli[r].to
             THEN [op |-> "write", notice |-> cli[r].notice,
                   from |-> cli[r].from, to |-> cli[r].to]
             ELSE Resting)
  /\ UNCHANGED <<fileVars, hostVars, talkVars, shown, commands, faults>>

CliWrite(r) ==
  /\ cli[r].op = "write"
  /\ read' = [read EXCEPT ![cli[r].notice] = cli[r].to]
  /\ Runs(r, Resting)
  /\ UNCHANGED <<place, created, delivered, hostVars, talkVars, shown, commands, faults>>

InboxArchive(r, ids) ==
  /\ Starts(r) /\ ids # {}
  /\ Runs(r, [op |-> "check", todo |-> ids, ok |-> {}])
  /\ UNCHANGED <<fileVars, hostVars, talkVars, shown, faults>>

CliCheck(r, n) ==
  /\ cli[r].op = "check" /\ n \in cli[r].todo
  /\ Runs(r, IF place[n] = "new" /\ FullyRead(n)
             THEN [op |-> "check", todo |-> cli[r].todo \ {n}, ok |-> cli[r].ok \cup {n}]
             ELSE Resting)
  /\ UNCHANGED <<fileVars, hostVars, talkVars, shown, commands, faults>>

\* Only after every named notice passed; a rename that finds nothing ends it.
CliMove(r, n) ==
  /\ cli[r].op = "check" /\ cli[r].todo = {} /\ n \in cli[r].ok
  /\ IF place[n] = "new"
     THEN /\ place' = [place EXCEPT ![n] = "archived"]
          /\ Runs(r, [op |-> "clear", todo |-> {n}, ok |-> cli[r].ok \ {n}])
     ELSE Runs(r, Resting) /\ UNCHANGED place
  /\ UNCHANGED <<created, read, delivered, hostVars, talkVars, shown, commands, faults>>

CliClear(r, n) ==
  /\ cli[r].op = "clear" /\ n \in cli[r].todo
  /\ read' = [read EXCEPT ![n] = 0]
  /\ Runs(r, IF cli[r].ok = {} THEN Resting
             ELSE [op |-> "check", todo |-> {}, ok |-> cli[r].ok])
  /\ UNCHANGED <<place, created, delivered, hostVars, talkVars, shown, commands, faults>>

\* Killed, or one of its reads or writes failed.
CliDies(r) ==
  /\ cli[r] # Resting /\ Fault
  /\ Runs(r, Resting)
  /\ UNCHANGED <<fileVars, hostVars, talkVars, shown, commands>>

-----------------------------------------------------------------------------
Commit(h) ==
  \/ CommitDone(h) \/ CommitFails(h)
  \/ \E p \in left[h] :
       \/ LookAt(h, p) \/ SaveProgress(h, p)
       \/ RecordRead(h, p) \/ WriteRead(h, p) \/ Validate(h, p)
       \/ Move(h, p) \/ ClearRead(h, p) \/ DropProgress(h, p)

Review(h) ==
  \/ PrepareBatch(h) \/ Send(h) \/ SendRejected(h)
  \/ TurnDone(h) \/ TurnFails(h) \/ Verify(h) \/ Commit(h)

Command(r) ==
  \/ \E n \in Notice : \E a, b \in 0..Units[n] : InboxRead(r, n, a, b)
  \/ CliRecord(r) \/ CliWrite(r) \/ CliDies(r)
  \/ \E ids \in SUBSET Notice : InboxArchive(r, ids)
  \/ \E n \in Notice : CliCheck(r, n) \/ CliMove(r, n) \/ CliClear(r, n)

Next ==
  \/ \E n \in Notice : Notify(n)
  \/ \E h \in Host : Boot(h) \/ Review(h) \/ UserSpeaks(h) \/ Crash(h)
  \/ \E r \in Reader : Command(r)

\* A host that is up and not paused keeps looking at the inbox (the console's
\* poll tick, Telegram's reconcile ticker), and its turns end.  Nothing else is
\* promised: nobody must start a host, speak to it or finish a command.
Fairness == \A h \in Host : WF_vars(Review(h))

Spec == Init /\ [][Next]_vars
FairSpec == Spec /\ Fairness
-----------------------------------------------------------------------------
(* Properties.                                                             *)

ReadCommand ==
  UNION {[op : {"record", "write"}, notice : {n}, from : 0..Units[n], to : 0..Units[n]] :
           n \in Notice}
ArchiveCommand == [op : {"check", "clear"}, todo : SUBSET Notice, ok : SUBSET Notice]

\* Every file and every host is in a state the code can produce.
TypeOK ==
  /\ place \in [Notice -> {"unsent", "new", "archived"}]
  /\ created \in [Notice -> Nat]
  /\ read \in [Notice -> Nat] /\ delivered \in [Notice -> Nat]
  /\ \A n \in Notice : read[n] <= Units[n] /\ delivered[n] <= Units[n]
  /\ lease \subseteq Host /\ paused \subseteq Host
  /\ pc \in [Host -> Committing \cup {"down", "idle", "leased", "turn", "verify"}]
  /\ batch \in [Host -> SUBSET Part] /\ left \in [Host -> SUBSET Part]
  /\ unsaved \in [Host -> SUBSET Part] /\ saved \subseteq Unit
  /\ shown \subseteq Unit /\ given \subseteq Unit
  /\ cli \in [Reader -> {Resting} \cup ReadCommand \cup ArchiveCommand]
  /\ commands \in 0..MaxCommands /\ faults \in 0..MaxFaults

\* "Crash windows can repeat a chunk, never skip unsaved content": every unit of
\* an archived notice is in a saved conversation, or an inbox read printed it.
NothingSkipped ==
  \A n \in Notice : place[n] = "archived" =>
    Span(n, 0, Units[n]) \subseteq saved \cup shown

\* What the senders may rely on is InboxPromise: the model, or whoever runs
\* `inbox read`, comes to know a notice from its beginning and without a gap,
\* whichever hosts and commands take turns and fail at it, and a notice goes to
\* the archive once, when nothing of it is unknown.
Promise == INSTANCE InboxPromise WITH known <- saved \cup shown

KeepsPromise == Promise!PSpec

\* "Only saved conversation chunks count": what the automatic reader takes for
\* delivered is in a saved conversation, whatever inbox reads have recorded; and
\* read progress stands for units printed or saved.
ProgressFounded ==
  \A n \in Notice :
    /\ Span(n, 0, delivered[n]) \subseteq saved
    /\ Span(n, 0, read[n]) \subseteq saved \cup shown

\* Hosts "clear them only after a successful turn verifies their complete
\* contents in saved conversation history": a notice that a host archives is
\* saved to its last unit, and what inbox reads printed does not count.
ClearsOnlySaved ==
  [][\A h \in Host, n \in Notice :
       (pc[h] = "move" /\ pc'[h] = "clear" /\ place'[n] # place[n]) =>
         Span(n, 0, Units[n]) \subseteq saved]_vars

\* A unit is put in a prompt again only when the delivery that carried it before
\* failed: two hosts, a resumed batch or a stale progress file never repeat it.
NoNeedlessRepeat ==
  [][\A h \in Host : (pc[h] = "leased" /\ pc'[h] = "turn") =>
       UnitsOf(batch[h]) \cap given = {}]_vars

\* A pending notice is reviewed and archived in the end, unless every host is
\* down or was told to stop reviewing: no lease is kept, no notice is passed over.
Reviewed ==
  \A n \in Notice :
    place[n] = "new" ~>
      (place[n] = "archived" \/ \A h \in Host : pc[h] = "down" \/ h \in paused)

\* "Fully delivered notices archive automatically": with nothing failing and no
\* inbox command running, a delivery whose input was saved ends with each notice
\* it carried to the end archived.
DeliveredArchives ==
  [][\A h \in Host : (pc[h] \in Committing /\ pc'[h] = "idle") =>
       \A p \in batch[h] : Full(p) => place'[p.notice] = "archived"]_vars
=============================================================================
