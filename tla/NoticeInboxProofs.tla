------------------------- MODULE NoticeInboxProofs -------------------------
(***************************************************************************)
(* The safety properties of NoticeInbox, for any set of notices with       *)
(* bodies of any length, any hosts and readers, any bounds on a batch and  *)
(* on faults.  The inductive invariant follows a notice through delivery:  *)
(* what is delivered is a saved prefix, what is in a leased batch          *)
(* continues that prefix, what Commit works on is in the conversation.     *)
(***************************************************************************)
EXTENDS NoticeInbox, FiniteSetTheorems, TLAPS

\* When each notice was published tells notices apart.
CreatedOK ==
  /\ \A n \in Notice : place[n] = "unsent" <=> created[n] = 0
  /\ \A n \in Notice : created[n] <= Cardinality({m \in Notice : place[m] # "unsent"})
  /\ \A m, n \in Notice : created[m] = created[n] /\ created[m] # 0 => m = n

\* The lease is held by the one host that is between PrepareBatch and Close.
LeaseOK ==
  /\ \A h \in Host : h \in lease <=> pc[h] \notin {"down", "idle"}
  /\ \A g, h \in lease : g = h
  /\ \A h \in Host : h \notin lease => batch[h] = {}
  /\ \A h \in Host : left[h] \subseteq batch[h] /\ (pc[h] \notin Committing => left[h] = {})

\* A part continues a saved prefix.  Until Commit handles it the delivered
\* progress is where it was when the batch was prepared; afterwards the notice
\* is archived or its progress has reached the end of the part.
BatchOK ==
  \A h \in Host : \A p \in batch[h] :
    /\ p.from <= p.to /\ place[p.notice] # "unsent"
    /\ Span(p.notice, 0, p.from) \subseteq saved
    /\ \A q \in batch[h] : q.notice = p.notice => q = p
    /\ pc[h] \notin Committing \/ p \in left[h] => delivered[p.notice] = p.from
    /\ pc[h] \in Committing /\ p \notin left[h] =>
         place[p.notice] = "archived" \/ p.to <= delivered[p.notice]

\* The prompt is saved before Commit begins, whatever crashes in between.
PromptOK ==
  \A h \in Host :
    /\ pc[h] \in {"turn", "verify"} => UnitsOf(batch[h]) \subseteq saved \cup UnitsOf(unsaved[h])
    /\ pc[h] \in Committing => UnitsOf(batch[h]) \subseteq saved

\* Only a part that ends its notice takes the way to the archive.
StageOK ==
  \A h \in Host : \A p \in left[h] : First(h, p) =>
    /\ pc[h] \in {"record", "write", "validate", "move", "clear", "drop"} => Full(p)
    /\ pc[h] \in {"clear", "drop"} => place[p.notice] = "archived"

\* A command records what it printed and archives what was read to its end.
CliOK ==
  \A r \in Reader :
    /\ cli[r].op = "record" => Span(cli[r].notice, cli[r].from, cli[r].to) \subseteq shown
    /\ cli[r].op = "write" => Span(cli[r].notice, 0, cli[r].to) \subseteq saved \cup shown
    /\ cli[r].op \in {"check", "clear"} =>
         \A n \in cli[r].ok : Span(n, 0, Units[n]) \subseteq saved \cup shown

\* A unit given by a delivery that has not failed is behind the delivered
\* progress, in the archive or in the batch in flight.
GivenOK ==
  /\ \A u \in given :
       \/ place[u[1]] = "archived" \/ u[2] < delivered[u[1]]
       \/ \E h \in lease : pc[h] # "leased" /\ u \in UnitsOf(batch[h])
  /\ \A h \in Host : pc[h] = "leased" => UnitsOf(batch[h]) \cap given = {}

InboxInductive ==
  /\ TypeOK /\ CreatedOK /\ LeaseOK /\ BatchOK /\ PromptOK /\ StageOK /\ CliOK
  /\ ProgressFounded /\ NothingSkipped /\ GivenOK

-----------------------------------------------------------------------------
(* Spans, parts and counts.                                                *)

\* A span splits at any point in it.
LEMMA SpanSplit ==
  ASSUME NEW n, NEW a \in Int, NEW b \in Int, NEW c \in Int, a <= b, b <= c
  PROVE  Span(n, a, c) = Span(n, a, b) \cup Span(n, b, c)
  <1>1. a..(c - 1) = a..(b - 1) \cup b..(c - 1)
    OBVIOUS
  <1>2. QED
    BY <1>1 DEF Span

\* The span before a point in a body is part of the body.
LEMMA SpanType ==
  ASSUME NEW n \in Notice, NEW a \in 0..Units[n], NEW b \in 0..Units[n]
  PROVE  Span(n, a, b) \subseteq Unit
  <1>1. Units[n] \in Nat
    BY InboxAssumption
  <1>2. a..(b - 1) \subseteq 0..(Units[n] - 1)
    BY <1>1
  <1>3. Span(n, a, b) \subseteq Span(n, 0, Units[n])
    BY <1>2 DEF Span
  <1>4. QED
    BY <1>3 DEF Unit

\* A span of no units.
LEMMA SpanEmpty ==
  ASSUME NEW n
  PROVE  Span(n, 0, 0) = {}
  <1>1. 0..(0 - 1) = {}
    OBVIOUS
  <1>2. QED
    BY <1>1 DEF Span

\* What a part is.
LEMMA PartFields ==
  ASSUME NEW p \in Part
  PROVE  /\ p.notice \in Notice /\ Units[p.notice] \in Nat
         /\ p.from \in 0..Units[p.notice] /\ p.to \in 0..Units[p.notice]
  <1>1. PICK n \in Notice : p \in [notice : {n}, from : 0..Units[n], to : 0..Units[n]]
    BY DEF Part
  <1>2. p.notice = n
    BY <1>1
  <1>3. QED
    BY <1>1, <1>2, InboxAssumption

\* A part of a notice.
LEMMA PartType ==
  ASSUME NEW n \in Notice, NEW a \in 0..Units[n], NEW b \in 0..Units[n]
  PROVE  [notice |-> n, from |-> a, to |-> b] \in Part
  BY DEF Part

\* The units of parts.
LEMMA UnitsOfType ==
  ASSUME NEW S \in SUBSET Part
  PROVE  UnitsOf(S) \subseteq Unit
  BY PartFields, SpanType DEF UnitsOf

\* A unit belongs to a notice.
LEMMA UnitFields ==
  ASSUME NEW u \in Unit
  PROVE  u[1] \in Notice /\ u[2] \in Nat
  <1>1. PICK n \in Notice : u \in {n} \X (0..(Units[n] - 1))
    BY DEF Unit, Span
  <1>2. QED
    BY <1>1, InboxAssumption

\* UnitsOf is a union over the parts.
LEMMA UnitsOfUnion ==
  ASSUME NEW S, NEW T
  PROVE  /\ UnitsOf(S \cup T) = UnitsOf(S) \cup UnitsOf(T)
         /\ UnitsOf({}) = {}
         /\ \A p \in S : Span(p.notice, p.from, p.to) \subseteq UnitsOf(S)
  BY DEF UnitsOf

\* What a reader's command is.
LEMMA ReadCommandFields ==
  ASSUME NEW c \in {Resting} \cup ReadCommand \cup ArchiveCommand, c.op \in {"record", "write"}
  PROVE  /\ c \in ReadCommand /\ c.notice \in Notice /\ Units[c.notice] \in Nat
         /\ c.from \in 0..Units[c.notice] /\ c.to \in 0..Units[c.notice]
  <1>1. c \in ReadCommand
    BY DEF Resting, ArchiveCommand
  <1>2. PICK n \in Notice :
          c \in [op : {"record", "write"}, notice : {n}, from : 0..Units[n], to : 0..Units[n]]
    BY <1>1 DEF ReadCommand
  <1>3. c.notice = n
    BY <1>2
  <1>4. QED
    BY <1>1, <1>2, <1>3, InboxAssumption

\* What read writes or records.
LEMMA ReadCommandType ==
  ASSUME NEW n \in Notice, NEW a \in 0..Units[n], NEW b \in 0..Units[n],
         NEW o \in {"record", "write"}
  PROVE  [op |-> o, notice |-> n, from |-> a, to |-> b] \in ReadCommand
  BY DEF ReadCommand

\* What archive checks or clears.
LEMMA ArchiveCommandFields ==
  ASSUME NEW c \in {Resting} \cup ReadCommand \cup ArchiveCommand, c.op \in {"check", "clear"}
  PROVE  c \in ArchiveCommand /\ c.todo \subseteq Notice /\ c.ok \subseteq Notice
  <1>1. c \notin ReadCommand
    BY DEF ReadCommand
  <1>2. QED
    BY <1>1 DEF Resting, ArchiveCommand

\* The notices and their units are finite in number.
LEMMA UnitFinite == IsFiniteSet(Unit)
  <1> DEFINE f == [n \in Notice |-> Span(n, 0, Units[n])]
             Bodies == {Span(n, 0, Units[n]) : n \in Notice}
  <1>1. f \in Surjection(Notice, Bodies)
    BY DEF Surjection
  <1>2. IsFiniteSet(Bodies)
    BY <1>1, FS_Surjection, InboxAssumption
  <1>3. \A S \in Bodies : IsFiniteSet(S)
    <2>1. TAKE S \in Bodies
    <2>2. PICK n \in Notice : S = {n} \X (0..(Units[n] - 1))
      BY DEF Span
    <2>3. IsFiniteSet({n})
      BY FS_Singleton
    <2>4. Units[n] - 1 \in Int /\ 0 \in Int
      BY InboxAssumption
    <2>5. IsFiniteSet(0..(Units[n] - 1))
      BY <2>4, FS_Interval
    <2>6. QED
      BY <2>2, <2>3, <2>5, FS_Product
  <1>4. QED
    BY <1>2, <1>3, FS_UNION DEF Unit

\* The room left for a notice is a number.
LEMMA RoomType ==
  ASSUME NEW n \in Notice
  PROVE  Room(n) \in Int
  <1>1. IsFiniteSet({u \in Unit : u[1] \in Ahead(n) /\ u[2] >= delivered[u[1]]})
    BY UnitFinite, FS_Subset
  <1>2. Backlog(Ahead(n)) \in Nat
    BY <1>1, FS_CardinalityType DEF Backlog
  <1>3. QED
    BY <1>2, InboxAssumption DEF Room

\* Each part of a batch continues the delivered progress of a pending notice.
LEMMA NextBatchParts ==
  ASSUME TypeOK, NEW p \in NextBatch
  PROVE  /\ p.notice \in Notice /\ p \in Part /\ p = PartOf(p.notice)
         /\ place[p.notice] = "new"
         /\ p.from = delivered[p.notice] /\ p.from <= p.to
  <1>1. PICK n \in Notice : p = PartOf(n) /\ place[n] = "new" /\ Room(n) > 0
    BY DEF NextBatch, Pending
  <1>2. Room(n) \in Int /\ Units[n] \in Nat /\ delivered[n] \in 0..Units[n]
    BY RoomType, InboxAssumption DEF TypeOK
  <1>3. p.notice = n /\ p.from = delivered[n] /\ p.to \in delivered[n]..Units[n]
    BY <1>1, <1>2 DEF PartOf
  <1>4. p = [notice |-> n, from |-> p.from, to |-> p.to]
    BY <1>1 DEF PartOf
  <1>5. QED
    BY <1>1, <1>2, <1>3, <1>4, PartType

\* A batch is made of parts.
LEMMA NextBatchType ==
  ASSUME TypeOK
  PROVE  NextBatch \subseteq Part
  BY NextBatchParts

\* The count of the notices sent so far.
LEMMA CountType ==
  ASSUME NEW S \in SUBSET Notice
  PROVE  Cardinality(S) \in Nat
  BY FS_Subset, FS_CardinalityType, InboxAssumption

-----------------------------------------------------------------------------
(* Each conjunct is preserved by every step.                               *)

\* Every step preserves the types.
LEMMA NextTypeOK ==
  ASSUME TypeOK, [Next]_vars
  PROVE  TypeOK'
  <1>1. CASE UNCHANGED vars
    BY <1>1, InboxAssumption DEF TypeOK, Committing, vars, fileVars,
       hostVars, talkVars, cliVars
  <1>2. ASSUME NEW n \in Notice, Notify(n)
       PROVE  TypeOK'
    BY <1>2, InboxAssumption, InboxAssumption, CountType DEF TypeOK,
       Committing, Notify, hostVars, talkVars, cliVars
  <1>3. ASSUME NEW h \in Host, Boot(h)
       PROVE  TypeOK'
    BY <1>3, InboxAssumption DEF TypeOK, Committing, Boot, fileVars,
       talkVars, cliVars
  <1>4. ASSUME NEW h \in Host, PrepareBatch(h)
       PROVE  TypeOK'
    BY <1>4, InboxAssumption, NextBatchType DEF TypeOK, Committing,
       PrepareBatch, fileVars, talkVars, cliVars
  <1>5. ASSUME NEW h \in Host, Send(h)
       PROVE  TypeOK'
    BY <1>5, InboxAssumption, UnitsOfType DEF TypeOK, Committing, Send,
       fileVars, cliVars
  <1>6. ASSUME NEW h \in Host, SendRejected(h)
       PROVE  TypeOK'
    BY <1>6, InboxAssumption DEF TypeOK, Committing, SendRejected, Abandon,
       Close, Fault, fileVars, cliVars
  <1>7. ASSUME NEW h \in Host, TurnDone(h)
       PROVE  TypeOK'
    BY <1>7, InboxAssumption, UnitsOfType DEF TypeOK, Committing,
       SavesHistory, TurnDone, Fault, fileVars, cliVars
  <1>8. ASSUME NEW h \in Host, TurnFails(h)
       PROVE  TypeOK'
    BY <1>8, InboxAssumption, UnitsOfType DEF TypeOK, Committing, TurnFails,
       Abandon, Close, Fault, SavesHistory, fileVars, cliVars
  <1>9. ASSUME NEW h \in Host, Verify(h)
       PROVE  TypeOK'
    BY <1>9, InboxAssumption DEF TypeOK, Committing, Verify, Abandon, Close,
       Fault, fileVars, cliVars
  <1>10. ASSUME NEW h \in Host, UserSpeaks(h)
       PROVE  TypeOK'
    BY <1>10, InboxAssumption, UnitsOfType DEF TypeOK, Committing,
       UserSpeaks, SavesHistory, fileVars, hostVars, cliVars
  <1>11. ASSUME NEW h \in Host, Crash(h)
       PROVE  TypeOK'
    BY <1>11, InboxAssumption DEF TypeOK, Committing, Crash, Fault, fileVars,
       cliVars
  <1>12. ASSUME NEW h \in Host, CommitFails(h)
       PROVE  TypeOK'
    BY <1>12, InboxAssumption DEF TypeOK, Committing, CommitFails, Abandon,
       Close, Fault, fileVars, cliVars
  <1>13. ASSUME NEW h \in Host, CommitDone(h)
       PROVE  TypeOK'
    BY <1>13, InboxAssumption DEF TypeOK, Committing, CommitDone, Close,
       fileVars, talkVars, cliVars
  <1>14. ASSUME NEW h \in Host, NEW p \in left[h], LookAt(h, p)
       PROVE  TypeOK'
    BY <1>14, InboxAssumption DEF TypeOK, Committing, LookAt, Handled, At,
       fileVars, talkVars, cliVars
  <1>15. ASSUME NEW h \in Host, NEW p \in left[h], SaveProgress(h, p)
       PROVE  TypeOK'
    BY <1>15, InboxAssumption, PartFields DEF TypeOK, Committing, First,
       SaveProgress, Handled, At, talkVars, cliVars
  <1>16. ASSUME NEW h \in Host, NEW p \in left[h], RecordRead(h, p)
       PROVE  TypeOK'
    BY <1>16, InboxAssumption DEF TypeOK, Committing, RecordRead, Abandon,
       Close, At, fileVars, cliVars
  <1>17. ASSUME NEW h \in Host, NEW p \in left[h], WriteRead(h, p)
       PROVE  TypeOK'
    BY <1>17, InboxAssumption, PartFields DEF TypeOK, Committing, First,
       WriteRead, At, talkVars, cliVars
  <1>18. ASSUME NEW h \in Host, NEW p \in left[h], Validate(h, p)
       PROVE  TypeOK'
    BY <1>18, InboxAssumption DEF TypeOK, Committing, Validate, Abandon,
       Close, At, fileVars, cliVars
  <1>19. ASSUME NEW h \in Host, NEW p \in left[h], Move(h, p)
       PROVE  TypeOK'
    BY <1>19, InboxAssumption, PartFields DEF TypeOK, Committing, First,
       Move, Abandon, Close, At, cliVars
  <1>20. ASSUME NEW h \in Host, NEW p \in left[h], ClearRead(h, p)
       PROVE  TypeOK'
    BY <1>20, InboxAssumption, PartFields DEF TypeOK, Committing, First,
       ClearRead, At, talkVars, cliVars
  <1>21. ASSUME NEW h \in Host, NEW p \in left[h], DropProgress(h, p)
       PROVE  TypeOK'
    BY <1>21, InboxAssumption, PartFields DEF TypeOK, Committing, First,
       DropProgress, Handled, At, talkVars, cliVars
  <1>22. ASSUME NEW r \in Reader, NEW n \in Notice, NEW a \in 0..Units[n],
     NEW b \in 0..Units[n], InboxRead(r, n, a, b)
       PROVE  TypeOK'
    <2>1. shown' \subseteq Unit
      BY <1>22, SpanType DEF TypeOK, InboxRead
    <2>2. cli' \in [Reader -> {Resting} \cup ReadCommand \cup ArchiveCommand]
      BY <1>22, ReadCommandType DEF TypeOK, InboxRead, Runs
    <2>3. commands' \in 0..MaxCommands
      BY <1>22, InboxAssumption DEF TypeOK, InboxRead, Starts
    <2>4. QED
      BY <1>22, <2>1, <2>2, <2>3 DEF TypeOK, Committing, InboxRead, fileVars, hostVars,
         talkVars
  <1>23. ASSUME NEW r \in Reader, CliRecord(r)
       PROVE  TypeOK'
    <2>1. cli' \in [Reader -> {Resting} \cup ReadCommand \cup ArchiveCommand]
      BY <1>23, ReadCommandFields, ReadCommandType DEF TypeOK, CliRecord, Runs
    <2>2. QED
      BY <1>23, <2>1 DEF TypeOK, Committing, CliRecord, fileVars, hostVars, talkVars
  <1>24. ASSUME NEW r \in Reader, CliWrite(r)
       PROVE  TypeOK'
    BY <1>24, InboxAssumption, ReadCommandFields DEF TypeOK, Committing,
       CliWrite, Runs, hostVars, talkVars
  <1>25. ASSUME NEW r \in Reader, CliDies(r)
       PROVE  TypeOK'
    BY <1>25, InboxAssumption DEF TypeOK, Committing, CliDies, Runs, Fault,
       fileVars, hostVars, talkVars
  <1>26. ASSUME NEW r \in Reader, NEW ids \in SUBSET Notice, InboxArchive(r,
     ids)
       PROVE  TypeOK'
    BY <1>26, InboxAssumption, InboxAssumption DEF TypeOK, Committing,
       ArchiveCommand, InboxArchive, Runs, Starts, fileVars, hostVars,
       talkVars
  <1>27. ASSUME NEW r \in Reader, NEW n \in Notice, CliCheck(r, n)
       PROVE  TypeOK'
    BY <1>27, InboxAssumption, ArchiveCommandFields DEF TypeOK, Committing,
       ArchiveCommand, CliCheck, Runs, fileVars, hostVars, talkVars
  <1>28. ASSUME NEW r \in Reader, NEW n \in Notice, CliMove(r, n)
       PROVE  TypeOK'
    BY <1>28, InboxAssumption, ArchiveCommandFields DEF TypeOK, Committing,
       ArchiveCommand, CliMove, Runs, hostVars, talkVars
  <1>29. ASSUME NEW r \in Reader, NEW n \in Notice, CliClear(r, n)
       PROVE  TypeOK'
    <2>1. cli' \in [Reader -> {Resting} \cup ReadCommand \cup ArchiveCommand]
      BY <1>29, ArchiveCommandFields DEF TypeOK, CliClear, Runs, ArchiveCommand
    <2>2. read' = [read EXCEPT ![n] = 0]
      BY <1>29 DEF CliClear
    <2>3. read' \in [Notice -> Nat]
      BY <2>2 DEF TypeOK
    <2>4. ASSUME NEW m \in Notice PROVE read'[m] <= Units[m]
      <3>1. Units[m] \in Nat
        BY InboxAssumption
      <3>2. read'[m] = (IF m = n THEN 0 ELSE read[m])
        BY <2>2 DEF TypeOK
      <3>3. read[m] \in Nat /\ read[m] <= Units[m]
        BY DEF TypeOK
      <3>4. QED
        BY <3>1, <3>2, <3>3
    <2>5. QED
      BY <1>29, <2>1, <2>3, <2>4 DEF TypeOK, Committing, CliClear, hostVars, talkVars
  <1>30. QED
    BY <1>1, <1>2, <1>3, <1>4, <1>5, <1>6, <1>7, <1>8, <1>9, <1>10, <1>11,
       <1>12, <1>13, <1>14, <1>15, <1>16, <1>17, <1>18, <1>19, <1>20, <1>21,
       <1>22, <1>23, <1>24, <1>25, <1>26, <1>27, <1>28, <1>29 DEF Next,
       Review, Commit, Command

\* What is saved stays saved, what was printed stays printed.
LEMMA StepGrows ==
  ASSUME TypeOK, [Next]_vars
  PROVE  saved \subseteq saved' /\ shown \subseteq shown'
  <1>1. CASE UNCHANGED vars
    BY <1>1 DEF vars, fileVars, hostVars, talkVars, cliVars
  <1>2. ASSUME NEW n \in Notice, Notify(n)
       PROVE  saved \subseteq saved' /\ shown \subseteq shown'
    BY <1>2 DEF Notify, fileVars, hostVars, talkVars, cliVars
  <1>3. ASSUME NEW h \in Host, Boot(h) \/ PrepareBatch(h) \/ Send(h) \/
     SendRejected(h) \/ Verify(h) \/ Crash(h) \/ CommitFails(h) \/
     CommitDone(h)
       PROVE  saved \subseteq saved' /\ shown \subseteq shown'
    BY <1>3 DEF Boot, PrepareBatch, Send, SendRejected, Verify, Crash,
       CommitFails, CommitDone, fileVars, hostVars, talkVars, cliVars,
       Abandon, Close, Fault, Committing
  <1>4. ASSUME NEW h \in Host, NEW p \in left[h], LookAt(h, p) \/
     SaveProgress(h, p) \/ RecordRead(h, p) \/ WriteRead(h, p) \/ Validate(h,
     p) \/ Move(h, p) \/ ClearRead(h, p) \/ DropProgress(h, p)
       PROVE  saved \subseteq saved' /\ shown \subseteq shown'
    BY <1>4 DEF LookAt, SaveProgress, RecordRead, WriteRead, Validate, Move,
       ClearRead, DropProgress, fileVars, hostVars, talkVars, cliVars,
       Handled, At, Abandon, Close
  <1>5. ASSUME NEW r \in Reader, CliRecord(r) \/ CliWrite(r) \/ CliDies(r)
       PROVE  saved \subseteq saved' /\ shown \subseteq shown'
    BY <1>5 DEF CliRecord, CliWrite, CliDies, fileVars, hostVars, talkVars,
       cliVars, Runs, Fault
  <1>6. ASSUME NEW r \in Reader, NEW n \in Notice, CliCheck(r, n) \/
     CliMove(r, n) \/ CliClear(r, n)
       PROVE  saved \subseteq saved' /\ shown \subseteq shown'
    BY <1>6 DEF CliCheck, CliMove, CliClear, fileVars, hostVars, talkVars,
       cliVars, Runs
  <1>7. ASSUME NEW r \in Reader, NEW ids \in SUBSET Notice, InboxArchive(r,
     ids)
       PROVE  saved \subseteq saved' /\ shown \subseteq shown'
    BY <1>7 DEF InboxArchive, fileVars, hostVars, talkVars, cliVars, Runs,
       Starts
  <1>8. ASSUME NEW h \in Host, TurnDone(h)
       PROVE  saved \subseteq saved' /\ shown \subseteq shown'
    BY <1>8 DEF TurnDone, SavesHistory, Fault, fileVars, cliVars
  <1>9. ASSUME NEW h \in Host, TurnFails(h)
       PROVE  saved \subseteq saved' /\ shown \subseteq shown'
    BY <1>9 DEF TurnFails, Abandon, Close, Fault, SavesHistory, fileVars,
       cliVars
  <1>10. ASSUME NEW h \in Host, UserSpeaks(h)
       PROVE  saved \subseteq saved' /\ shown \subseteq shown'
    BY <1>10 DEF UserSpeaks, SavesHistory, fileVars, hostVars, cliVars
  <1>11. ASSUME NEW r \in Reader, NEW n \in Notice, NEW a \in 0..Units[n],
     NEW b \in 0..Units[n], InboxRead(r, n, a, b)
       PROVE  saved \subseteq saved' /\ shown \subseteq shown'
    BY <1>11 DEF InboxRead, Runs, Starts, fileVars, hostVars, talkVars
  <1>12. QED
    BY <1>1, <1>2, <1>3, <1>4, <1>5, <1>6, <1>7, <1>8, <1>9, <1>10, <1>11 DEF
       Next, Review, Commit, Command

\* A notice is published once and archived once.
PlaceStep(k) ==
  \/ place'[k] = place[k]
  \/ place[k] = "unsent" /\ place'[k] = "new"
  \/ place[k] = "new" /\ place'[k] = "archived"

\* Every step moves the place of every notice as PlaceStep says.
LEMMA StepPlace ==
  ASSUME TypeOK, [Next]_vars
  PROVE  \A k \in Notice : PlaceStep(k)
  <1>1. CASE UNCHANGED vars
    BY <1>1 DEF PlaceStep, TypeOK, vars, fileVars, hostVars, talkVars,
       cliVars
  <1>2. ASSUME NEW h \in Host, Boot(h) \/ PrepareBatch(h) \/ Send(h) \/
     SendRejected(h) \/ TurnDone(h) \/ TurnFails(h) \/ Verify(h) \/
     UserSpeaks(h) \/ Crash(h) \/ CommitFails(h) \/ CommitDone(h)
       PROVE  \A k \in Notice : PlaceStep(k)
    BY <1>2 DEF PlaceStep, TypeOK, Boot, PrepareBatch, Send, SendRejected,
       TurnDone, TurnFails, Verify, UserSpeaks, Crash, CommitFails,
       CommitDone, fileVars, hostVars, talkVars, cliVars, Abandon, Close,
       Fault, SavesHistory, Committing
  <1>3. ASSUME NEW h \in Host, NEW p \in left[h], LookAt(h, p) \/
     SaveProgress(h, p) \/ RecordRead(h, p) \/ WriteRead(h, p) \/ Validate(h,
     p) \/ ClearRead(h, p) \/ DropProgress(h, p)
       PROVE  \A k \in Notice : PlaceStep(k)
    BY <1>3 DEF PlaceStep, TypeOK, LookAt, SaveProgress, RecordRead,
       WriteRead, Validate, ClearRead, DropProgress, fileVars, hostVars,
       talkVars, cliVars, Handled, At, Abandon, Close
  <1>4. ASSUME NEW r \in Reader, CliRecord(r) \/ CliWrite(r) \/ CliDies(r)
       PROVE  \A k \in Notice : PlaceStep(k)
    BY <1>4 DEF PlaceStep, TypeOK, CliRecord, CliWrite, CliDies, fileVars,
       hostVars, talkVars, cliVars, Runs, Fault
  <1>5. ASSUME NEW r \in Reader, NEW n \in Notice, CliCheck(r, n) \/
     CliClear(r, n)
       PROVE  \A k \in Notice : PlaceStep(k)
    BY <1>5 DEF PlaceStep, TypeOK, CliCheck, CliClear, fileVars, hostVars,
       talkVars, cliVars, Runs
  <1>6. ASSUME NEW r \in Reader, NEW ids \in SUBSET Notice, InboxArchive(r,
     ids)
       PROVE  \A k \in Notice : PlaceStep(k)
    BY <1>6 DEF PlaceStep, TypeOK, InboxArchive, fileVars, hostVars,
       talkVars, cliVars, Runs, Starts
  <1>7. ASSUME NEW r \in Reader, NEW n \in Notice, NEW a \in 0..Units[n], NEW
     b \in 0..Units[n], InboxRead(r, n, a, b)
       PROVE  \A k \in Notice : PlaceStep(k)
    BY <1>7 DEF PlaceStep, TypeOK, InboxRead, fileVars, hostVars, talkVars,
       cliVars, Runs, Starts
  <1>8. ASSUME NEW n \in Notice, Notify(n)
       PROVE  \A k \in Notice : PlaceStep(k)
    BY <1>8 DEF PlaceStep, TypeOK, Notify, hostVars, talkVars, cliVars
  <1>9. ASSUME NEW h \in Host, NEW p \in left[h], Move(h, p)
       PROVE  \A k \in Notice : PlaceStep(k)
    BY <1>9 DEF PlaceStep, TypeOK, Move, Abandon, Close, At, cliVars
  <1>10. ASSUME NEW r \in Reader, NEW n \in Notice, CliMove(r, n)
       PROVE  \A k \in Notice : PlaceStep(k)
    BY <1>10 DEF PlaceStep, TypeOK, CliMove, Runs, hostVars, talkVars
  <1>11. QED
    BY <1>1, <1>2, <1>3, <1>4, <1>5, <1>6, <1>7, <1>8, <1>9, <1>10 DEF Next,
       Review, Commit, Command

\* The order of the notices.
LEMMA NextCreatedOK ==
  ASSUME TypeOK, CreatedOK, [Next]_vars
  PROVE  CreatedOK'
  <1>1. CASE UNCHANGED vars
    BY <1>1 DEF CreatedOK, vars, fileVars, hostVars, talkVars, cliVars
  <1>2. ASSUME NEW h \in Host, Boot(h) \/ PrepareBatch(h) \/ Send(h) \/
     SendRejected(h) \/ TurnDone(h) \/ TurnFails(h) \/ Verify(h) \/
     UserSpeaks(h) \/ Crash(h) \/ CommitFails(h) \/ CommitDone(h)
       PROVE  CreatedOK'
    BY <1>2 DEF CreatedOK, Boot, PrepareBatch, Send, SendRejected, TurnDone,
       TurnFails, Verify, UserSpeaks, Crash, CommitFails, CommitDone,
       fileVars, hostVars, talkVars, cliVars, Abandon, Close, Fault,
       SavesHistory, Committing
  <1>3. ASSUME NEW h \in Host, NEW p \in left[h], LookAt(h, p) \/
     SaveProgress(h, p) \/ RecordRead(h, p) \/ WriteRead(h, p) \/ Validate(h,
     p) \/ ClearRead(h, p) \/ DropProgress(h, p)
       PROVE  CreatedOK'
    BY <1>3 DEF CreatedOK, LookAt, SaveProgress, RecordRead, WriteRead,
       Validate, ClearRead, DropProgress, fileVars, hostVars, talkVars,
       cliVars, Handled, At, Abandon, Close
  <1>4. ASSUME NEW r \in Reader, CliRecord(r) \/ CliWrite(r) \/ CliDies(r)
       PROVE  CreatedOK'
    BY <1>4 DEF CreatedOK, CliRecord, CliWrite, CliDies, fileVars, hostVars,
       talkVars, cliVars, Runs, Fault
  <1>5. ASSUME NEW r \in Reader, NEW n \in Notice, CliCheck(r, n) \/
     CliClear(r, n)
       PROVE  CreatedOK'
    BY <1>5 DEF CreatedOK, CliCheck, CliClear, fileVars, hostVars, talkVars,
       cliVars, Runs
  <1>6. ASSUME NEW r \in Reader, NEW ids \in SUBSET Notice, InboxArchive(r,
     ids)
       PROVE  CreatedOK'
    BY <1>6 DEF CreatedOK, InboxArchive, fileVars, hostVars, talkVars,
       cliVars, Runs, Starts
  <1>7. ASSUME NEW r \in Reader, NEW n \in Notice, NEW a \in 0..Units[n], NEW
     b \in 0..Units[n], InboxRead(r, n, a, b)
       PROVE  CreatedOK'
    BY <1>7 DEF CreatedOK, InboxRead, fileVars, hostVars, talkVars, cliVars,
       Runs, Starts
  <1>8. ASSUME NEW n \in Notice, Notify(n)
       PROVE  CreatedOK'
    <2> DEFINE sent == {m \in Notice : place[m] # "unsent"}
    <2>1. /\ IsFiniteSet(sent) /\ n \notin sent
          /\ Cardinality(sent) \in Nat /\ Cardinality(sent \cup {n}) = Cardinality(sent) + 1
      BY <1>8, FS_Subset, FS_CardinalityType, FS_AddElement, InboxAssumption DEF Notify
    <2>2. {m \in Notice : place'[m] # "unsent"} = sent \cup {n}
      BY <1>8 DEF Notify, TypeOK
    <2>3. /\ created'[n] = Cardinality(sent) + 1 /\ place'[n] = "new"
          /\ \A m \in Notice \ {n} : created'[m] = created[m] /\ place'[m] = place[m]
      BY <1>8 DEF Notify, TypeOK
    <2>4. \A m \in Notice : created[m] \in Nat /\ created[m] <= Cardinality(sent)
      BY DEF TypeOK, CreatedOK
    <2> HIDE DEF sent
    <2>5. \A m \in Notice : place'[m] = "unsent" <=> created'[m] = 0
      BY <2>1, <2>3, <2>4 DEF CreatedOK
    <2>6. \A m \in Notice : created'[m] <= Cardinality(sent \cup {n})
      BY <2>1, <2>3, <2>4
    <2>7. ASSUME NEW k \in Notice, NEW m \in Notice, created'[k] = created'[m], created'[k] # 0
         PROVE  k = m
      BY <2>1, <2>3, <2>4, <2>7 DEF CreatedOK
    <2>8. QED
      BY <2>2, <2>5, <2>6, <2>7 DEF CreatedOK, sent
  <1>9. ASSUME NEW h \in Host, NEW p \in left[h], Move(h, p)
       PROVE  CreatedOK'
    <2>1. created' = created
      BY <1>9 DEF Move
    <2>2. \A n \in Notice : place'[n] = "unsent" <=> place[n] = "unsent"
      BY <1>9 DEF Move, TypeOK
    <2>3. {m \in Notice : place'[m] # "unsent"} = {m \in Notice : place[m] # "unsent"}
      BY <2>2
    <2>4. QED
      BY <2>1, <2>2, <2>3 DEF CreatedOK
  <1>10. ASSUME NEW r \in Reader, NEW n \in Notice, CliMove(r, n)
       PROVE  CreatedOK'
    <2>1. created' = created
      BY <1>10 DEF CliMove
    <2>2. \A m \in Notice : place'[m] = "unsent" <=> place[m] = "unsent"
      BY <1>10 DEF CliMove, TypeOK
    <2>3. {m \in Notice : place'[m] # "unsent"} = {m \in Notice : place[m] # "unsent"}
      BY <2>2
    <2>4. QED
      BY <2>1, <2>2, <2>3 DEF CreatedOK
  <1>11. QED
    BY <1>1, <1>2, <1>3, <1>4, <1>5, <1>6, <1>7, <1>8, <1>9, <1>10 DEF Next,
       Review, Commit, Command

\* One host delivers.
LEMMA NextLeaseOK ==
  ASSUME TypeOK, LeaseOK, [Next]_vars
  PROVE  LeaseOK'
  <1>1. CASE UNCHANGED vars
    BY <1>1 DEF LeaseOK, TypeOK, Committing, vars, fileVars, hostVars,
       talkVars, cliVars
  <1>2. ASSUME NEW n \in Notice, Notify(n)
       PROVE  LeaseOK'
    BY <1>2 DEF LeaseOK, TypeOK, Committing, Notify, fileVars, hostVars,
       talkVars, cliVars
  <1>3. ASSUME NEW h \in Host, UserSpeaks(h)
       PROVE  LeaseOK'
    BY <1>3 DEF LeaseOK, TypeOK, Committing, UserSpeaks, fileVars, hostVars,
       talkVars, cliVars, SavesHistory
  <1>4. ASSUME NEW r \in Reader, CliRecord(r) \/ CliWrite(r) \/ CliDies(r)
       PROVE  LeaseOK'
    BY <1>4 DEF LeaseOK, TypeOK, Committing, CliRecord, CliWrite, CliDies,
       fileVars, hostVars, talkVars, cliVars, Runs, Fault
  <1>5. ASSUME NEW r \in Reader, NEW n \in Notice, CliCheck(r, n) \/
     CliMove(r, n) \/ CliClear(r, n)
       PROVE  LeaseOK'
    BY <1>5 DEF LeaseOK, TypeOK, Committing, CliCheck, CliMove, CliClear,
       fileVars, hostVars, talkVars, cliVars, Runs
  <1>6. ASSUME NEW r \in Reader, NEW ids \in SUBSET Notice, InboxArchive(r,
     ids)
       PROVE  LeaseOK'
    BY <1>6 DEF LeaseOK, TypeOK, Committing, InboxArchive, fileVars,
       hostVars, talkVars, cliVars, Runs, Starts
  <1>7. ASSUME NEW r \in Reader, NEW n \in Notice, NEW a \in 0..Units[n], NEW
     b \in 0..Units[n], InboxRead(r, n, a, b)
       PROVE  LeaseOK'
    BY <1>7 DEF LeaseOK, TypeOK, Committing, InboxRead, fileVars, hostVars,
       talkVars, cliVars, Runs, Starts
  <1>8. ASSUME NEW h \in Host, Boot(h)
       PROVE  LeaseOK'
    BY <1>8 DEF LeaseOK, TypeOK, Committing, Boot, fileVars, talkVars,
       cliVars
  <1>9. ASSUME NEW h \in Host, PrepareBatch(h)
       PROVE  LeaseOK'
    BY <1>9 DEF LeaseOK, TypeOK, Committing, PrepareBatch, fileVars,
       talkVars, cliVars
  <1>10. ASSUME NEW h \in Host, Send(h)
       PROVE  LeaseOK'
    BY <1>10 DEF LeaseOK, TypeOK, Committing, Send, fileVars, cliVars
  <1>11. ASSUME NEW h \in Host, SendRejected(h)
       PROVE  LeaseOK'
    BY <1>11 DEF LeaseOK, TypeOK, Committing, SendRejected, Abandon, Close,
       Fault, fileVars, cliVars
  <1>12. ASSUME NEW h \in Host, TurnDone(h)
       PROVE  LeaseOK'
    BY <1>12 DEF LeaseOK, TypeOK, Committing, TurnDone, SavesHistory, Fault,
       fileVars, cliVars
  <1>13. ASSUME NEW h \in Host, TurnFails(h)
       PROVE  LeaseOK'
    BY <1>13 DEF LeaseOK, TypeOK, Committing, TurnFails, Abandon, Close,
       Fault, SavesHistory, fileVars, cliVars
  <1>14. ASSUME NEW h \in Host, Verify(h)
       PROVE  LeaseOK'
    BY <1>14 DEF LeaseOK, TypeOK, Committing, Verify, Abandon, Close, Fault,
       fileVars, cliVars
  <1>15. ASSUME NEW h \in Host, Crash(h)
       PROVE  LeaseOK'
    BY <1>15 DEF LeaseOK, TypeOK, Committing, Crash, Fault, fileVars, cliVars
  <1>16. ASSUME NEW h \in Host, CommitFails(h)
       PROVE  LeaseOK'
    BY <1>16 DEF LeaseOK, TypeOK, Committing, CommitFails, Abandon, Close,
       Fault, fileVars, cliVars
  <1>17. ASSUME NEW h \in Host, CommitDone(h)
       PROVE  LeaseOK'
    BY <1>17 DEF LeaseOK, TypeOK, Committing, CommitDone, Close, fileVars,
       talkVars, cliVars
  <1>18. ASSUME NEW h \in Host, NEW p \in left[h], LookAt(h, p)
       PROVE  LeaseOK'
    BY <1>18 DEF LeaseOK, TypeOK, Committing, First, LookAt, Handled, At,
       fileVars, talkVars, cliVars
  <1>19. ASSUME NEW h \in Host, NEW p \in left[h], SaveProgress(h, p)
       PROVE  LeaseOK'
    BY <1>19 DEF LeaseOK, TypeOK, Committing, First, SaveProgress, Handled,
       At, talkVars, cliVars
  <1>20. ASSUME NEW h \in Host, NEW p \in left[h], RecordRead(h, p)
       PROVE  LeaseOK'
    BY <1>20 DEF LeaseOK, TypeOK, Committing, RecordRead, Abandon, Close, At,
       fileVars, cliVars
  <1>21. ASSUME NEW h \in Host, NEW p \in left[h], WriteRead(h, p)
       PROVE  LeaseOK'
    BY <1>21 DEF LeaseOK, TypeOK, Committing, WriteRead, At, talkVars,
       cliVars
  <1>22. ASSUME NEW h \in Host, NEW p \in left[h], Validate(h, p)
       PROVE  LeaseOK'
    BY <1>22 DEF LeaseOK, TypeOK, Committing, Validate, Abandon, Close, At,
       fileVars, cliVars
  <1>23. ASSUME NEW h \in Host, NEW p \in left[h], Move(h, p)
       PROVE  LeaseOK'
    BY <1>23 DEF LeaseOK, TypeOK, Committing, Move, Abandon, Close, At,
       cliVars
  <1>24. ASSUME NEW h \in Host, NEW p \in left[h], ClearRead(h, p)
       PROVE  LeaseOK'
    BY <1>24 DEF LeaseOK, TypeOK, Committing, ClearRead, At, talkVars,
       cliVars
  <1>25. ASSUME NEW h \in Host, NEW p \in left[h], DropProgress(h, p)
       PROVE  LeaseOK'
    BY <1>25 DEF LeaseOK, TypeOK, Committing, First, DropProgress, Handled,
       At, talkVars, cliVars
  <1>26. QED
    BY <1>1, <1>2, <1>3, <1>4, <1>5, <1>6, <1>7, <1>8, <1>9, <1>10, <1>11,
       <1>12, <1>13, <1>14, <1>15, <1>16, <1>17, <1>18, <1>19, <1>20, <1>21,
       <1>22, <1>23, <1>24, <1>25 DEF Next, Review, Commit, Command

\* Commit works on a saved prefix of the notice.
LEMMA CommitSaved ==
  ASSUME TypeOK, LeaseOK, BatchOK, PromptOK, NEW h \in Host, NEW p \in left[h],
         pc[h] \in Committing
  PROVE  /\ p \in batch[h] /\ p \in Part /\ p.notice \in Notice
         /\ p.to \in 0..Units[p.notice]
         /\ Span(p.notice, 0, p.to) \subseteq saved
  <1>1. p \in batch[h] /\ p \in Part
    BY DEF LeaseOK, TypeOK
  <1>2. p.notice \in Notice /\ Units[p.notice] \in Nat
        /\ p.from \in 0..Units[p.notice] /\ p.to \in 0..Units[p.notice]
    BY <1>1, PartFields
  <1>3. p.from <= p.to /\ Span(p.notice, 0, p.from) \subseteq saved
    BY <1>1 DEF BatchOK
  <1>4. Span(p.notice, p.from, p.to) \subseteq saved
    BY <1>1, UnitsOfUnion DEF PromptOK
  <1>5. Span(p.notice, 0, p.to) = Span(p.notice, 0, p.from) \cup Span(p.notice, p.from, p.to)
    BY <1>2, <1>3, SpanSplit
  <1>6. QED
    BY <1>1, <1>2, <1>3, <1>4, <1>5

\* Commit has one part in hand.
LEMMA FirstUnique ==
  ASSUME TypeOK, CreatedOK, LeaseOK, BatchOK, NEW h \in Host,
         NEW p \in left[h], NEW q \in left[h], First(h, p), First(h, q)
  PROVE  p = q
  <1>1. p \in batch[h] /\ q \in batch[h] /\ p \in Part /\ q \in Part
    BY DEF LeaseOK, TypeOK
  <1>2. p.notice \in Notice /\ q.notice \in Notice
    BY <1>1, PartFields
  <1>3. created[p.notice] = created[q.notice]
    BY <1>2 DEF First, TypeOK
  <1>4. created[p.notice] # 0
    BY <1>1, <1>2 DEF BatchOK, CreatedOK
  <1>5. p.notice = q.notice
    BY <1>2, <1>3, <1>4 DEF CreatedOK
  <1>6. QED
    BY <1>1, <1>5 DEF BatchOK

\* The commands of the readers.
LEMMA NextCliOK ==
  ASSUME TypeOK, CliOK, ProgressFounded, [Next]_vars
  PROVE  CliOK'
  <1>1. CASE UNCHANGED vars
    BY <1>1 DEF CliOK, TypeOK, vars, fileVars, hostVars, talkVars, cliVars
  <1>2. ASSUME NEW n \in Notice, Notify(n)
       PROVE  CliOK'
    BY <1>2 DEF CliOK, TypeOK, Notify, fileVars, hostVars, talkVars, cliVars
  <1>3. ASSUME NEW h \in Host, Boot(h) \/ PrepareBatch(h) \/ Send(h) \/
     SendRejected(h) \/ Verify(h) \/ Crash(h) \/ CommitFails(h) \/
     CommitDone(h)
       PROVE  CliOK'
    BY <1>3 DEF CliOK, TypeOK, Boot, PrepareBatch, Send, SendRejected,
       Verify, Crash, CommitFails, CommitDone, fileVars, hostVars, talkVars,
       cliVars, Abandon, Close, Fault, Committing
  <1>4. ASSUME NEW h \in Host, NEW p \in left[h], LookAt(h, p) \/
     SaveProgress(h, p) \/ RecordRead(h, p) \/ WriteRead(h, p) \/ Validate(h,
     p) \/ Move(h, p) \/ ClearRead(h, p) \/ DropProgress(h, p)
       PROVE  CliOK'
    BY <1>4 DEF CliOK, TypeOK, LookAt, SaveProgress, RecordRead, WriteRead,
       Validate, Move, ClearRead, DropProgress, fileVars, hostVars, talkVars,
       cliVars, Handled, At, Abandon, Close
  <1>5. ASSUME NEW h \in Host, TurnDone(h)
       PROVE  CliOK'
    BY <1>5 DEF CliOK, TypeOK, TurnDone, SavesHistory, Fault, fileVars,
       cliVars
  <1>6. ASSUME NEW h \in Host, TurnFails(h)
       PROVE  CliOK'
    BY <1>6 DEF CliOK, TypeOK, TurnFails, Abandon, Close, Fault,
       SavesHistory, fileVars, cliVars
  <1>7. ASSUME NEW h \in Host, UserSpeaks(h)
       PROVE  CliOK'
    BY <1>7 DEF CliOK, TypeOK, UserSpeaks, SavesHistory, fileVars, hostVars,
       cliVars
  <1>8. ASSUME NEW r \in Reader, NEW n \in Notice, NEW a \in 0..Units[n], NEW
     b \in 0..Units[n], InboxRead(r, n, a, b)
       PROVE  CliOK'
    <2>1. Units[n] \in Nat
      BY InboxAssumption
    <2>2. cli' = [cli EXCEPT ![r] = [op |-> "record", notice |-> n, from |-> a, to |-> b]]
      BY <1>8 DEF InboxRead, Runs
    <2>3. shown' = shown \cup Span(n, a, b) /\ saved' = saved
      BY <1>8 DEF InboxRead, talkVars
    <2>4. QED
      BY <2>2, <2>3 DEF CliOK, TypeOK
  <1>9. ASSUME NEW r \in Reader, CliRecord(r)
       PROVE  CliOK'
    <2> DEFINE n == cli[r].notice
               a == cli[r].from
               b == cli[r].to
    <2>1. n \in Notice /\ Units[n] \in Nat /\ a \in 0..Units[n] /\ b \in 0..Units[n]
      BY <1>9, ReadCommandFields DEF TypeOK, CliRecord
    <2>2. Span(n, a, b) \subseteq shown
      BY <1>9 DEF CliOK, CliRecord
    <2>3. /\ saved' = saved /\ shown' = shown
          /\ \/ /\ a <= read[n] /\ read[n] < b
                /\ cli' = [cli EXCEPT ![r] = [op |-> "write", notice |-> n, from |-> a, to |-> b]]
             \/ cli' = [cli EXCEPT ![r] = Resting]
      BY <1>9 DEF CliRecord, Runs, talkVars
    <2> HIDE DEF n, a, b
    <2>4. CASE /\ a <= read[n] /\ read[n] < b
               /\ cli' = [cli EXCEPT ![r] = [op |-> "write", notice |-> n, from |-> a, to |-> b]]
      <3>1. PICK m, x, y, z : m = n /\ x = a /\ y = b /\ z = read[n]
        OBVIOUS
      <3>2. x \in Int /\ y \in Int /\ z \in Int /\ 0 <= x /\ x <= z /\ x <= y
        BY <2>1, <2>4, <3>1 DEF TypeOK
      <3>3. Span(m, 0, y) = Span(m, 0, x) \cup Span(m, x, y)
        BY <3>2, SpanSplit
      <3>4. Span(m, 0, z) = Span(m, 0, x) \cup Span(m, x, z)
        BY <3>2, SpanSplit
      <3>5. Span(m, 0, z) \subseteq saved \cup shown
        BY <2>1, <3>1 DEF ProgressFounded
      <3>6. Span(n, 0, b) \subseteq saved \cup shown
        BY <2>2, <3>1, <3>3, <3>4, <3>5
      <3>7. QED
        BY <2>3, <2>4, <3>6 DEF CliOK, TypeOK
    <2>5. CASE cli' = [cli EXCEPT ![r] = Resting]
      BY <2>3, <2>5 DEF CliOK, TypeOK, Resting
    <2>6. QED
      BY <2>3, <2>4, <2>5
  <1>10. ASSUME NEW r \in Reader, CliWrite(r)
       PROVE  CliOK'
    BY <1>10 DEF CliOK, TypeOK, Resting, CliWrite, Runs, hostVars, talkVars
  <1>11. ASSUME NEW r \in Reader, CliDies(r)
       PROVE  CliOK'
    BY <1>11 DEF CliOK, TypeOK, Resting, CliDies, Runs, Fault, fileVars,
       hostVars, talkVars
  <1>12. ASSUME NEW r \in Reader, NEW ids \in SUBSET Notice, InboxArchive(r,
     ids)
       PROVE  CliOK'
    BY <1>12 DEF CliOK, TypeOK, InboxArchive, Runs, Starts, fileVars,
       hostVars, talkVars
  <1>13. ASSUME NEW r \in Reader, NEW n \in Notice, CliCheck(r, n)
       PROVE  CliOK'
    <2>1. CASE FullyRead(n)
      <3>1. Span(n, 0, Units[n]) \subseteq saved \cup shown
        BY <2>1 DEF FullyRead, ProgressFounded
      <3>2. QED
        BY <1>13, <3>1 DEF CliOK, TypeOK, CliCheck, Runs, Resting, talkVars
    <2>2. CASE ~FullyRead(n)
      BY <1>13, <2>2 DEF CliOK, TypeOK, CliCheck, Runs, Resting, talkVars
    <2>3. QED
      BY <2>1, <2>2
  <1>14. ASSUME NEW r \in Reader, NEW n \in Notice, CliMove(r, n)
       PROVE  CliOK'
    BY <1>14, ArchiveCommandFields DEF CliOK, TypeOK, Resting, CliMove, Runs,
       hostVars, talkVars
  <1>15. ASSUME NEW r \in Reader, NEW n \in Notice, CliClear(r, n)
       PROVE  CliOK'
    BY <1>15, ArchiveCommandFields DEF CliOK, TypeOK, Resting, CliClear,
       Runs, hostVars, talkVars
  <1>16. QED
    BY <1>1, <1>2, <1>3, <1>4, <1>5, <1>6, <1>7, <1>8, <1>9, <1>10, <1>11,
       <1>12, <1>13, <1>14, <1>15 DEF Next, Review, Commit, Command

\* What the progress files stand for.
LEMMA NextProgressFounded ==
  ASSUME TypeOK, LeaseOK, BatchOK, PromptOK, CliOK, ProgressFounded,
     [Next]_vars
  PROVE  ProgressFounded'
  <1>1. CASE UNCHANGED vars
    BY <1>1 DEF ProgressFounded, vars, fileVars, hostVars, talkVars, cliVars
  <1>2. ASSUME NEW n \in Notice, Notify(n)
       PROVE  ProgressFounded'
    BY <1>2 DEF ProgressFounded, Notify, fileVars, hostVars, talkVars,
       cliVars
  <1>3. ASSUME NEW h \in Host, Boot(h) \/ PrepareBatch(h) \/ Send(h) \/
     SendRejected(h) \/ Verify(h) \/ Crash(h) \/ CommitFails(h) \/
     CommitDone(h)
       PROVE  ProgressFounded'
    BY <1>3 DEF ProgressFounded, Boot, PrepareBatch, Send, SendRejected,
       Verify, Crash, CommitFails, CommitDone, fileVars, hostVars, talkVars,
       cliVars, Abandon, Close, Fault, Committing
  <1>4. ASSUME NEW h \in Host, NEW p \in left[h], LookAt(h, p) \/
     RecordRead(h, p) \/ Validate(h, p) \/ Move(h, p)
       PROVE  ProgressFounded'
    BY <1>4 DEF ProgressFounded, LookAt, RecordRead, Validate, Move,
       fileVars, hostVars, talkVars, cliVars, Handled, At, Abandon, Close
  <1>5. ASSUME NEW r \in Reader, CliRecord(r) \/ CliDies(r)
       PROVE  ProgressFounded'
    BY <1>5 DEF ProgressFounded, CliRecord, CliDies, fileVars, hostVars,
       talkVars, cliVars, Runs, Fault
  <1>6. ASSUME NEW r \in Reader, NEW n \in Notice, CliCheck(r, n) \/
     CliMove(r, n)
       PROVE  ProgressFounded'
    BY <1>6 DEF ProgressFounded, CliCheck, CliMove, fileVars, hostVars,
       talkVars, cliVars, Runs
  <1>7. ASSUME NEW r \in Reader, NEW ids \in SUBSET Notice, InboxArchive(r,
     ids)
       PROVE  ProgressFounded'
    BY <1>7 DEF ProgressFounded, InboxArchive, fileVars, hostVars, talkVars,
       cliVars, Runs, Starts
  <1>8. ASSUME NEW h \in Host, TurnDone(h)
       PROVE  ProgressFounded'
    BY <1>8 DEF ProgressFounded, TurnDone, SavesHistory, Fault, fileVars,
       cliVars
  <1>9. ASSUME NEW h \in Host, TurnFails(h)
       PROVE  ProgressFounded'
    BY <1>9 DEF ProgressFounded, TurnFails, Abandon, Close, Fault,
       SavesHistory, fileVars, cliVars
  <1>10. ASSUME NEW h \in Host, UserSpeaks(h)
       PROVE  ProgressFounded'
    BY <1>10 DEF ProgressFounded, UserSpeaks, SavesHistory, fileVars,
       hostVars, cliVars
  <1>11. ASSUME NEW h \in Host, NEW p \in left[h], SaveProgress(h, p)
       PROVE  ProgressFounded'
    <2>1. p.notice \in Notice /\ Span(p.notice, 0, p.to) \subseteq saved
      BY <1>11, CommitSaved DEF SaveProgress, Committing
    <2>2. delivered' = [delivered EXCEPT ![p.notice] = p.to]
      BY <1>11 DEF SaveProgress
    <2>3. QED
      BY <1>11, <2>1, <2>2 DEF ProgressFounded, TypeOK, SaveProgress, talkVars, cliVars
  <1>12. ASSUME NEW h \in Host, NEW p \in left[h], WriteRead(h, p)
       PROVE  ProgressFounded'
    <2>1. p.notice \in Notice /\ Span(p.notice, 0, p.to) \subseteq saved
      BY <1>12, CommitSaved DEF WriteRead, Committing
    <2>2. read' = [read EXCEPT ![p.notice] = p.to]
      BY <1>12 DEF WriteRead
    <2>3. QED
      BY <1>12, <2>1, <2>2 DEF ProgressFounded, TypeOK, WriteRead, talkVars, cliVars
  <1>13. ASSUME NEW h \in Host, NEW p \in left[h], ClearRead(h, p)
       PROVE  ProgressFounded'
    BY <1>13, SpanEmpty DEF ProgressFounded, TypeOK, ClearRead, At, talkVars,
       cliVars
  <1>14. ASSUME NEW h \in Host, NEW p \in left[h], DropProgress(h, p)
       PROVE  ProgressFounded'
    BY <1>14, SpanEmpty, PartFields DEF ProgressFounded, First, TypeOK,
       DropProgress, Handled, At, talkVars, cliVars
  <1>15. ASSUME NEW r \in Reader, NEW n \in Notice, NEW a \in 0..Units[n],
     NEW b \in 0..Units[n], InboxRead(r, n, a, b)
       PROVE  ProgressFounded'
    BY <1>15 DEF ProgressFounded, InboxRead, Runs, Starts, fileVars,
       hostVars, talkVars
  <1>16. ASSUME NEW r \in Reader, CliWrite(r)
       PROVE  ProgressFounded'
    BY <1>16, ReadCommandFields DEF ProgressFounded, CliOK, TypeOK, CliWrite,
       Runs, hostVars, talkVars
  <1>17. ASSUME NEW r \in Reader, NEW n \in Notice, CliClear(r, n)
       PROVE  ProgressFounded'
    BY <1>17, SpanEmpty DEF ProgressFounded, TypeOK, CliClear, Runs,
       hostVars, talkVars
  <1>18. QED
    BY <1>1, <1>2, <1>3, <1>4, <1>5, <1>6, <1>7, <1>8, <1>9, <1>10, <1>11,
       <1>12, <1>13, <1>14, <1>15, <1>16, <1>17 DEF Next, Review, Commit,
       Command

\* What the archive stands for.
LEMMA NextNothingSkipped ==
  ASSUME TypeOK, LeaseOK, BatchOK, PromptOK, StageOK, CliOK, NothingSkipped,
     [Next]_vars
  PROVE  NothingSkipped'
  <1>1. CASE UNCHANGED vars
    BY <1>1 DEF NothingSkipped, vars, fileVars, hostVars, talkVars, cliVars
  <1>2. ASSUME NEW h \in Host, Boot(h) \/ PrepareBatch(h) \/ Send(h) \/
     SendRejected(h) \/ Verify(h) \/ Crash(h) \/ CommitFails(h) \/
     CommitDone(h)
       PROVE  NothingSkipped'
    BY <1>2 DEF NothingSkipped, Boot, PrepareBatch, Send, SendRejected,
       Verify, Crash, CommitFails, CommitDone, fileVars, hostVars, talkVars,
       cliVars, Abandon, Close, Fault, Committing
  <1>3. ASSUME NEW h \in Host, NEW p \in left[h], LookAt(h, p) \/
     SaveProgress(h, p) \/ RecordRead(h, p) \/ WriteRead(h, p) \/ Validate(h,
     p) \/ ClearRead(h, p) \/ DropProgress(h, p)
       PROVE  NothingSkipped'
    BY <1>3 DEF NothingSkipped, LookAt, SaveProgress, RecordRead, WriteRead,
       Validate, ClearRead, DropProgress, fileVars, hostVars, talkVars,
       cliVars, Handled, At, Abandon, Close
  <1>4. ASSUME NEW r \in Reader, CliRecord(r) \/ CliWrite(r) \/ CliDies(r)
       PROVE  NothingSkipped'
    BY <1>4 DEF NothingSkipped, CliRecord, CliWrite, CliDies, fileVars,
       hostVars, talkVars, cliVars, Runs, Fault
  <1>5. ASSUME NEW r \in Reader, NEW n \in Notice, CliCheck(r, n) \/
     CliClear(r, n)
       PROVE  NothingSkipped'
    BY <1>5 DEF NothingSkipped, CliCheck, CliClear, fileVars, hostVars,
       talkVars, cliVars, Runs
  <1>6. ASSUME NEW r \in Reader, NEW ids \in SUBSET Notice, InboxArchive(r,
     ids)
       PROVE  NothingSkipped'
    BY <1>6 DEF NothingSkipped, InboxArchive, fileVars, hostVars, talkVars,
       cliVars, Runs, Starts
  <1>7. ASSUME NEW n \in Notice, Notify(n)
       PROVE  NothingSkipped'
    BY <1>7 DEF NothingSkipped, TypeOK, Notify, hostVars, talkVars, cliVars
  <1>8. ASSUME NEW h \in Host, TurnDone(h)
       PROVE  NothingSkipped'
    BY <1>8 DEF NothingSkipped, TurnDone, SavesHistory, Fault, fileVars,
       cliVars
  <1>9. ASSUME NEW h \in Host, TurnFails(h)
       PROVE  NothingSkipped'
    BY <1>9 DEF NothingSkipped, TurnFails, Abandon, Close, Fault,
       SavesHistory, fileVars, cliVars
  <1>10. ASSUME NEW h \in Host, UserSpeaks(h)
       PROVE  NothingSkipped'
    BY <1>10 DEF NothingSkipped, UserSpeaks, SavesHistory, fileVars,
       hostVars, cliVars
  <1>11. ASSUME NEW h \in Host, NEW p \in left[h], Move(h, p)
       PROVE  NothingSkipped'
    <2>1. /\ p.notice \in Notice /\ Span(p.notice, 0, p.to) \subseteq saved
          /\ First(h, p) /\ pc[h] = "move"
      BY <1>11, CommitSaved DEF Move, Committing
    <2>2. p.to = Units[p.notice]
      BY <2>1 DEF StageOK, Full
    <2>3. place' = [place EXCEPT ![p.notice] = "archived"] \/ place' = place
      BY <1>11 DEF Move
    <2>4. saved' = saved /\ shown' = shown
      BY <1>11 DEF Move, cliVars
    <2>5. QED
      BY <2>1, <2>2, <2>3, <2>4 DEF NothingSkipped, TypeOK
  <1>12. ASSUME NEW r \in Reader, NEW n \in Notice, NEW a \in 0..Units[n],
     NEW b \in 0..Units[n], InboxRead(r, n, a, b)
       PROVE  NothingSkipped'
    BY <1>12 DEF NothingSkipped, InboxRead, Runs, Starts, fileVars, hostVars,
       talkVars
  <1>13. ASSUME NEW r \in Reader, NEW n \in Notice, CliMove(r, n)
       PROVE  NothingSkipped'
    BY <1>13 DEF NothingSkipped, CliOK, TypeOK, CliMove, Runs, hostVars,
       talkVars
  <1>14. QED
    BY <1>1, <1>2, <1>3, <1>4, <1>5, <1>6, <1>7, <1>8, <1>9, <1>10, <1>11,
       <1>12, <1>13 DEF Next, Review, Commit, Command

\* What is in the saved conversation.
LEMMA NextPromptOK ==
  ASSUME TypeOK, LeaseOK, PromptOK, [Next]_vars
  PROVE  PromptOK'
  <1>1. CASE UNCHANGED vars
    BY <1>1 DEF PromptOK, TypeOK, Committing, vars, fileVars, hostVars,
       talkVars, cliVars
  <1>2. ASSUME NEW n \in Notice, Notify(n)
       PROVE  PromptOK'
    BY <1>2 DEF PromptOK, TypeOK, Committing, Notify, fileVars, hostVars,
       talkVars, cliVars
  <1>3. ASSUME NEW r \in Reader, CliRecord(r) \/ CliWrite(r) \/ CliDies(r)
       PROVE  PromptOK'
    BY <1>3 DEF PromptOK, TypeOK, Committing, CliRecord, CliWrite, CliDies,
       fileVars, hostVars, talkVars, cliVars, Runs, Fault
  <1>4. ASSUME NEW r \in Reader, NEW n \in Notice, CliCheck(r, n) \/
     CliMove(r, n) \/ CliClear(r, n)
       PROVE  PromptOK'
    BY <1>4 DEF PromptOK, TypeOK, Committing, CliCheck, CliMove, CliClear,
       fileVars, hostVars, talkVars, cliVars, Runs
  <1>5. ASSUME NEW r \in Reader, NEW ids \in SUBSET Notice, InboxArchive(r,
     ids)
       PROVE  PromptOK'
    BY <1>5 DEF PromptOK, TypeOK, Committing, InboxArchive, fileVars,
       hostVars, talkVars, cliVars, Runs, Starts
  <1>6. ASSUME NEW r \in Reader, NEW n \in Notice, NEW a \in 0..Units[n], NEW
     b \in 0..Units[n], InboxRead(r, n, a, b)
       PROVE  PromptOK'
    BY <1>6 DEF PromptOK, TypeOK, Committing, InboxRead, fileVars, hostVars,
       talkVars, cliVars, Runs, Starts
  <1>7. ASSUME NEW h \in Host, Boot(h)
       PROVE  PromptOK'
    BY <1>7 DEF PromptOK, TypeOK, Committing, Boot, fileVars, talkVars,
       cliVars
  <1>8. ASSUME NEW h \in Host, PrepareBatch(h)
       PROVE  PromptOK'
    BY <1>8 DEF PromptOK, TypeOK, Committing, LeaseOK, PrepareBatch,
       fileVars, talkVars, cliVars
  <1>9. ASSUME NEW h \in Host, Send(h)
       PROVE  PromptOK'
    BY <1>9, UnitsOfUnion DEF PromptOK, TypeOK, Committing, Send, fileVars,
       cliVars
  <1>10. ASSUME NEW h \in Host, SendRejected(h)
       PROVE  PromptOK'
    BY <1>10 DEF PromptOK, TypeOK, Committing, SendRejected, Abandon, Close,
       Fault, fileVars, cliVars
  <1>11. ASSUME NEW h \in Host, TurnDone(h)
       PROVE  PromptOK'
    BY <1>11 DEF PromptOK, TypeOK, Committing, TurnDone, SavesHistory, Fault,
       fileVars, cliVars
  <1>12. ASSUME NEW h \in Host, TurnFails(h)
       PROVE  PromptOK'
    BY <1>12 DEF PromptOK, TypeOK, Committing, TurnFails, Abandon, Close,
       Fault, SavesHistory, fileVars, cliVars
  <1>13. ASSUME NEW h \in Host, Verify(h)
       PROVE  PromptOK'
    <2>1. saved' = saved /\ unsaved' = unsaved
      BY <1>13 DEF Verify
    <2>2. CASE pc' = [pc EXCEPT ![h] = "commit"] /\ batch' = batch /\ unsaved[h] = {}
      <3>1. UnitsOf(batch[h]) \subseteq saved
        BY <1>13, <2>2, UnitsOfUnion DEF PromptOK, Verify
      <3>2. QED
        BY <2>1, <2>2, <3>1 DEF PromptOK, TypeOK, Committing
    <2>3. CASE Close(h)
      BY <2>1, <2>3 DEF PromptOK, TypeOK, Committing, Close
    <2>4. QED
      BY <1>13, <2>2, <2>3 DEF Verify, Abandon
  <1>14. ASSUME NEW h \in Host, UserSpeaks(h)
       PROVE  PromptOK'
    BY <1>14 DEF PromptOK, TypeOK, Committing, UserSpeaks, SavesHistory,
       fileVars, hostVars, cliVars
  <1>15. ASSUME NEW h \in Host, Crash(h)
       PROVE  PromptOK'
    BY <1>15 DEF PromptOK, TypeOK, Committing, Crash, Fault, fileVars,
       cliVars
  <1>16. ASSUME NEW h \in Host, CommitFails(h)
       PROVE  PromptOK'
    BY <1>16 DEF PromptOK, TypeOK, Committing, CommitFails, Abandon, Close,
       Fault, fileVars, cliVars
  <1>17. ASSUME NEW h \in Host, CommitDone(h)
       PROVE  PromptOK'
    BY <1>17 DEF PromptOK, TypeOK, Committing, CommitDone, Close, fileVars,
       talkVars, cliVars
  <1>18. ASSUME NEW h \in Host, NEW p \in left[h], LookAt(h, p)
       PROVE  PromptOK'
    BY <1>18 DEF PromptOK, TypeOK, Committing, LookAt, Handled, At, fileVars,
       talkVars, cliVars
  <1>19. ASSUME NEW h \in Host, NEW p \in left[h], SaveProgress(h, p)
       PROVE  PromptOK'
    BY <1>19 DEF PromptOK, TypeOK, Committing, SaveProgress, Handled, At,
       talkVars, cliVars
  <1>20. ASSUME NEW h \in Host, NEW p \in left[h], RecordRead(h, p)
       PROVE  PromptOK'
    BY <1>20 DEF PromptOK, TypeOK, Committing, RecordRead, Abandon, Close,
       At, fileVars, cliVars
  <1>21. ASSUME NEW h \in Host, NEW p \in left[h], WriteRead(h, p)
       PROVE  PromptOK'
    BY <1>21 DEF PromptOK, TypeOK, Committing, WriteRead, At, talkVars,
       cliVars
  <1>22. ASSUME NEW h \in Host, NEW p \in left[h], Validate(h, p)
       PROVE  PromptOK'
    BY <1>22 DEF PromptOK, TypeOK, Committing, Validate, Abandon, Close, At,
       fileVars, cliVars
  <1>23. ASSUME NEW h \in Host, NEW p \in left[h], Move(h, p)
       PROVE  PromptOK'
    BY <1>23 DEF PromptOK, TypeOK, Committing, Move, Abandon, Close, At,
       cliVars
  <1>24. ASSUME NEW h \in Host, NEW p \in left[h], ClearRead(h, p)
       PROVE  PromptOK'
    BY <1>24 DEF PromptOK, TypeOK, Committing, ClearRead, At, talkVars,
       cliVars
  <1>25. ASSUME NEW h \in Host, NEW p \in left[h], DropProgress(h, p)
       PROVE  PromptOK'
    BY <1>25 DEF PromptOK, TypeOK, Committing, DropProgress, Handled, At,
       talkVars, cliVars
  <1>26. QED
    BY <1>1, <1>2, <1>3, <1>4, <1>5, <1>6, <1>7, <1>8, <1>9, <1>10, <1>11,
       <1>12, <1>13, <1>14, <1>15, <1>16, <1>17, <1>18, <1>19, <1>20, <1>21,
       <1>22, <1>23, <1>24, <1>25 DEF Next, Review, Commit, Command

\* What the leased batch stands for.
LEMMA NextBatchOK ==
  ASSUME TypeOK, CreatedOK, LeaseOK, BatchOK, StageOK, ProgressFounded,
     [Next]_vars
  PROVE  BatchOK'
  <1>1. CASE UNCHANGED vars
    BY <1>1 DEF BatchOK, TypeOK, Committing, vars, fileVars, hostVars,
       talkVars, cliVars
  <1>2. ASSUME NEW r \in Reader, CliRecord(r) \/ CliWrite(r) \/ CliDies(r)
       PROVE  BatchOK'
    BY <1>2 DEF BatchOK, TypeOK, Committing, CliRecord, CliWrite, CliDies,
       fileVars, hostVars, talkVars, cliVars, Runs, Fault
  <1>3. ASSUME NEW r \in Reader, NEW n \in Notice, CliCheck(r, n) \/
     CliClear(r, n)
       PROVE  BatchOK'
    BY <1>3 DEF BatchOK, TypeOK, Committing, CliCheck, CliClear, fileVars,
       hostVars, talkVars, cliVars, Runs
  <1>4. ASSUME NEW r \in Reader, NEW ids \in SUBSET Notice, InboxArchive(r,
     ids)
       PROVE  BatchOK'
    BY <1>4 DEF BatchOK, TypeOK, Committing, InboxArchive, fileVars,
       hostVars, talkVars, cliVars, Runs, Starts
  <1>5. ASSUME NEW r \in Reader, NEW n \in Notice, NEW a \in 0..Units[n], NEW
     b \in 0..Units[n], InboxRead(r, n, a, b)
       PROVE  BatchOK'
    BY <1>5 DEF BatchOK, TypeOK, Committing, InboxRead, fileVars, hostVars,
       talkVars, cliVars, Runs, Starts
  <1>6. ASSUME NEW n \in Notice, Notify(n)
       PROVE  BatchOK'
    BY <1>6, StepGrows, StepPlace, PartFields DEF BatchOK, TypeOK,
       Committing, PlaceStep, LeaseOK, Notify, hostVars, talkVars, cliVars
  <1>7. ASSUME NEW h \in Host, Boot(h)
       PROVE  BatchOK'
    BY <1>7, StepGrows, StepPlace, PartFields DEF BatchOK, TypeOK,
       Committing, PlaceStep, LeaseOK, Boot, fileVars, talkVars, cliVars
  <1>8. ASSUME NEW h \in Host, PrepareBatch(h)
       PROVE  BatchOK'
    <2>1. /\ pc' = [pc EXCEPT ![h] = "leased"] /\ batch' = [batch EXCEPT ![h] = NextBatch]
          /\ left' = left /\ place' = place /\ delivered' = delivered /\ saved' = saved
      BY <1>8 DEF PrepareBatch, fileVars, talkVars
    <2>2. ASSUME NEW p \in NextBatch
          PROVE  /\ p.from <= p.to /\ place[p.notice] # "unsent"
                 /\ Span(p.notice, 0, p.from) \subseteq saved
                 /\ delivered[p.notice] = p.from
                 /\ \A q \in NextBatch : q.notice = p.notice => q = p
      BY NextBatchParts DEF ProgressFounded
    <2>3. QED
      BY <2>1, <2>2 DEF BatchOK, TypeOK, Committing
  <1>9. ASSUME NEW h \in Host, Send(h)
       PROVE  BatchOK'
    BY <1>9, StepGrows, StepPlace, PartFields DEF BatchOK, TypeOK,
       Committing, PlaceStep, LeaseOK, Send, fileVars, cliVars
  <1>10. ASSUME NEW h \in Host, SendRejected(h)
       PROVE  BatchOK'
    BY <1>10, StepGrows, StepPlace, PartFields DEF BatchOK, TypeOK,
       Committing, PlaceStep, LeaseOK, SendRejected, Abandon, Close, Fault,
       fileVars, cliVars
  <1>11. ASSUME NEW h \in Host, TurnDone(h)
       PROVE  BatchOK'
    BY <1>11, StepGrows, StepPlace, PartFields DEF BatchOK, TypeOK,
       Committing, PlaceStep, LeaseOK, TurnDone, SavesHistory, Fault,
       fileVars, cliVars
  <1>12. ASSUME NEW h \in Host, TurnFails(h)
       PROVE  BatchOK'
    BY <1>12, StepGrows, StepPlace, PartFields DEF BatchOK, TypeOK,
       Committing, PlaceStep, LeaseOK, TurnFails, Abandon, Close, Fault,
       SavesHistory, fileVars, cliVars
  <1>13. ASSUME NEW h \in Host, Verify(h)
       PROVE  BatchOK'
    BY <1>13, StepGrows, StepPlace, PartFields DEF BatchOK, TypeOK,
       Committing, PlaceStep, LeaseOK, Verify, Abandon, Close, Fault,
       fileVars, cliVars
  <1>14. ASSUME NEW h \in Host, UserSpeaks(h)
       PROVE  BatchOK'
    BY <1>14, StepGrows, StepPlace, PartFields DEF BatchOK, TypeOK,
       Committing, PlaceStep, LeaseOK, UserSpeaks, SavesHistory, fileVars,
       hostVars, cliVars
  <1>15. ASSUME NEW h \in Host, Crash(h)
       PROVE  BatchOK'
    BY <1>15, StepGrows, StepPlace, PartFields DEF BatchOK, TypeOK,
       Committing, PlaceStep, LeaseOK, Crash, Fault, fileVars, cliVars
  <1>16. ASSUME NEW h \in Host, CommitFails(h)
       PROVE  BatchOK'
    BY <1>16, StepGrows, StepPlace, PartFields DEF BatchOK, TypeOK,
       Committing, PlaceStep, LeaseOK, CommitFails, Abandon, Close, Fault,
       fileVars, cliVars
  <1>17. ASSUME NEW h \in Host, CommitDone(h)
       PROVE  BatchOK'
    BY <1>17, StepGrows, StepPlace, PartFields DEF BatchOK, TypeOK,
       Committing, PlaceStep, LeaseOK, CommitDone, Close, fileVars, talkVars,
       cliVars
  <1>18. ASSUME NEW h \in Host, NEW p \in left[h], LookAt(h, p)
       PROVE  BatchOK'
    BY <1>18, StepGrows, StepPlace, PartFields DEF BatchOK, TypeOK,
       Committing, PlaceStep, LeaseOK, LookAt, Handled, At, fileVars,
       talkVars, cliVars
  <1>19. ASSUME NEW h \in Host, NEW p \in left[h], SaveProgress(h, p)
       PROVE  BatchOK'
    BY <1>19, StepGrows, StepPlace, PartFields DEF BatchOK, TypeOK,
       Committing, PlaceStep, LeaseOK, SaveProgress, Handled, At, talkVars,
       cliVars
  <1>20. ASSUME NEW h \in Host, NEW p \in left[h], RecordRead(h, p)
       PROVE  BatchOK'
    BY <1>20, StepGrows, StepPlace, PartFields DEF BatchOK, TypeOK,
       Committing, PlaceStep, LeaseOK, RecordRead, Abandon, Close, At,
       fileVars, cliVars
  <1>21. ASSUME NEW h \in Host, NEW p \in left[h], WriteRead(h, p)
       PROVE  BatchOK'
    BY <1>21, StepGrows, StepPlace, PartFields DEF BatchOK, TypeOK,
       Committing, PlaceStep, LeaseOK, WriteRead, At, talkVars, cliVars
  <1>22. ASSUME NEW h \in Host, NEW p \in left[h], Validate(h, p)
       PROVE  BatchOK'
    BY <1>22, StepGrows, StepPlace, PartFields DEF BatchOK, TypeOK,
       Committing, PlaceStep, LeaseOK, Validate, Abandon, Close, At,
       fileVars, cliVars
  <1>23. ASSUME NEW h \in Host, NEW p \in left[h], Move(h, p)
       PROVE  BatchOK'
    BY <1>23, StepGrows, StepPlace, PartFields DEF BatchOK, TypeOK,
       Committing, PlaceStep, LeaseOK, Move, Abandon, Close, At, cliVars
  <1>24. ASSUME NEW h \in Host, NEW p \in left[h], ClearRead(h, p)
       PROVE  BatchOK'
    BY <1>24, StepGrows, StepPlace, PartFields DEF BatchOK, TypeOK,
       Committing, PlaceStep, LeaseOK, ClearRead, At, talkVars, cliVars
  <1>25. ASSUME NEW h \in Host, NEW p \in left[h], DropProgress(h, p)
       PROVE  BatchOK'
    <2>1. /\ place' = place /\ batch' = batch /\ saved' = saved
          /\ pc' = [pc EXCEPT ![h] = "commit"] /\ left' = [left EXCEPT ![h] = left[h] \ {p}]
          /\ delivered' = [delivered EXCEPT ![p.notice] = 0]
      BY <1>25 DEF DropProgress, Handled, At, talkVars
    <2>2. pc[h] = "drop" /\ place[p.notice] = "archived" /\ p \in batch[h]
      BY <1>25 DEF DropProgress, StageOK, LeaseOK
    <2>3. \A g \in Host : g # h => batch[g] = {}
      BY <2>2 DEF LeaseOK
    <2>4. \A q \in batch[h] : q.notice \in Notice
      BY PartFields DEF TypeOK
    <2>5. QED
      BY <2>1, <2>2, <2>3, <2>4 DEF BatchOK, TypeOK, Committing
  <1>26. ASSUME NEW r \in Reader, NEW n \in Notice, CliMove(r, n)
       PROVE  BatchOK'
    BY <1>26, StepGrows, StepPlace, PartFields DEF BatchOK, TypeOK,
       Committing, PlaceStep, LeaseOK, CliMove, Runs, hostVars, talkVars
  <1>27. QED
    BY <1>1, <1>2, <1>3, <1>4, <1>5, <1>6, <1>7, <1>8, <1>9, <1>10, <1>11,
       <1>12, <1>13, <1>14, <1>15, <1>16, <1>17, <1>18, <1>19, <1>20, <1>21,
       <1>22, <1>23, <1>24, <1>25, <1>26 DEF Next, Review, Commit, Command

\* What Commit has in hand.
LEMMA NextStageOK ==
  ASSUME TypeOK, CreatedOK, LeaseOK, BatchOK, StageOK, [Next]_vars
  PROVE  StageOK'
  <1>1. CASE UNCHANGED vars
    BY <1>1 DEF StageOK, TypeOK, First, vars, fileVars, hostVars, talkVars,
       cliVars
  <1>2. ASSUME NEW h \in Host, UserSpeaks(h)
       PROVE  StageOK'
    BY <1>2 DEF StageOK, TypeOK, First, UserSpeaks, fileVars, hostVars,
       talkVars, cliVars, SavesHistory
  <1>3. ASSUME NEW r \in Reader, CliRecord(r) \/ CliWrite(r) \/ CliDies(r)
       PROVE  StageOK'
    BY <1>3 DEF StageOK, TypeOK, First, CliRecord, CliWrite, CliDies,
       fileVars, hostVars, talkVars, cliVars, Runs, Fault
  <1>4. ASSUME NEW r \in Reader, NEW n \in Notice, CliCheck(r, n) \/
     CliClear(r, n)
       PROVE  StageOK'
    BY <1>4 DEF StageOK, TypeOK, First, CliCheck, CliClear, fileVars,
       hostVars, talkVars, cliVars, Runs
  <1>5. ASSUME NEW r \in Reader, NEW ids \in SUBSET Notice, InboxArchive(r,
     ids)
       PROVE  StageOK'
    BY <1>5 DEF StageOK, TypeOK, First, InboxArchive, fileVars, hostVars,
       talkVars, cliVars, Runs, Starts
  <1>6. ASSUME NEW r \in Reader, NEW n \in Notice, NEW a \in 0..Units[n], NEW
     b \in 0..Units[n], InboxRead(r, n, a, b)
       PROVE  StageOK'
    BY <1>6 DEF StageOK, TypeOK, First, InboxRead, fileVars, hostVars,
       talkVars, cliVars, Runs, Starts
  <1>7. ASSUME NEW n \in Notice, Notify(n)
       PROVE  StageOK'
    <2>1. left' = left /\ pc' = pc
      BY <1>7 DEF Notify, hostVars
    <2>2. ASSUME NEW g \in Host, NEW q \in left[g]
          PROVE  q.notice \in Notice /\ q.notice # n
      <3>1. q \in batch[g] /\ q \in Part
        BY DEF LeaseOK, TypeOK
      <3>2. QED
        BY <1>7, <3>1, PartFields DEF BatchOK, Notify
    <2>3. \A m \in Notice \ {n} : created'[m] = created[m] /\ place'[m] = place[m]
      BY <1>7 DEF Notify, TypeOK
    <2>4. \A g \in Host : \A q \in left[g] : First(g, q)' => First(g, q)
      BY <2>1, <2>2, <2>3 DEF First
    <2>5. QED
      BY <2>1, <2>2, <2>3, <2>4 DEF StageOK
  <1>8. ASSUME NEW h \in Host, Boot(h)
       PROVE  StageOK'
    BY <1>8 DEF StageOK, TypeOK, First, Boot, fileVars, talkVars, cliVars
  <1>9. ASSUME NEW h \in Host, PrepareBatch(h)
       PROVE  StageOK'
    BY <1>9 DEF StageOK, TypeOK, First, PrepareBatch, fileVars, talkVars,
       cliVars
  <1>10. ASSUME NEW h \in Host, Send(h)
       PROVE  StageOK'
    BY <1>10 DEF StageOK, TypeOK, First, Send, fileVars, cliVars
  <1>11. ASSUME NEW h \in Host, SendRejected(h)
       PROVE  StageOK'
    BY <1>11 DEF StageOK, TypeOK, First, SendRejected, Abandon, Close, Fault,
       fileVars, cliVars
  <1>12. ASSUME NEW h \in Host, TurnDone(h)
       PROVE  StageOK'
    BY <1>12 DEF StageOK, TypeOK, First, TurnDone, SavesHistory, Fault,
       fileVars, cliVars
  <1>13. ASSUME NEW h \in Host, TurnFails(h)
       PROVE  StageOK'
    BY <1>13 DEF StageOK, TypeOK, First, TurnFails, Abandon, Close, Fault,
       SavesHistory, fileVars, cliVars
  <1>14. ASSUME NEW h \in Host, Verify(h)
       PROVE  StageOK'
    BY <1>14 DEF StageOK, TypeOK, First, Verify, Abandon, Close, Fault,
       fileVars, cliVars
  <1>15. ASSUME NEW h \in Host, Crash(h)
       PROVE  StageOK'
    BY <1>15 DEF StageOK, TypeOK, First, Crash, Fault, fileVars, cliVars
  <1>16. ASSUME NEW h \in Host, CommitFails(h)
       PROVE  StageOK'
    BY <1>16 DEF StageOK, TypeOK, First, CommitFails, Abandon, Close, Fault,
       Committing, fileVars, cliVars
  <1>17. ASSUME NEW h \in Host, CommitDone(h)
       PROVE  StageOK'
    BY <1>17 DEF StageOK, TypeOK, First, CommitDone, Close, fileVars,
       talkVars, cliVars
  <1>18. ASSUME NEW h \in Host, NEW p \in left[h], LookAt(h, p)
       PROVE  StageOK'
    <2>1. /\ place' = place /\ created' = created
          /\ \/ /\ left' = left
                /\ \/ Full(p) /\ pc' = [pc EXCEPT ![h] = "record"]
                   \/ pc' = [pc EXCEPT ![h] = "progress"]
             \/ left' = [left EXCEPT ![h] = left[h] \ {p}] /\ pc' = [pc EXCEPT ![h] = "commit"]
      BY <1>18 DEF LookAt, Handled, At, fileVars
    <2>2. \A q \in left[h] : First(h, q) => q = p
      BY <1>18, FirstUnique DEF LookAt
    <2>3. CASE left' = left
      <3>1. \A g \in Host : \A q \in left[g] : First(g, q)' <=> First(g, q)
        BY <2>1, <2>3 DEF First
      <3>2. \A g \in Host \ {h} : pc'[g] = pc[g]
        BY <2>1 DEF TypeOK
      <3>3. pc'[h] \in {"record", "progress", "commit"} /\ (pc'[h] = "record" => Full(p))
        BY <2>1, <2>3, <1>18 DEF TypeOK
      <3>4. QED
        BY <2>1, <2>2, <2>3, <3>1, <3>2, <3>3 DEF StageOK
    <2>4. CASE left' = [left EXCEPT ![h] = left[h] \ {p}] /\ pc' = [pc EXCEPT ![h] = "commit"]
      BY <2>1, <2>4 DEF StageOK, TypeOK, First
    <2>5. QED
      BY <2>1, <2>3, <2>4
  <1>19. ASSUME NEW h \in Host, NEW p \in left[h], SaveProgress(h, p)
       PROVE  StageOK'
    BY <1>19 DEF StageOK, TypeOK, First, SaveProgress, Handled, At, talkVars,
       cliVars
  <1>20. ASSUME NEW h \in Host, NEW p \in left[h], RecordRead(h, p)
       PROVE  StageOK'
    BY <1>20 DEF StageOK, TypeOK, First, RecordRead, Abandon, Close, At,
       fileVars, cliVars
  <1>21. ASSUME NEW h \in Host, NEW p \in left[h], WriteRead(h, p)
       PROVE  StageOK'
    BY <1>21 DEF StageOK, TypeOK, First, WriteRead, At, talkVars, cliVars
  <1>22. ASSUME NEW h \in Host, NEW p \in left[h], Validate(h, p)
       PROVE  StageOK'
    BY <1>22 DEF StageOK, TypeOK, First, Validate, Abandon, Close, At,
       fileVars, cliVars
  <1>23. ASSUME NEW h \in Host, NEW p \in left[h], Move(h, p)
       PROVE  StageOK'
    <2>1. created' = created
      BY <1>23 DEF Move
    <2>2. CASE /\ left' = left /\ place' = [place EXCEPT ![p.notice] = "archived"]
               /\ pc' = [pc EXCEPT ![h] = "clear"]
      <3>1. \A g \in Host : \A q \in left[g] : First(g, q)' <=> First(g, q)
        BY <2>1, <2>2 DEF First
      <3>2. \A q \in left[h] : First(h, q) => q = p
        BY <1>23, FirstUnique DEF Move
      <3>3. \A g \in Host : \A q \in left[g] : q.notice \in Notice
        BY PartFields DEF TypeOK
      <3>4. First(h, p) /\ pc[h] = "move"
        BY <1>23 DEF Move
      <3>5. QED
        BY <2>2, <3>1, <3>2, <3>3, <3>4 DEF StageOK, TypeOK, Full
    <2>3. CASE Close(h) /\ place' = place
      BY <2>1, <2>3 DEF StageOK, TypeOK, First, Close
    <2>4. QED
      BY <1>23, <2>2, <2>3 DEF Move, At, Abandon
  <1>24. ASSUME NEW h \in Host, NEW p \in left[h], ClearRead(h, p)
       PROVE  StageOK'
    BY <1>24 DEF StageOK, TypeOK, First, ClearRead, At, talkVars, cliVars
  <1>25. ASSUME NEW h \in Host, NEW p \in left[h], DropProgress(h, p)
       PROVE  StageOK'
    BY <1>25 DEF StageOK, TypeOK, First, DropProgress, Handled, At, talkVars,
       cliVars
  <1>26. ASSUME NEW r \in Reader, NEW n \in Notice, CliMove(r, n)
       PROVE  StageOK'
    <2>1. left' = left /\ pc' = pc /\ created' = created
      BY <1>26 DEF CliMove, hostVars
    <2>2. \A m \in Notice : place[m] = "archived" => place'[m] = "archived"
      BY <1>26 DEF CliMove, TypeOK
    <2>3. \A g \in Host : \A q \in left[g] : q.notice \in Notice
      BY PartFields DEF TypeOK
    <2>4. \A g \in Host : \A q \in left[g] : First(g, q)' <=> First(g, q)
      BY <2>1 DEF First
    <2>5. QED
      BY <2>1, <2>2, <2>3, <2>4 DEF StageOK
  <1>27. QED
    BY <1>1, <1>2, <1>3, <1>4, <1>5, <1>6, <1>7, <1>8, <1>9, <1>10, <1>11,
       <1>12, <1>13, <1>14, <1>15, <1>16, <1>17, <1>18, <1>19, <1>20, <1>21,
       <1>22, <1>23, <1>24, <1>25, <1>26 DEF Next, Review, Commit, Command

\* What the model was given.
LEMMA NextGivenOK ==
  ASSUME TypeOK, CreatedOK, LeaseOK, BatchOK, StageOK, GivenOK, [Next]_vars
  PROVE  GivenOK'
  <1>1. CASE UNCHANGED vars
    BY <1>1 DEF GivenOK, TypeOK, LeaseOK, Committing, vars, fileVars,
       hostVars, talkVars, cliVars
  <1>2. ASSUME NEW h \in Host, UserSpeaks(h)
       PROVE  GivenOK'
    BY <1>2 DEF GivenOK, TypeOK, LeaseOK, Committing, UserSpeaks, fileVars,
       hostVars, talkVars, cliVars, SavesHistory
  <1>3. ASSUME NEW r \in Reader, CliRecord(r) \/ CliWrite(r) \/ CliDies(r)
       PROVE  GivenOK'
    BY <1>3 DEF GivenOK, TypeOK, LeaseOK, Committing, CliRecord, CliWrite,
       CliDies, fileVars, hostVars, talkVars, cliVars, Runs, Fault
  <1>4. ASSUME NEW r \in Reader, NEW n \in Notice, CliCheck(r, n) \/
     CliClear(r, n)
       PROVE  GivenOK'
    BY <1>4 DEF GivenOK, TypeOK, LeaseOK, Committing, CliCheck, CliClear,
       fileVars, hostVars, talkVars, cliVars, Runs
  <1>5. ASSUME NEW r \in Reader, NEW ids \in SUBSET Notice, InboxArchive(r,
     ids)
       PROVE  GivenOK'
    BY <1>5 DEF GivenOK, TypeOK, LeaseOK, Committing, InboxArchive, fileVars,
       hostVars, talkVars, cliVars, Runs, Starts
  <1>6. ASSUME NEW r \in Reader, NEW n \in Notice, NEW a \in 0..Units[n], NEW
     b \in 0..Units[n], InboxRead(r, n, a, b)
       PROVE  GivenOK'
    BY <1>6 DEF GivenOK, TypeOK, LeaseOK, Committing, InboxRead, fileVars,
       hostVars, talkVars, cliVars, Runs, Starts
  <1>7. ASSUME NEW n \in Notice, Notify(n)
       PROVE  GivenOK'
    BY <1>7 DEF GivenOK, TypeOK, LeaseOK, Committing, Notify, hostVars,
       talkVars, cliVars
  <1>8. ASSUME NEW h \in Host, Boot(h)
       PROVE  GivenOK'
    BY <1>8 DEF GivenOK, TypeOK, LeaseOK, Committing, Boot, fileVars,
       talkVars, cliVars
  <1>9. ASSUME NEW h \in Host, PrepareBatch(h)
       PROVE  GivenOK'
    <2>1. /\ pc' = [pc EXCEPT ![h] = "leased"] /\ batch' = [batch EXCEPT ![h] = NextBatch]
          /\ lease = {} /\ given' = given /\ place' = place /\ delivered' = delivered
      BY <1>9 DEF PrepareBatch, fileVars, talkVars
    <2>2. \A u \in given : place[u[1]] = "archived" \/ u[2] < delivered[u[1]]
      BY <2>1 DEF GivenOK
    <2>3. ASSUME NEW u \in UnitsOf(NextBatch) PROVE u \notin given
      <3>1. PICK p \in NextBatch : u \in Span(p.notice, p.from, p.to)
        BY DEF UnitsOf
      <3>2. u[1] = p.notice /\ u[2] \in p.from..(p.to - 1)
        BY <3>1 DEF Span
      <3>3. p.notice \in Notice /\ place[p.notice] = "new" /\ p.from = delivered[p.notice]
        BY NextBatchParts
      <3>4. delivered[p.notice] \in Nat
        BY <3>3 DEF TypeOK
      <3>5. QED
        BY <2>2, <3>2, <3>3, <3>4
    <2>4. \A g \in Host \ {h} : pc[g] # "leased" /\ pc'[g] = pc[g]
      BY <2>1 DEF LeaseOK, TypeOK
    <2>5. UnitsOf(batch'[h]) \cap given = {}
      BY <2>1, <2>3 DEF TypeOK
    <2>6. QED
      BY <2>1, <2>2, <2>4, <2>5 DEF GivenOK
  <1>10. ASSUME NEW h \in Host, Send(h)
       PROVE  GivenOK'
    BY <1>10 DEF GivenOK, TypeOK, LeaseOK, Committing, Send, fileVars,
       cliVars
  <1>11. ASSUME NEW h \in Host, SendRejected(h)
       PROVE  GivenOK'
    BY <1>11 DEF GivenOK, TypeOK, LeaseOK, Committing, SendRejected, Abandon,
       Close, Fault, fileVars, cliVars
  <1>12. ASSUME NEW h \in Host, TurnDone(h)
       PROVE  GivenOK'
    BY <1>12 DEF GivenOK, TypeOK, LeaseOK, Committing, TurnDone,
       SavesHistory, Fault, fileVars, cliVars
  <1>13. ASSUME NEW h \in Host, TurnFails(h)
       PROVE  GivenOK'
    BY <1>13 DEF GivenOK, TypeOK, LeaseOK, Committing, TurnFails, Abandon,
       Close, Fault, SavesHistory, fileVars, cliVars
  <1>14. ASSUME NEW h \in Host, Verify(h)
       PROVE  GivenOK'
    BY <1>14 DEF GivenOK, TypeOK, LeaseOK, Committing, Verify, Abandon,
       Close, Fault, fileVars, cliVars
  <1>15. ASSUME NEW h \in Host, Crash(h)
       PROVE  GivenOK'
    BY <1>15 DEF GivenOK, TypeOK, LeaseOK, Committing, Crash, Fault,
       fileVars, cliVars
  <1>16. ASSUME NEW h \in Host, CommitFails(h)
       PROVE  GivenOK'
    BY <1>16 DEF GivenOK, TypeOK, LeaseOK, Committing, CommitFails, Abandon,
       Close, Fault, fileVars, cliVars
  <1>17. ASSUME NEW h \in Host, CommitDone(h)
       PROVE  GivenOK'
    <2>1. /\ lease' = lease \ {h} /\ pc' = [pc EXCEPT ![h] = "idle"] /\ left[h] = {}
          /\ given' = given /\ place' = place /\ delivered' = delivered
          /\ batch' = [batch EXCEPT ![h] = {}] /\ pc[h] = "commit"
      BY <1>17 DEF CommitDone, Close, fileVars, talkVars
    <2>2. \A g \in lease : g = h
      BY <2>1 DEF LeaseOK
    <2>3. ASSUME NEW u \in UnitsOf(batch[h])
          PROVE  place[u[1]] = "archived" \/ u[2] < delivered[u[1]]
      <3>1. PICK p \in batch[h] : u \in Span(p.notice, p.from, p.to)
        BY DEF UnitsOf
      <3>2. p \in Part
        BY DEF TypeOK
      <3>3. /\ p.notice \in Notice /\ p.from \in Nat /\ p.to \in Nat
            /\ delivered[p.notice] \in Nat
        BY <3>2, PartFields DEF TypeOK
      <3>4. place[p.notice] = "archived" \/ p.to <= delivered[p.notice]
        BY <2>1 DEF BatchOK, Committing
      <3>5. u[1] = p.notice /\ u[2] \in p.from..(p.to - 1)
        BY <3>1 DEF Span
      <3>6. QED
        BY <3>3, <3>4, <3>5
    <2>4. \A u \in given : place[u[1]] = "archived" \/ u[2] < delivered[u[1]]
      BY <2>2, <2>3 DEF GivenOK
    <2>5. \A g \in Host : pc'[g] # "leased"
      BY <2>1 DEF LeaseOK, TypeOK
    <2>6. QED
      BY <2>1, <2>4, <2>5 DEF GivenOK
  <1>18. ASSUME NEW h \in Host, NEW p \in left[h], LookAt(h, p)
       PROVE  GivenOK'
    BY <1>18 DEF GivenOK, TypeOK, LeaseOK, Committing, LookAt, Handled, At,
       fileVars, talkVars, cliVars
  <1>19. ASSUME NEW h \in Host, NEW p \in left[h], SaveProgress(h, p)
       PROVE  GivenOK'
    <2>1. /\ pc' = [pc EXCEPT ![h] = "commit"] /\ pc[h] = "progress"
          /\ delivered' = [delivered EXCEPT ![p.notice] = p.to]
          /\ given' = given /\ place' = place /\ lease' = lease /\ batch' = batch
      BY <1>19 DEF SaveProgress, Handled, At, talkVars
    <2>2. p \in batch[h] /\ p \in Part
      BY DEF LeaseOK, TypeOK
    <2>3. /\ p.notice \in Notice /\ p.to \in Nat
          /\ delivered[p.notice] = p.from /\ p.from <= p.to
      BY <2>1, <2>2, PartFields DEF BatchOK
    <2>4. \A u \in given : u[1] \in Notice /\ u[2] \in Nat
      BY UnitFields DEF TypeOK
    <2>5. \A u \in given : u[2] < delivered[u[1]] => u[2] < delivered'[u[1]]
      BY <2>1, <2>3, <2>4 DEF TypeOK
    <2>6. \A g \in Host : (pc'[g] = "leased" <=> pc[g] = "leased")
      BY <2>1 DEF TypeOK
    <2>7. \A g \in lease : g \in Host
      BY DEF TypeOK
    <2>8. QED
      BY <2>1, <2>5, <2>6, <2>7 DEF GivenOK
  <1>20. ASSUME NEW h \in Host, NEW p \in left[h], RecordRead(h, p)
       PROVE  GivenOK'
    BY <1>20 DEF GivenOK, TypeOK, LeaseOK, Committing, RecordRead, Abandon,
       Close, At, fileVars, cliVars
  <1>21. ASSUME NEW h \in Host, NEW p \in left[h], WriteRead(h, p)
       PROVE  GivenOK'
    BY <1>21 DEF GivenOK, TypeOK, LeaseOK, Committing, WriteRead, At,
       talkVars, cliVars
  <1>22. ASSUME NEW h \in Host, NEW p \in left[h], Validate(h, p)
       PROVE  GivenOK'
    BY <1>22 DEF GivenOK, TypeOK, LeaseOK, Committing, Validate, Abandon,
       Close, At, fileVars, cliVars
  <1>23. ASSUME NEW h \in Host, NEW p \in left[h], Move(h, p)
       PROVE  GivenOK'
    <2>1. delivered' = delivered
      BY <1>23 DEF Move
    <2>2. \A u \in given : u[1] \in Notice
      BY UnitFields DEF TypeOK
    <2>3. CASE /\ place' = [place EXCEPT ![p.notice] = "archived"] /\ given' = given
               /\ lease' = lease /\ batch' = batch /\ pc' = [pc EXCEPT ![h] = "clear"]
      <3>1. \A u \in given : place[u[1]] = "archived" => place'[u[1]] = "archived"
        BY <2>2, <2>3 DEF TypeOK
      <3>2. \A g \in Host : (pc'[g] = "leased" => pc[g] = "leased")
        BY <2>3 DEF TypeOK
      <3>3. \A g \in lease : g \in Host /\ (pc[g] # "leased" => pc'[g] # "leased")
        BY <2>3 DEF TypeOK
      <3>4. QED
        BY <2>1, <2>3, <3>1, <3>2, <3>3 DEF GivenOK
    <2>4. CASE Abandon(h) /\ place' = place
      BY <1>23, <2>1, <2>4 DEF GivenOK, LeaseOK, TypeOK, Abandon, Close, Move
    <2>5. QED
      BY <1>23, <2>3, <2>4 DEF Move, At
  <1>24. ASSUME NEW h \in Host, NEW p \in left[h], ClearRead(h, p)
       PROVE  GivenOK'
    BY <1>24 DEF GivenOK, TypeOK, LeaseOK, Committing, ClearRead, At,
       talkVars, cliVars
  <1>25. ASSUME NEW h \in Host, NEW p \in left[h], DropProgress(h, p)
       PROVE  GivenOK'
    <2>1. /\ pc' = [pc EXCEPT ![h] = "commit"] /\ pc[h] = "drop" /\ First(h, p)
          /\ delivered' = [delivered EXCEPT ![p.notice] = 0]
          /\ given' = given /\ place' = place /\ lease' = lease /\ batch' = batch
      BY <1>25 DEF DropProgress, Handled, At, talkVars
    <2>2. place[p.notice] = "archived"
      BY <2>1 DEF StageOK
    <2>3. \A u \in given : u[1] \in Notice
      BY UnitFields DEF TypeOK
    <2>4. \A u \in given : u[1] # p.notice => delivered'[u[1]] = delivered[u[1]]
      BY <2>1, <2>3 DEF TypeOK
    <2>5. \A g \in Host : (pc'[g] = "leased" <=> pc[g] = "leased")
      BY <2>1 DEF TypeOK
    <2>6. \A g \in lease : g \in Host
      BY DEF TypeOK
    <2>7. QED
      BY <2>1, <2>2, <2>4, <2>5, <2>6 DEF GivenOK
  <1>26. ASSUME NEW r \in Reader, NEW n \in Notice, CliMove(r, n)
       PROVE  GivenOK'
    <2>1. /\ delivered' = delivered /\ given' = given /\ lease' = lease
          /\ batch' = batch /\ pc' = pc
      BY <1>26 DEF CliMove, hostVars, talkVars
    <2>2. \A u \in given : u[1] \in Notice
      BY UnitFields DEF TypeOK
    <2>3. \A u \in given : place[u[1]] = "archived" => place'[u[1]] = "archived"
      BY <1>26, <2>2 DEF TypeOK, CliMove
    <2>4. QED
      BY <2>1, <2>3 DEF GivenOK
  <1>27. QED
    BY <1>1, <1>2, <1>3, <1>4, <1>5, <1>6, <1>7, <1>8, <1>9, <1>10, <1>11,
       <1>12, <1>13, <1>14, <1>15, <1>16, <1>17, <1>18, <1>19, <1>20, <1>21,
       <1>22, <1>23, <1>24, <1>25, <1>26 DEF Next, Review, Commit, Command

-----------------------------------------------------------------------------
(* The invariant and the theorems.                                         *)

\* The invariant holds before anything is sent.
LEMMA InitInductive == Init => InboxInductive
  <1> SUFFICES ASSUME Init PROVE InboxInductive
    OBVIOUS
  <1> USE InboxAssumption
  <1>1. TypeOK
    BY DEF Init, TypeOK, Resting
  <1>2. CreatedOK
    <2>1. {m \in Notice : place[m] # "unsent"} = {}
      BY DEF Init
    <2>2. QED
      BY <2>1, FS_EmptySet DEF Init, CreatedOK
  <1>3. LeaseOK
    BY DEF Init, LeaseOK
  <1>4. BatchOK /\ StageOK
    BY DEF Init, BatchOK, StageOK
  <1>5. PromptOK
    BY DEF Init, PromptOK, Committing
  <1>6. CliOK
    BY DEF Init, CliOK, Resting
  <1>7. ProgressFounded
    BY SpanEmpty DEF Init, ProgressFounded
  <1>8. NothingSkipped
    BY DEF Init, NothingSkipped
  <1>9. GivenOK
    BY DEF Init, GivenOK
  <1>10. QED
    BY <1>1, <1>2, <1>3, <1>4, <1>5, <1>6, <1>7, <1>8, <1>9 DEF InboxInductive

\* Every step keeps it.
LEMMA NextInductive == InboxInductive /\ [Next]_vars => InboxInductive'
  <1> SUFFICES ASSUME InboxInductive, [Next]_vars PROVE InboxInductive'
    OBVIOUS
  <1>1. TypeOK' /\ CreatedOK' /\ LeaseOK'
    BY NextTypeOK, NextCreatedOK, NextLeaseOK DEF InboxInductive
  <1>2. BatchOK' /\ PromptOK' /\ StageOK' /\ CliOK'
    BY NextBatchOK, NextPromptOK, NextStageOK, NextCliOK DEF InboxInductive
  <1>3. ProgressFounded' /\ NothingSkipped' /\ GivenOK'
    BY NextProgressFounded, NextNothingSkipped, NextGivenOK DEF InboxInductive
  <1>4. QED
    BY <1>1, <1>2, <1>3 DEF InboxInductive

\* The inductive invariant holds always.
LEMMA InboxInvariant == Spec => []InboxInductive
  BY InitInductive, NextInductive, PTL DEF Spec

\* Every reachable state of the inbox is well typed: no progress file passes
\* the end of its body, whatever chunks and commands interleave.
THEOREM TypesOK == Spec => []TypeOK
  <1>1. InboxInductive => TypeOK
    BY DEF InboxInductive
  <1>2. QED
    BY InboxInvariant, <1>1, PTL

\* Nothing leaves the inbox unread: what is archived is in a saved conversation
\* or was printed, although readers take no lock and any process may die
\* (inbox.go Archive, delivery.go Commit).
THEOREM NoNoticeSkipped == Spec => []NothingSkipped
  <1>1. InboxInductive => NothingSkipped
    BY DEF InboxInductive
  <1>2. QED
    BY InboxInvariant, <1>1, PTL

\* Progress files never run ahead of what was saved or printed
\* (delivery.go saveProgress, inbox.go RecordRead).
THEOREM ProgressIsFounded == Spec => []ProgressFounded
  <1>1. InboxInductive => ProgressFounded
    BY DEF InboxInductive
  <1>2. QED
    BY InboxInvariant, <1>1, PTL

\* The step in which a host archives a notice finds all of it saved.
LEMMA StepClears ==
  ASSUME InboxInductive, [Next]_vars, NEW g \in Host, NEW k \in Notice,
         pc[g] = "move", pc'[g] = "clear", place'[k] # place[k]
  PROVE  Span(k, 0, Units[k]) \subseteq saved
  <1>1. PICK h \in Host : \E p \in left[h] : Move(h, p)
    <2>1. ASSUME NEW n \in Notice PROVE ~Notify(n)
      BY DEF Notify, hostVars
    <2>2. ASSUME NEW r \in Reader, NEW n \in Notice PROVE ~CliMove(r, n)
      BY DEF CliMove, hostVars
    <2>3. ASSUME NEW r \in Reader, Command(r) PROVE place' = place
      BY <2>2, <2>3 DEF Command, InboxRead, CliRecord, CliWrite, CliDies, InboxArchive,
         CliCheck, CliClear, fileVars
    <2>4. ASSUME NEW h \in Host, Boot(h) \/ Review(h) \/ UserSpeaks(h) \/ Crash(h),
                 \A p \in left[h] : ~Move(h, p)
          PROVE  place' = place
      BY <2>4 DEF Boot, Review, UserSpeaks, Crash, PrepareBatch, Send, SendRejected,
         TurnDone, TurnFails, Verify, Commit, CommitDone, CommitFails, LookAt,
         SaveProgress, RecordRead, WriteRead, Validate, ClearRead, DropProgress, fileVars
    <2>5. QED
      BY <2>1, <2>3, <2>4 DEF Next, vars, fileVars
  <1>2. TypeOK /\ LeaseOK /\ BatchOK /\ PromptOK /\ StageOK
    BY DEF InboxInductive
  <1> PICK p \in left[h] : Move(h, p)
    BY <1>1
  <1>3. First(h, p) /\ pc[h] = "move"
    BY DEF Move
  <1>4. p.notice \in Notice /\ Span(p.notice, 0, p.to) \subseteq saved
    BY <1>2, <1>3, CommitSaved DEF Committing
  <1>5. p.to = Units[p.notice]
    BY <1>2, <1>3 DEF StageOK, Full
  <1>6. k = p.notice
    BY <1>2, <1>4 DEF Move, TypeOK
  <1>7. QED
    BY <1>4, <1>5, <1>6

\* A host clears a notice only when its own conversation history, or an earlier
\* one, holds all of it; what inbox reads printed never counts
\* (delivery.go Commit after Verify).
THEOREM ClearedIsSaved == Spec => ClearsOnlySaved
  <1> DEFINE Clears == \A h \in Host, n \in Notice :
                (pc[h] = "move" /\ pc'[h] = "clear" /\ place'[n] # place[n]) =>
                  Span(n, 0, Units[n]) \subseteq saved
  <1>1. InboxInductive /\ [Next]_vars => Clears
    BY StepClears
  <1>2. [][Clears]_vars => ClearsOnlySaved
    BY PTL DEF ClearsOnlySaved
  <1>3. QED
    BY InboxInvariant, <1>1, <1>2, PTL DEF Spec

\* No unit is given to the model twice unless the delivery that carried it failed
\* (delivery.go PrepareBatch under inbox-reader.lock).
THEOREM RepeatsAreNeeded == Spec => NoNeedlessRepeat
  <1> DEFINE Fresh == \A h \in Host : (pc[h] = "leased" /\ pc'[h] = "turn") =>
                        UnitsOf(batch[h]) \cap given = {}
  <1>1. InboxInductive => Fresh
    BY DEF InboxInductive, GivenOK
  <1>2. [][Fresh]_vars => NoNeedlessRepeat
    BY PTL DEF NoNeedlessRepeat
  <1>3. QED
    BY InboxInvariant, <1>1, <1>2, PTL DEF Spec

-----------------------------------------------------------------------------
(* The refinement of InboxPromise.                                         *)

\* What one step does to what InboxPromise speaks of: nothing, a notice is
\* published or archived, a host saves its conversation, a read prints.
KnownStep ==
  \/ UNCHANGED <<place, saved, shown>>
  \/ \E n \in Notice : /\ place[n] = "unsent" /\ place' = [place EXCEPT ![n] = "new"]
                      /\ UNCHANGED <<saved, shown>>
  \/ \E n \in Notice : /\ place[n] = "new" /\ place' = [place EXCEPT ![n] = "archived"]
                      /\ UNCHANGED <<saved, shown>>
  \/ \E h \in Host : saved' = saved \cup UnitsOf(unsaved[h]) /\ UNCHANGED <<place, shown>>
  \/ \E n \in Notice : \E a, b \in 0..Units[n] :
       /\ place[n] = "new" /\ a <= read[n]
       /\ shown' = shown \cup Span(n, a, b) /\ UNCHANGED <<place, saved>>

\* Every step does one of these.
LEMMA StepKnown ==
  ASSUME TypeOK, [Next]_vars
  PROVE  KnownStep
  <1> DEFINE Same == place' = place /\ saved' = saved /\ shown' = shown
             Saves(h) == /\ saved' = saved \cup UnitsOf(unsaved[h])
                         /\ place' = place /\ shown' = shown
             Archives(n) == /\ place[n] = "new" /\ place' = [place EXCEPT ![n] = "archived"]
                            /\ saved' = saved /\ shown' = shown
  <1>1. ASSUME UNCHANGED vars
       PROVE  Same
    BY <1>1 DEF vars, fileVars, talkVars, cliVars
  <1>2. ASSUME NEW h \in Host, Boot(h) \/ PrepareBatch(h) \/ Send(h) \/
     SendRejected(h) \/ Verify(h) \/ Crash(h) \/ CommitFails(h) \/
     CommitDone(h)
       PROVE  Same
    BY <1>2 DEF Boot, PrepareBatch, Send, SendRejected, Verify,
       Crash, CommitFails, CommitDone, fileVars, talkVars, cliVars
  <1>3. ASSUME NEW h \in Host, NEW p \in left[h], LookAt(h, p) \/
     SaveProgress(h, p) \/ RecordRead(h, p) \/ WriteRead(h, p) \/ Validate(h,
     p) \/ ClearRead(h, p) \/ DropProgress(h, p)
       PROVE  Same
    BY <1>3 DEF LookAt, SaveProgress, RecordRead, WriteRead,
       Validate, ClearRead, DropProgress, fileVars, talkVars, cliVars
  <1>4. ASSUME NEW r \in Reader, CliRecord(r) \/ CliWrite(r) \/ CliDies(r)
       PROVE  Same
    BY <1>4 DEF CliRecord, CliWrite, CliDies, fileVars, talkVars
  <1>5. ASSUME NEW r \in Reader, NEW n \in Notice, CliCheck(r, n) \/
     CliClear(r, n)
       PROVE  Same
    BY <1>5 DEF CliCheck, CliClear, fileVars, talkVars
  <1>6. ASSUME NEW r \in Reader, NEW ids \in SUBSET Notice, InboxArchive(r,
     ids)
       PROVE  Same
    BY <1>6 DEF InboxArchive, fileVars, talkVars
  <1>7. ASSUME NEW h \in Host, TurnDone(h) \/ TurnFails(h) \/ UserSpeaks(h)
       PROVE  Same \/ Saves(h)
    BY <1>7 DEF TurnDone, TurnFails, UserSpeaks, SavesHistory,
       fileVars, cliVars
  <1>8. ASSUME NEW r \in Reader, NEW n \in Notice, NEW a \in 0..Units[n], NEW
     b \in 0..Units[n], InboxRead(r, n, a, b)
       PROVE  KnownStep
    <2>1. /\ place[n] = "new" /\ a <= read[n] /\ shown' = shown \cup Span(n, a, b)
          /\ UNCHANGED <<place, saved>>
      BY <1>8 DEF InboxRead, fileVars, talkVars
    <2>2. QED
      BY <2>1 DEF KnownStep
  <1>9. ASSUME NEW n \in Notice, Notify(n)
       PROVE  KnownStep
    <2>1. /\ place[n] = "unsent" /\ place' = [place EXCEPT ![n] = "new"]
          /\ UNCHANGED <<saved, shown>>
      BY <1>9 DEF Notify, talkVars, cliVars
    <2>2. QED
      BY <2>1 DEF KnownStep
  <1>10. ASSUME NEW h \in Host, NEW p \in left[h], Move(h, p)
       PROVE  p.notice \in Notice /\ (Same \/ Archives(p.notice))
    <2>1. p.notice \in Notice
      BY PartFields DEF TypeOK
    <2>2. QED
      BY <1>10, <2>1 DEF Move, cliVars
  <1>11. ASSUME NEW r \in Reader, NEW n \in Notice, CliMove(r, n)
       PROVE  Same \/ Archives(n)
    BY <1>11 DEF CliMove, talkVars
  <1>12. \/ Same \/ KnownStep \/ \E h \in Host : Saves(h)
         \/ \E n \in Notice : Archives(n)
    <2> HIDE DEF Same, Saves, Archives
    <2>1. ASSUME NEW h \in Host, Boot(h) \/ Review(h) \/ UserSpeaks(h) \/ Crash(h)
          PROVE  Same \/ Saves(h) \/ \E n \in Notice : Archives(n)
      BY <1>2, <1>3, <1>7, <1>10, <2>1 DEF Review, Commit
    <2>2. ASSUME NEW r \in Reader, Command(r)
          PROVE  Same \/ KnownStep \/ \E n \in Notice : Archives(n)
      BY <1>4, <1>5, <1>6, <1>8, <1>11, <2>2 DEF Command
    <2>3. CASE UNCHANGED vars
      BY <1>1, <2>3
    <2>4. QED
      BY <1>9, <2>1, <2>2, <2>3 DEF Next
  <1>13. QED
    BY <1>12 DEF KnownStep

\* A conversation gets nothing but the batch its host has leased.
LEMMA StepUnsaved ==
  ASSUME TypeOK, [Next]_vars, NEW g \in Host
  PROVE  unsaved'[g] \subseteq unsaved[g] \cup batch[g]
  <1>1. CASE UNCHANGED vars
    BY <1>1 DEF vars, talkVars
  <1>2. ASSUME NEW h \in Host, Boot(h) \/ PrepareBatch(h) \/ SendRejected(h) \/
     Verify(h) \/ CommitFails(h) \/ CommitDone(h)
       PROVE  unsaved' = unsaved
    BY <1>2 DEF Boot, PrepareBatch, SendRejected, Verify, CommitFails,
       CommitDone, talkVars
  <1>3. ASSUME NEW h \in Host, NEW p \in left[h], LookAt(h, p) \/
     SaveProgress(h, p) \/ RecordRead(h, p) \/ WriteRead(h, p) \/ Validate(h,
     p) \/ Move(h, p) \/ ClearRead(h, p) \/ DropProgress(h, p)
       PROVE  unsaved' = unsaved
    BY <1>3 DEF LookAt, SaveProgress, RecordRead, WriteRead, Validate, Move,
       ClearRead, DropProgress, talkVars
  <1>4. ASSUME NEW r \in Reader, Command(r)
       PROVE  unsaved' = unsaved
    BY <1>4 DEF Command, InboxRead, CliRecord, CliWrite, CliDies,
       InboxArchive, CliCheck, CliMove, CliClear, talkVars
  <1>5. ASSUME NEW n \in Notice, Notify(n)
       PROVE  unsaved' = unsaved
    BY <1>5 DEF Notify, talkVars
  <1>6. ASSUME NEW h \in Host, Send(h)
       PROVE  unsaved'[g] \subseteq unsaved[g] \cup batch[g]
    BY <1>6 DEF TypeOK, Send
  <1>7. ASSUME NEW h \in Host, TurnDone(h) \/ TurnFails(h) \/ UserSpeaks(h) \/
     Crash(h)
       PROVE  unsaved'[g] \subseteq unsaved[g] \cup batch[g]
    BY <1>7 DEF TypeOK, TurnDone, TurnFails, UserSpeaks, SavesHistory, Crash
  <1>8. QED
    BY <1>1, <1>2, <1>3, <1>4, <1>5, <1>6, <1>7 DEF Next, Review, Commit

\* What a host has yet to save continues what is saved; nothing is known of a
\* notice behind a unit that is not.
GapFree ==
  /\ \A h \in Host : \A p \in unsaved[h] :
       place[p.notice] # "unsent" /\ Span(p.notice, 0, p.from) \subseteq saved
  /\ Promise!NoGaps(saved \cup shown)

\* A saved part closes no gap and opens none.
LEMMA SaveNoGaps ==
  ASSUME TypeOK, GapFree, NEW h \in Host
  PROVE  Promise!NoGaps(saved \cup UnitsOf(unsaved[h]) \cup shown)
  <1> SUFFICES ASSUME NEW u \in saved \cup UnitsOf(unsaved[h]) \cup shown,
                      NEW i \in 0..(u[2] - 1)
               PROVE  <<u[1], i>> \in saved \cup UnitsOf(unsaved[h]) \cup shown
    BY DEF Promise!NoGaps
  <1>1. CASE u \in saved \cup shown
    BY <1>1 DEF GapFree, Promise!NoGaps
  <1>2. CASE u \in UnitsOf(unsaved[h])
    <2>1. PICK p \in unsaved[h] : u \in Span(p.notice, p.from, p.to)
      BY <1>2 DEF UnitsOf
    <2>2. p \in Part
      BY DEF TypeOK
    <2>3. p.from \in Nat /\ p.to \in Nat
      BY <2>2, PartFields
    <2>4. u[1] = p.notice /\ u[2] \in p.from..(p.to - 1)
      BY <2>1 DEF Span
    <2>5. CASE i < p.from
      <3>1. <<u[1], i>> \in Span(p.notice, 0, p.from)
        BY <2>3, <2>4, <2>5 DEF Span
      <3>2. QED
        BY <3>1 DEF GapFree
    <2>6. CASE i >= p.from
      <3>1. <<u[1], i>> \in Span(p.notice, p.from, p.to)
        BY <2>3, <2>4, <2>6 DEF Span
      <3>2. QED
        BY <3>1 DEF UnitsOf
    <2>7. QED
      BY <2>3, <2>4, <2>5, <2>6
  <1>3. QED
    BY <1>1, <1>2

\* A read that starts within the recorded progress leaves no gap.
LEMMA ReadNoGaps ==
  ASSUME TypeOK, ProgressFounded, GapFree, NEW n \in Notice,
         NEW a \in 0..Units[n], NEW b \in 0..Units[n], a <= read[n]
  PROVE  Promise!NoGaps(saved \cup (shown \cup Span(n, a, b)))
  <1> SUFFICES ASSUME NEW u \in saved \cup (shown \cup Span(n, a, b)),
                      NEW i \in 0..(u[2] - 1)
               PROVE  <<u[1], i>> \in saved \cup (shown \cup Span(n, a, b))
    BY DEF Promise!NoGaps
  <1>1. CASE u \in saved \cup shown
    BY <1>1 DEF GapFree, Promise!NoGaps
  <1>2. CASE u \in Span(n, a, b)
    <2>1. Units[n] \in Nat /\ read[n] \in Nat
      BY InboxAssumption DEF TypeOK
    <2>2. u[1] = n /\ u[2] \in a..(b - 1)
      BY <1>2 DEF Span
    <2>3. CASE i < a
      <3>1. <<u[1], i>> \in Span(n, 0, read[n])
        BY <2>1, <2>2, <2>3 DEF Span
      <3>2. QED
        BY <3>1 DEF ProgressFounded
    <2>4. CASE i >= a
      BY <2>1, <2>2, <2>4 DEF Span
    <2>5. QED
      BY <2>1, <2>2, <2>3, <2>4
  <1>3. QED
    BY <1>1, <1>2

\* Every step keeps it.
LEMMA NextGapFree ==
  ASSUME TypeOK, LeaseOK, BatchOK, ProgressFounded, GapFree, [Next]_vars
  PROVE  GapFree'
  <1>1. ASSUME NEW g \in Host, NEW p \in unsaved'[g]
        PROVE  place'[p.notice] # "unsent" /\ Span(p.notice, 0, p.from) \subseteq saved'
    <2>1. p \in unsaved[g] \cup batch[g]
      BY <1>1, StepUnsaved
    <2>2. p \in Part
      BY <2>1 DEF TypeOK
    <2>3. p.notice \in Notice
      BY <2>2, PartFields
    <2>4. place[p.notice] # "unsent" /\ Span(p.notice, 0, p.from) \subseteq saved
      BY <2>1 DEF GapFree, BatchOK
    <2>5. PlaceStep(p.notice) /\ saved \subseteq saved'
      BY <2>3, StepPlace, StepGrows
    <2>6. QED
      BY <2>4, <2>5 DEF PlaceStep
  <1>2. Promise!NoGaps(saved' \cup shown')
    <2>1. CASE saved' = saved /\ shown' = shown
      BY <2>1 DEF GapFree
    <2>2. ASSUME NEW h \in Host, saved' = saved \cup UnitsOf(unsaved[h]), shown' = shown
          PROVE  Promise!NoGaps(saved' \cup shown')
      BY <2>2, SaveNoGaps
    <2>3. ASSUME NEW n \in Notice, NEW a \in 0..Units[n], NEW b \in 0..Units[n],
                 a <= read[n], shown' = shown \cup Span(n, a, b), saved' = saved
          PROVE  Promise!NoGaps(saved' \cup shown')
      BY <2>3, ReadNoGaps
    <2>4. QED
      BY <2>1, <2>2, <2>3, StepKnown DEF KnownStep
  <1>3. QED
    BY <1>1, <1>2 DEF GapFree, Promise!NoGaps

\* What is new to the conversations belongs to notices that are in the inbox:
\* of an archived one everything is known already.
LEMMA LearntIsNew ==
  ASSUME TypeOK, NothingSkipped, GapFree, NEW h \in Host, NEW u \in UnitsOf(unsaved[h]),
         u \notin saved \cup shown
  PROVE  u \in UNION {Promise!Body(n) : n \in Promise!Fresh}
  <1>1. PICK p \in unsaved[h] : u \in Span(p.notice, p.from, p.to)
    BY DEF UnitsOf
  <1>2. p \in Part
    BY DEF TypeOK
  <1>3. /\ p.notice \in Notice /\ Units[p.notice] \in Nat
        /\ p.from \in 0..Units[p.notice] /\ p.to \in 0..Units[p.notice]
    BY <1>2, PartFields
  <1>4. u \in Span(p.notice, 0, Units[p.notice])
    BY <1>1, <1>3 DEF Span
  <1>5. place[p.notice] = "new"
    BY <1>3, <1>4 DEF GapFree, NothingSkipped, TypeOK
  <1>6. QED
    BY <1>3, <1>4, <1>5 DEF Promise!Body, Promise!Fresh, Span

\* Every step is a step of InboxPromise, or does not touch it.
LEMMA PromiseStep ==
  ASSUME InboxInductive, InboxInductive', GapFree, GapFree', [Next]_vars
  PROVE  [Promise!PNext]_(Promise!pVars)
  <1> USE DEF InboxInductive
  <1>1. CASE UNCHANGED <<place, saved, shown>>
    BY <1>1 DEF Promise!pVars
  <1>2. ASSUME NEW n \in Notice, place[n] = "unsent", place' = [place EXCEPT ![n] = "new"],
               UNCHANGED <<saved, shown>>
        PROVE  Promise!PNext
    BY <1>2 DEF Promise!PNext, Promise!Publish
  <1>3. ASSUME NEW n \in Notice, place[n] = "new", place' = [place EXCEPT ![n] = "archived"],
               UNCHANGED <<saved, shown>>
        PROVE  Promise!PNext
    <2>1. place'[n] = "archived"
      BY <1>3 DEF TypeOK
    <2>2. Span(n, 0, Units[n]) \subseteq saved \cup shown
      BY <1>3, <2>1 DEF NothingSkipped
    <2>3. QED
      BY <1>3, <2>2 DEF Promise!PNext, Promise!Archive, Promise!Body, Span
  <1>4. ASSUME NEW h \in Host, saved' = saved \cup UnitsOf(unsaved[h]),
               UNCHANGED <<place, shown>>
        PROVE  Promise!Learn
    <2>1. (saved' \cup shown') \ (saved \cup shown) \subseteq
            UNION {Promise!Body(n) : n \in Promise!Fresh}
      BY <1>4, LearntIsNew
    <2>2. QED
      BY <1>4, <2>1 DEF Promise!Learn, GapFree, Promise!NoGaps
  <1>5. ASSUME NEW n \in Notice, NEW a \in 0..Units[n], NEW b \in 0..Units[n],
               place[n] = "new", shown' = shown \cup Span(n, a, b), UNCHANGED <<place, saved>>
        PROVE  Promise!Learn
    <2>1. Units[n] \in Nat
      BY InboxAssumption
    <2>2. Span(n, a, b) \subseteq Promise!Body(n) /\ n \in Promise!Fresh
      BY <1>5, <2>1 DEF Span, Promise!Body, Promise!Fresh
    <2>3. (saved' \cup shown') \ (saved \cup shown) \subseteq
            UNION {Promise!Body(m) : m \in Promise!Fresh}
      BY <1>5, <2>2
    <2>4. QED
      BY <1>5, <2>3 DEF Promise!Learn, GapFree, Promise!NoGaps
  <1>6. QED
    BY <1>1, <1>2, <1>3, <1>4, <1>5, StepKnown DEF KnownStep, Promise!PNext

\* The inbox implements InboxPromise: a notice becomes known from its beginning
\* and without a gap, whichever hosts and commands interleave, fail and repeat,
\* and is archived once, when all of it is known (batch.go PrepareBatch and
\* Commit, inbox_turn.go SendInbox, notices.go read and archive).
THEOREM InboxKeepsPromise == Spec => KeepsPromise
  <1>1. Init => Promise!PInit /\ GapFree
    BY DEF Init, Promise!PInit, GapFree, Promise!NoGaps
  <1>2. InboxInductive /\ GapFree /\ [Next]_vars => GapFree'
    BY NextGapFree DEF InboxInductive
  <1>3. /\ InboxInductive /\ InboxInductive' /\ GapFree /\ GapFree' /\ [Next]_vars
        => [Promise!PNext]_(Promise!pVars)
    BY PromiseStep
  <1>4. QED
    BY InboxInvariant, <1>1, <1>2, <1>3, PTL DEF Spec, KeepsPromise, Promise!PSpec
=============================================================================
