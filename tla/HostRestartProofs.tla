-------------------------- MODULE HostRestartProofs --------------------------
(***************************************************************************)
(* The safety properties of HostRestart, for any number of images and any  *)
(* length of the journal.  The inductive invariant says what a restart     *)
(* leaves for the next image at each of its steps, and how the receipts in *)
(* memory and those in the journal belong together.                        *)
(***************************************************************************)
EXTENDS HostRestart, SequenceTheorems, TLAPS

Running == phase \in {"up", "leaving", "replacing"}

\* Receipts of hosts there were, and those that claim a restart are right.
Founded(receipts, h, from) ==
  \A i \in DOMAIN receipts :
    /\ receipts[i].by <= h
    /\ receipts[i].did = "restart" /\ receipts[i].outcome = "completed" =>
         receipts[i].previous # 0 /\ from[receipts[i].by] = receipts[i].previous

\* TypeOK in two parts.
ScalarsOK ==
  /\ valid \in BOOLEAN /\ loadErr \in BOOLEAN
  /\ phase \in {"down", "booting", "up", "leaving", "replacing"}
  /\ host \in Host \cup {0} /\ handoff \in Host \cup {0}
  /\ restart \in {"none", "queued"}
  /\ due \subseteq {"queued", "cancelled", "failed"}
  /\ origin \in [Host -> Host \cup {0}]

Receipts(receipts) == receipts \in Seq(Receipt) /\ Len(receipts) <= MaxReceipts

\* What is in memory continues what is in a journal that could be read.
ReceiptsOK ==
  /\ readable \in BOOLEAN
  /\ Receipts(journal) /\ Receipts(actions)
  /\ Founded(journal, host, origin) /\ Founded(actions, host, origin)
  /\ Running /\ ~loadErr => KeepsTail(journal, actions)

\* The journal holds the word of a host that is being replaced, and keeps it
\* until the next one reads it.
HandedOver ==
  /\ Running => host # 0
  /\ phase = "down" => handoff = 0
  /\ phase = "replacing" => Executing(host, journal)
  /\ phase = "booting" /\ handoff # 0 => Executing(handoff, journal)

RestartInductive == ScalarsOK /\ ReceiptsOK /\ HandedOver

-----------------------------------------------------------------------------
(* Journals.                                                               *)

\* What is written last is kept, and nothing older is kept instead.
LEMMA LatestProperties ==
  ASSUME NEW b \in Seq(Receipt)
  PROVE  /\ Receipts(Latest(b))
         /\ \E d \in 0..Len(b) :
              /\ Len(Latest(b)) = Len(b) - d /\ (d > 0 => Len(b) - d = MaxReceipts)
              /\ \A i \in 1..Len(b) - d : Latest(b)[i] = b[i + d]
         /\ b # <<>> => Latest(b) # <<>> /\ Latest(b)[Len(Latest(b))] = b[Len(b)]
  <1>1. Len(b) \in Nat /\ MaxReceipts \in Nat /\ MaxReceipts > 0
    BY LenProperties, RestartAssumption
  <1>2. b # <<>> => Len(b) > 0
    BY <1>1, EmptySeq
  <1>3. CASE Len(b) <= MaxReceipts
    <2>1. Latest(b) = b
      BY <1>1, <1>3 DEF Latest
    <2>2. \A i \in 1..Len(b) - 0 : Latest(b)[i] = b[i + 0]
      BY <2>1, <1>1
    <2>3. QED
      BY <1>1, <1>3, <2>1, <2>2 DEF Receipts
  <1>4. CASE Len(b) > MaxReceipts
    <2>1. PICK d \in 1..Len(b) : d = Len(b) - MaxReceipts
      BY <1>1, <1>4
    <2>2. Latest(b) = SubSeq(b, d + 1, Len(b))
      BY <1>4, <2>1 DEF Latest
    <2>3. d + 1 \in Int /\ Len(b) \in Int /\ Len(b) - d = MaxReceipts
          /\ Len(b) - (d + 1) + 1 = Len(b) - d /\ d + 1 <= Len(b)
      BY <1>1, <2>1
    <2>4. \A i \in d + 1..Len(b) : b[i] \in Receipt
      <3>1. d + 1..Len(b) \subseteq 1..Len(b)
        BY <1>1
      <3>2. QED
        BY <3>1, ElementOfSeq
    <2>5. /\ Latest(b) \in Seq(Receipt) /\ Len(Latest(b)) = Len(b) - d
          /\ \A i \in 1..Len(b) - d : Latest(b)[i] = b[d + 1 + i - 1]
      BY <2>2, <2>3, <2>4, SubSeqProperties
    <2>6. \A i \in 1..Len(b) - d : d + 1 + i - 1 = i + d
      BY <2>3
    <2>7. \A i \in 1..Len(b) - d : Latest(b)[i] = b[i + d]
      BY <2>5, <2>6
    <2>8. Len(b) - d \in 1..Len(b) - d /\ Len(b) - d + d = Len(b)
      BY <1>1, <2>3
    <2>9. Latest(b) # <<>> /\ Latest(b)[Len(Latest(b))] = b[Len(b)]
      BY <2>3, <2>5, <2>7, <2>8, <1>1, EmptySeq
    <2>10. d \in 0..Len(b)
      BY <1>1
    <2>11. Receipts(Latest(b))
      BY <2>3, <2>5, <1>1 DEF Receipts
    <2>12. QED
      BY <2>3, <2>5, <2>7, <2>9, <2>10, <2>11
  <1>5. QED
    BY <1>1, <1>3, <1>4

\* A tail of a journal stays one when receipts are added and old ones go.
LEMMA TailKept ==
  ASSUME NEW old \in Seq(Receipt), NEW new \in Seq(Receipt), NEW b \in Seq(Receipt),
         Receipts(old), Receipts(new), KeepsTail(old, new), Len(new) <= Len(b),
         \A i \in 1..Len(new) : b[i] = new[i]
  PROVE  KeepsTail(old, Latest(b))
  <1>1. /\ Len(old) \in Nat /\ Len(new) \in Nat /\ Len(b) \in Nat /\ MaxReceipts \in Nat
        /\ Len(old) <= MaxReceipts /\ Len(new) <= MaxReceipts
    BY LenProperties, RestartAssumption DEF Receipts
  <1>2. PICK k \in 0..Len(old) :
               /\ Len(old) - k <= Len(new) /\ (k > 0 => Len(new) = MaxReceipts)
               /\ \A i \in 1..Len(old) - k : new[i] = old[k + i]
    BY DEF KeepsTail
  <1>3. PICK d \in 0..Len(b) :
               /\ Len(Latest(b)) = Len(b) - d /\ (d > 0 => Len(b) - d = MaxReceipts)
               /\ \A i \in 1..Len(b) - d : Latest(b)[i] = b[i + d]
    BY LatestProperties
  <1>4. Len(b) - d <= MaxReceipts
    BY LatestProperties, <1>3 DEF Receipts
  <1>5. CASE k + d <= Len(old)
    <2> DEFINE n == k + d
    <2>1. n \in 0..Len(old) /\ Len(old) - n <= Len(b) - d /\ (n > 0 => Len(b) - d = MaxReceipts)
      BY <1>1, <1>2, <1>3, <1>4, <1>5
    <2>2. ASSUME NEW i \in 1..Len(old) - n
          PROVE  Latest(b)[i] = old[n + i]
      <3>1. i \in 1..Len(b) - d /\ i + d \in 1..Len(new) /\ i + d \in 1..Len(old) - k
            /\ k + (i + d) = n + i
        BY <1>1, <1>2, <1>3, <1>5, <2>1
      <3>2. Latest(b)[i] = b[i + d] /\ b[i + d] = new[i + d]
        BY <1>3, <3>1
      <3>3. new[i + d] = old[k + (i + d)]
        BY <1>2, <3>1
      <3>4. QED
        BY <3>1, <3>2, <3>3
    <2>3. QED
      BY <1>3, <2>1, <2>2 DEF KeepsTail
  <1>6. CASE k + d > Len(old)
    <2>1. Len(old) - Len(old) <= Len(b) - d /\ (Len(old) > 0 => Len(b) - d = MaxReceipts)
      BY <1>1, <1>2, <1>3, <1>4, <1>6
    <2>2. 1..Len(old) - Len(old) = {} /\ Len(old) \in 0..Len(old)
      BY <1>1
    <2>3. QED
      BY <1>3, <2>1, <2>2 DEF KeepsTail
  <1>7. QED
    BY <1>1, <1>2, <1>3, <1>5, <1>6

\* Every journal keeps itself.
LEMMA TailReflexive ==
  ASSUME NEW s \in Seq(Receipt)
  PROVE  KeepsTail(s, s)
  <1>1. Len(s) \in Nat
    BY LenProperties
  <1>2. /\ 0 \in 0..Len(s) /\ Len(s) - 0 <= Len(s) /\ ~(0 > 0)
        /\ \A i \in 1..Len(s) - 0 : s[i] = s[0 + i]
    BY <1>1
  <1>3. QED
    BY <1>2 DEF KeepsTail

\* A receipt more.
LEMMA OneMore ==
  ASSUME NEW s \in Seq(Receipt), NEW r \in Receipt, NEW h \in Int, NEW from,
         Founded(s, h, from), r.by <= h,
         r.did = "restart" /\ r.outcome = "completed" =>
           r.previous # 0 /\ from[r.by] = r.previous
  PROVE  /\ Append(s, r) \in Seq(Receipt) /\ Len(Append(s, r)) = Len(s) + 1
         /\ Append(s, r) # <<>> /\ Append(s, r)[Len(s) + 1] = r
         /\ Len(s) <= Len(Append(s, r)) /\ \A i \in 1..Len(s) : Append(s, r)[i] = s[i]
         /\ Founded(Append(s, r), h, from)
  <1>1. Len(s) \in Nat /\ DOMAIN s = 1..Len(s)
    BY LenProperties
  <1>2. /\ Append(s, r) \in Seq(Receipt) /\ Len(Append(s, r)) = Len(s) + 1
        /\ Append(s, r)[Len(s) + 1] = r
        /\ \A i \in 1..Len(s) : Append(s, r)[i] = s[i]
    BY AppendProperties
  <1>3. DOMAIN Append(s, r) = 1..Len(s) + 1
    BY <1>2, LenProperties
  <1>4. \A i \in 1..Len(s) + 1 : i \in 1..Len(s) \/ i = Len(s) + 1
    BY <1>1
  <1>5. Founded(Append(s, r), h, from)
    BY <1>1, <1>2, <1>3, <1>4 DEF Founded
  <1>6. QED
    BY <1>1, <1>2, <1>5, EmptySeq

\* Saving keeps what the properties say of a journal.
LEMMA SavedProperties ==
  ASSUME ReceiptsOK, NEW b \in Seq(Receipt), NEW h \in Int, NEW from,
         Founded(b, h, from), Founded(journal, h, from),
         NEW unread \in BOOLEAN, NEW ok \in BOOLEAN, Saved(b, unread, ok),
         ~unread => KeepsTail(journal, Latest(b))
  PROVE  /\ readable' \in BOOLEAN
         /\ Receipts(journal') /\ Receipts(actions')
         /\ Founded(journal', h, from) /\ Founded(actions', h, from)
         /\ ~unread => KeepsTail(journal', actions')
         /\ KeepsTail(journal, journal')
         /\ actions' = Latest(b)
  <1>1. /\ actions' = Latest(b) /\ journal' \in {journal, actions'}
        /\ readable' \in {readable, TRUE}
        /\ journal' # journal => ~unread
    BY DEF Saved
  <1>2. journal \in Seq(Receipt) /\ Receipts(journal) /\ Receipts(actions')
        /\ actions' \in Seq(Receipt)
    BY <1>1, LatestProperties DEF ReceiptsOK, Receipts
  <1>3. Founded(actions', h, from)
    <2>1. PICK d \in 0..Len(b) :
                 /\ Len(Latest(b)) = Len(b) - d
                 /\ \A i \in 1..Len(b) - d : Latest(b)[i] = b[i + d]
      BY LatestProperties
    <2>2. Len(b) \in Nat /\ DOMAIN b = 1..Len(b) /\ DOMAIN actions' = 1..Len(b) - d
      BY <1>1, <1>2, <2>1, LenProperties
    <2>3. \A i \in 1..Len(b) - d : i + d \in 1..Len(b)
      BY <2>1, <2>2
    <2>4. \A i \in 1..Len(b) - d : actions'[i] = b[i + d] /\ i + d \in DOMAIN b
      BY <1>1, <2>1, <2>2, <2>3
    <2>5. QED
      BY <2>2, <2>4 DEF Founded
  <1>4. KeepsTail(journal, journal) /\ KeepsTail(actions', actions')
    BY <1>2, TailReflexive
  <1>5. QED
    BY <1>1, <1>2, <1>3, <1>4 DEF ReceiptsOK

\* And a host that runs always adds to what it remembers.
LEMMA RecordProperties ==
  ASSUME ScalarsOK, ReceiptsOK, HandedOver, Running,
         NEW did \in {"restart", "other"},
         NEW outcome \in {"done", "queued", "cancelled", "failed"}, Record(did, outcome)
  PROVE  /\ readable' \in BOOLEAN
         /\ Receipts(journal') /\ Receipts(actions')
         /\ Founded(journal', host, origin) /\ Founded(actions', host, origin)
         /\ ~loadErr => KeepsTail(journal', actions')
         /\ KeepsTail(journal, journal')
  <1> DEFINE r == Action(host, did, outcome)
             b == Append(actions, r)
  <1>1. host \in Int /\ host \in Host /\ r \in Receipt /\ r.by = host /\ r.outcome # "completed"
    BY DEF ScalarsOK, HandedOver, Receipt, Action, Host
  <1>2. actions \in Seq(Receipt) /\ journal \in Seq(Receipt)
        /\ Founded(actions, host, origin) /\ Founded(journal, host, origin)
    BY DEF ReceiptsOK, Receipts
  <1>3. /\ b \in Seq(Receipt) /\ Founded(b, host, origin)
        /\ Len(actions) <= Len(b) /\ \A i \in 1..Len(actions) : b[i] = actions[i]
    <2> HIDE DEF r
    <2>1. QED
      BY <1>1, <1>2, OneMore
  <1>4. PICK ok \in BOOLEAN : Saved(b, loadErr, ok)
    BY DEF Record
  <1> HIDE DEF b
  <1>5. ~loadErr => KeepsTail(journal, Latest(b))
    BY <1>2, <1>3, TailKept DEF ReceiptsOK
  <1>6. loadErr \in BOOLEAN
    BY DEF ScalarsOK
  <1>7. QED
    BY <1>1, <1>2, <1>3, <1>4, <1>5, <1>6, SavedProperties

-----------------------------------------------------------------------------
(* The steps.                                                              *)

\* Every step preserves the types.
LEMMA NextScalarsOK ==
  ASSUME ScalarsOK, [Next]_vars
  PROVE  ScalarsOK'
  <1>1. CASE UNCHANGED vars
    BY <1>1, RestartAssumption DEF ScalarsOK, Host, vars
  <1>2. ASSUME OtherAction \/ Touch
       PROVE  ScalarsOK'
    BY <1>2, RestartAssumption DEF ScalarsOK, Host, OtherAction, Touch
  <1>3. ASSUME RequestRestart
       PROVE  ScalarsOK'
    BY <1>3, RestartAssumption DEF ScalarsOK, Host, RequestRestart, Loads
  <1>4. ASSUME CancelRestart
       PROVE  ScalarsOK'
    BY <1>4, RestartAssumption DEF ScalarsOK, Host, CancelRestart
  <1>5. ASSUME NEW x \in {"queued", "cancelled", "failed"}, RecordDue(x)
       PROVE  ScalarsOK'
    BY <1>5, RestartAssumption DEF ScalarsOK, Host, RecordDue
  <1>6. ASSUME Leave
       PROVE  ScalarsOK'
    BY <1>6, RestartAssumption DEF ScalarsOK, Host, Leave
  <1>7. ASSUME Execute
       PROVE  ScalarsOK'
    BY <1>7, RestartAssumption DEF ScalarsOK, Host, Execute, Ended
  <1>8. ASSUME Exec
       PROVE  ScalarsOK'
    BY <1>8, RestartAssumption DEF ScalarsOK, Host, Exec, Ended
  <1>9. ASSUME ComeUp
       PROVE  ScalarsOK'
    BY <1>9, RestartAssumption DEF ScalarsOK, Host, ComeUp, Loads
  <1>10. ASSUME Halt
       PROVE  ScalarsOK'
    BY <1>10, RestartAssumption DEF ScalarsOK, Host, Halt, Ended
  <1>11. ASSUME Launch
       PROVE  ScalarsOK'
    BY <1>11, RestartAssumption DEF ScalarsOK, Host, Launch
  <1>12. ASSUME Edit
       PROVE  ScalarsOK'
    BY <1>12, RestartAssumption DEF ScalarsOK, Host, Edit
  <1>13. QED
    BY <1>1, <1>2, <1>3, <1>4, <1>5, <1>6, <1>7, <1>8, <1>9, <1>10, <1>11,
       <1>12 DEF Next

\* Receipts stay right, and leave the journal only by age.
LEMMA NextReceiptsOK ==
  ASSUME ScalarsOK, ReceiptsOK, HandedOver, [Next]_vars
  PROVE  ReceiptsOK' /\ KeepsTail(journal, journal')
  <1>1. CASE UNCHANGED vars
    BY <1>1, TailReflexive DEF ReceiptsOK, Running, Receipts, vars
  <1>2. ASSUME RequestRestart \/ CancelRestart \/ Edit \/ Touch
       PROVE  ReceiptsOK' /\ KeepsTail(journal, journal')
    BY <1>2, TailReflexive DEF ReceiptsOK, Running, Receipts, RequestRestart,
       Loads, CancelRestart, Edit, Touch
  <1>3. ASSUME OtherAction
       PROVE  ReceiptsOK' /\ KeepsTail(journal, journal')
    <2>1. Running /\ Record("other", "done")
      BY <1>3 DEF OtherAction, Running
    <2>2. UNCHANGED <<host, origin, loadErr>>
      BY <1>3 DEF OtherAction
    <2>3. QED
      BY <2>1, <2>2, RecordProperties DEF ReceiptsOK
  <1>4. ASSUME NEW x \in {"queued", "cancelled", "failed"}, RecordDue(x)
       PROVE  ReceiptsOK' /\ KeepsTail(journal, journal')
    <2>1. Running /\ Record("restart", x)
      BY <1>4 DEF RecordDue, Running
    <2>2. UNCHANGED <<host, origin, loadErr>>
      BY <1>4 DEF RecordDue
    <2>3. QED
      BY <2>1, <2>2, RecordProperties DEF ReceiptsOK
  <1>5. ASSUME Leave
       PROVE  ReceiptsOK' /\ KeepsTail(journal, journal')
    BY <1>5, TailReflexive DEF ReceiptsOK, Running, Receipts, Leave
  <1>6. ASSUME Execute
       PROVE  ReceiptsOK' /\ KeepsTail(journal, journal')
    <2> DEFINE e == Action(host, "restart", "executing")
               f == Action(host, "restart", "failed")
               b == Append(actions, e)
               c == Append(b, f)
    <2>1. /\ Running /\ UNCHANGED <<host, origin>>
          /\ \/ ~loadErr /\ Saved(b, loadErr, TRUE) /\ loadErr' = loadErr
             \/ Saved(b, loadErr, TRUE) /\ phase' = "down"
             \/ \E ok \in BOOLEAN : Saved(c, loadErr, ok) /\ phase' = "down"
      BY <1>6 DEF Execute, Ended, Running
    <2>2. /\ host \in Int /\ e \in Receipt /\ f \in Receipt /\ e.by = host /\ f.by = host
          /\ e.outcome # "completed" /\ f.outcome # "completed" /\ loadErr \in BOOLEAN
      BY <2>1 DEF ScalarsOK, HandedOver, Receipt, Action, Host
    <2>3. /\ actions \in Seq(Receipt) /\ journal \in Seq(Receipt)
          /\ Founded(actions, host, origin) /\ Founded(journal, host, origin)
      BY DEF ReceiptsOK, Receipts
    <2> HIDE DEF e, f
    <2>4. /\ b \in Seq(Receipt) /\ Founded(b, host, origin)
          /\ Len(b) = Len(actions) + 1 /\ \A i \in 1..Len(actions) : b[i] = actions[i]
      BY <2>2, <2>3, OneMore
    <2> HIDE DEF b
    <2>5. /\ c \in Seq(Receipt) /\ Founded(c, host, origin)
          /\ Len(c) = Len(b) + 1 /\ \A i \in 1..Len(b) : c[i] = b[i]
      BY <2>2, <2>4, OneMore
    <2> HIDE DEF c
    <2>6. Len(actions) \in Nat /\ Len(b) \in Nat
      BY <2>3, <2>4, LenProperties
    <2>7. Len(actions) <= Len(c) /\ \A i \in 1..Len(actions) : i \in 1..Len(b)
      BY <2>4, <2>5, <2>6
    <2>8. \A i \in 1..Len(actions) : c[i] = actions[i]
      BY <2>4, <2>5, <2>7
    <2>9. ~loadErr => KeepsTail(journal, Latest(b)) /\ KeepsTail(journal, Latest(c))
      BY <2>1, <2>3, <2>4, <2>5, <2>6, <2>7, <2>8, TailKept DEF ReceiptsOK
    <2>10. /\ readable' \in BOOLEAN
           /\ Receipts(journal') /\ Receipts(actions')
           /\ Founded(journal', host, origin) /\ Founded(actions', host, origin)
           /\ ~loadErr => KeepsTail(journal', actions')
           /\ KeepsTail(journal, journal')
      BY <2>1, <2>2, <2>3, <2>4, <2>5, <2>9, SavedProperties
    <2>11. QED
      BY <2>1, <2>10 DEF ReceiptsOK, Running
  <1>7. ASSUME Exec
       PROVE  ReceiptsOK' /\ KeepsTail(journal, journal')
    <2>1. Running /\ UNCHANGED <<host, origin>> /\ ~Running'
      BY <1>7 DEF Exec, Ended, Running
    <2>2. CASE actions' = <<>> /\ UNCHANGED <<readable, journal>>
      BY <2>1, <2>2, EmptySeq, RestartAssumption, TailReflexive DEF ReceiptsOK, Receipts, Founded
    <2>3. CASE Record("restart", "failed")
      BY <2>1, <2>3, RecordProperties DEF ReceiptsOK
    <2>4. QED
      BY <1>7, <2>2, <2>3 DEF Exec
  <1>8. ASSUME ComeUp
       PROVE  ReceiptsOK' /\ KeepsTail(journal, journal')
    <2> DEFINE h == host + 1
    <2>1. /\ host' = h /\ origin' = [origin EXCEPT ![h] = handoff]
          /\ h \in Host /\ h \in Int /\ host < h /\ host \in Int
      BY <1>8, RestartAssumption DEF ComeUp, ScalarsOK, Host
    <2>2. PICK read \in BOOLEAN, ok \in BOOLEAN :
            /\ loadErr' = ~read
            /\ LET found == IF read THEN journal ELSE <<>>
               IN Saved(Append(found, Opening(h, found)), ~read, ok)
      BY <1>8 DEF ComeUp, ReceiptsOK
    <2> DEFINE found == IF read THEN journal ELSE <<>>
               r == Opening(h, found)
               b == Append(found, r)
    <2>3. found \in Seq(Receipt) /\ journal \in Seq(Receipt) /\ (read => found = journal)
      BY EmptySeq DEF ReceiptsOK, Receipts
    <2>4. \A s \in Seq(Receipt) : Founded(s, host, origin) => Founded(s, h, origin')
      <3>1. SUFFICES ASSUME NEW s \in Seq(Receipt), Founded(s, host, origin), NEW i \in DOMAIN s
                     PROVE  /\ s[i].by <= h
                            /\ s[i].did = "restart" /\ s[i].outcome = "completed" =>
                                 s[i].previous # 0 /\ origin'[s[i].by] = s[i].previous
        BY DEF Founded
      <3>2. s[i].by \in Host /\ s[i].by <= host
        <4>1. i \in 1..Len(s)
          BY <3>1, LenProperties
        <4>2. s[i] \in Receipt
          BY <4>1, ElementOfSeq
        <4>3. QED
          BY <3>1, <4>2 DEF Founded, Receipt
      <3>3. s[i].by <= h /\ s[i].by # h
        BY <3>2, <2>1 DEF Host
      <3>4. origin'[s[i].by] = origin[s[i].by]
        BY <3>2, <3>3, <2>1 DEF ScalarsOK
      <3>5. QED
        BY <3>1, <3>3, <3>4 DEF Founded
    <2>5. Founded(found, h, origin') /\ Founded(journal, h, origin')
      <3>1. Founded(journal, h, origin')
        BY <2>3, <2>4 DEF ReceiptsOK
      <3>2. Founded(<<>>, h, origin')
        BY EmptySeq DEF Founded
      <3>3. QED
        BY <3>1, <3>2
    <2>6. Confirms(found) => handoff # 0
      <3>1. \A i \in DOMAIN found : found[i].by \in Host
        <4>1. DOMAIN found = 1..Len(found)
          BY <2>3, LenProperties
        <4>2. \A i \in 1..Len(found) : found[i] \in Receipt
          BY <2>3, ElementOfSeq
        <4>3. QED
          BY <4>1, <4>2 DEF Receipt
      <3>2. QED
        BY <3>1 DEF Confirms, Executing, RestartBy, Host
    <2> HIDE DEF found
    <2>7. /\ r \in Receipt /\ r.by = h
          /\ r.did = "restart" /\ r.outcome = "completed" =>
               r.previous # 0 /\ origin'[r.by] = r.previous
      <3>1. origin'[h] = handoff
        BY <2>1 DEF ScalarsOK
      <3>2. QED
        BY <2>1, <2>6, <3>1 DEF Opening, Action, Receipt, ScalarsOK
    <2> HIDE DEF r, h
    <2>8. /\ b \in Seq(Receipt) /\ Founded(b, h, origin')
          /\ Len(found) <= Len(b) /\ \A i \in 1..Len(found) : b[i] = found[i]
      <3>1. h \in Int /\ r.by <= h
        BY <2>1, <2>7
      <3>2. QED
        BY <2>3, <2>5, <2>7, <3>1, OneMore
    <2>9. Saved(b, ~read, ok)
      BY <2>2 DEF found, r, h
    <2> HIDE DEF b
    <2>10. read => KeepsTail(journal, Latest(b))
      BY <2>3, <2>8, TailKept, TailReflexive DEF ReceiptsOK
    <2>11. /\ readable' \in BOOLEAN
           /\ Receipts(journal') /\ Receipts(actions')
           /\ Founded(journal', h, origin') /\ Founded(actions', h, origin')
           /\ read => KeepsTail(journal', actions')
           /\ KeepsTail(journal, journal')
      BY <2>1, <2>3, <2>5, <2>8, <2>9, <2>10, SavedProperties
    <2>12. QED
      BY <2>1, <2>2, <2>11 DEF ReceiptsOK
  <1>9. ASSUME Halt
       PROVE  ReceiptsOK' /\ KeepsTail(journal, journal')
    <2>1. UNCHANGED <<readable, journal, host, origin>> /\ actions' = <<>> /\ ~Running'
      BY <1>9 DEF Halt, Ended, Running
    <2>2. QED
      BY <2>1, EmptySeq, RestartAssumption, TailReflexive DEF ReceiptsOK, Receipts, Founded
  <1>10. ASSUME Launch
       PROVE  ReceiptsOK' /\ KeepsTail(journal, journal')
    <2>1. UNCHANGED <<readable, journal, host, origin>> /\ actions' = <<>> /\ ~Running'
      BY <1>10 DEF Launch, Running
    <2>2. QED
      BY <2>1, EmptySeq, RestartAssumption, TailReflexive DEF ReceiptsOK, Receipts, Founded
  <1>11. QED
    BY <1>1, <1>2, <1>3, <1>4, <1>5, <1>6, <1>7, <1>8, <1>9, <1>10 DEF Next

\* The journal holds the word of the old host until the new one reads it.
LEMMA NextHandedOver ==
  ASSUME ScalarsOK, ReceiptsOK, HandedOver, [Next]_vars
  PROVE  HandedOver'
  <1>1. CASE UNCHANGED vars
    BY <1>1 DEF HandedOver, Running, vars
  <1>2. ASSUME RequestRestart \/ CancelRestart \/ Edit \/ Touch
       PROVE  HandedOver'
    BY <1>2 DEF HandedOver, Running, RequestRestart, Loads, CancelRestart,
       Edit, Touch
  <1>3. ASSUME OtherAction
       PROVE  HandedOver'
    BY <1>3 DEF OtherAction, HandedOver, Running
  <1>4. ASSUME NEW x \in {"queued", "cancelled", "failed"}, RecordDue(x)
       PROVE  HandedOver'
    BY <1>4 DEF RecordDue, HandedOver, Running
  <1>5. ASSUME Leave
       PROVE  HandedOver'
    BY <1>5 DEF HandedOver, Running, Leave
  <1>6. ASSUME Execute
       PROVE  HandedOver'
    <2> DEFINE e == Action(host, "restart", "executing")
               b == Append(actions, e)
    <2>1. host' = host /\ host # 0 /\ phase' \in {"replacing", "down"}
          /\ (phase' = "replacing" => journal' = Latest(b))
          /\ (phase' = "down" => handoff' = 0)
      BY <1>6 DEF Execute, Ended, HandedOver, Running, Saved
    <2>2. e \in Receipt /\ RestartBy(host, e) /\ e.outcome = "executing"
      BY <2>1 DEF ScalarsOK, Receipt, Action, Host, RestartBy
    <2>3. actions \in Seq(Receipt)
      BY DEF ReceiptsOK, Receipts
    <2> HIDE DEF e
    <2>4. /\ b \in Seq(Receipt) /\ b # <<>> /\ b[Len(b)] = e
      <3>1. Len(actions) \in Nat /\ b \in Seq(Receipt) /\ Len(b) = Len(actions) + 1
            /\ b[Len(actions) + 1] = e
        BY <2>2, <2>3, AppendProperties, LenProperties
      <3>2. QED
        BY <3>1, EmptySeq
    <2> HIDE DEF b
    <2>5. Latest(b) \in Seq(Receipt) /\ Latest(b) # <<>> /\ Latest(b)[Len(Latest(b))] = e
      BY <2>4, LatestProperties DEF Receipts
    <2>6. Executing(host, Latest(b))
      <3>1. Len(Latest(b)) \in DOMAIN Latest(b) /\ Len(Latest(b)) \in Nat
        BY <2>5, EmptySeq, LenProperties
      <3>2. Len(Latest(b)) + 1..Len(Latest(b)) = {}
        BY <3>1
      <3>3. QED
        BY <2>2, <2>5, <3>1, <3>2 DEF Executing
    <2>7. QED
      BY <2>1, <2>6 DEF HandedOver, Running
  <1>7. ASSUME Exec
       PROVE  HandedOver'
    BY <1>7 DEF Exec, Ended, HandedOver, Running
  <1>8. ASSUME ComeUp
       PROVE  HandedOver'
    BY <1>8 DEF ComeUp, HandedOver, Running, ScalarsOK, Host
  <1>9. ASSUME Halt
       PROVE  HandedOver'
    BY <1>9 DEF HandedOver, Running, Halt, Ended
  <1>10. ASSUME Launch
       PROVE  HandedOver'
    BY <1>10 DEF HandedOver, Running, Launch
  <1>11. QED
    BY <1>1, <1>2, <1>3, <1>4, <1>5, <1>6, <1>7, <1>8, <1>9, <1>10 DEF Next

\* A host that finds the word of the old one confirms the restart.
LEMMA StepConfirms ==
  ASSUME ScalarsOK, ReceiptsOK, HandedOver, [Next]_vars
  PROVE  (phase = "booting" /\ phase' = "up" /\ handoff # 0 /\ ~loadErr' => actions'[Len(actions')].outcome = "completed" /\ actions'[Len(actions')].previous = handoff)
  <1>1. CASE UNCHANGED vars
    BY <1>1 DEF vars
  <1>2. ASSUME OtherAction \/ RequestRestart \/ CancelRestart \/ Edit \/
     Touch
       PROVE  (phase = "booting" /\ phase' = "up" /\ handoff # 0 /\ ~loadErr' => actions'[Len(actions')].outcome = "completed" /\ actions'[Len(actions')].previous = handoff)
    BY <1>2 DEF OtherAction, RequestRestart, Loads, CancelRestart, Edit,
       Touch
  <1>3. ASSUME NEW x \in {"queued", "cancelled", "failed"}, RecordDue(x)
       PROVE  (phase = "booting" /\ phase' = "up" /\ handoff # 0 /\ ~loadErr' => actions'[Len(actions')].outcome = "completed" /\ actions'[Len(actions')].previous = handoff)
    BY <1>3 DEF RecordDue
  <1>4. ASSUME Leave
       PROVE  (phase = "booting" /\ phase' = "up" /\ handoff # 0 /\ ~loadErr' => actions'[Len(actions')].outcome = "completed" /\ actions'[Len(actions')].previous = handoff)
    BY <1>4 DEF Leave
  <1>5. ASSUME Execute
       PROVE  (phase = "booting" /\ phase' = "up" /\ handoff # 0 /\ ~loadErr' => actions'[Len(actions')].outcome = "completed" /\ actions'[Len(actions')].previous = handoff)
    BY <1>5 DEF Execute, Ended
  <1>6. ASSUME Exec
       PROVE  (phase = "booting" /\ phase' = "up" /\ handoff # 0 /\ ~loadErr' => actions'[Len(actions')].outcome = "completed" /\ actions'[Len(actions')].previous = handoff)
    BY <1>6 DEF Exec, Ended
  <1>7. ASSUME ComeUp
       PROVE  (phase = "booting" /\ phase' = "up" /\ handoff # 0 /\ ~loadErr' => actions'[Len(actions')].outcome = "completed" /\ actions'[Len(actions')].previous = handoff)
    <2> SUFFICES ASSUME handoff # 0, ~loadErr'
                 PROVE  /\ actions'[Len(actions')].outcome = "completed"
                        /\ actions'[Len(actions')].previous = handoff
      OBVIOUS
    <2> DEFINE r == Opening(host + 1, journal)
               b == Append(journal, r)
    <2>1. phase = "booting" /\ actions' = Latest(b)
      BY <1>7 DEF ComeUp, Saved
    <2>2. Confirms(journal)
      BY <2>1 DEF HandedOver, Confirms
    <2>3. r \in Receipt /\ r.outcome = "completed" /\ r.previous = handoff
      BY <1>7, <2>2, RestartAssumption DEF ComeUp, Opening, Receipt, ScalarsOK, Host
    <2>4. journal \in Seq(Receipt)
      BY DEF ReceiptsOK, Receipts
    <2> HIDE DEF r
    <2>5. b \in Seq(Receipt) /\ b # <<>> /\ b[Len(b)] = r
      <3>1. Len(journal) \in Nat /\ b \in Seq(Receipt) /\ Len(b) = Len(journal) + 1
            /\ b[Len(journal) + 1] = r
        BY <2>3, <2>4, AppendProperties, LenProperties
      <3>2. QED
        BY <3>1, EmptySeq
    <2> HIDE DEF b
    <2>6. Latest(b)[Len(Latest(b))] = r
      BY <2>5, LatestProperties
    <2>7. QED
      BY <2>1, <2>3, <2>6
  <1>8. ASSUME Halt
       PROVE  (phase = "booting" /\ phase' = "up" /\ handoff # 0 /\ ~loadErr' => actions'[Len(actions')].outcome = "completed" /\ actions'[Len(actions')].previous = handoff)
    BY <1>8 DEF Halt, Ended
  <1>9. ASSUME Launch
       PROVE  (phase = "booting" /\ phase' = "up" /\ handoff # 0 /\ ~loadErr' => actions'[Len(actions')].outcome = "completed" /\ actions'[Len(actions')].previous = handoff)
    BY <1>9 DEF Launch
  <1>10. QED
    BY <1>1, <1>2, <1>3, <1>4, <1>5, <1>6, <1>7, <1>8, <1>9 DEF Next

\* The parts of the invariant.
LEMMA InitInductive == Init => RestartInductive
  <1> SUFFICES ASSUME Init PROVE RestartInductive
    OBVIOUS
  <1>1. <<>> \in Seq(Receipt) /\ Len(<<>>) = 0 /\ DOMAIN <<>> = {}
    BY EmptySeq
  <1>2. loadErr \in BOOLEAN
    BY Zenon DEF Init
  <1>3. ScalarsOK
    BY <1>2, RestartAssumption DEF Init, ScalarsOK, Host
  <1>4. QED
    BY <1>1, <1>3, RestartAssumption DEF Init, RestartInductive, ReceiptsOK, HandedOver, Running,
       Receipts, Founded

\* is kept by every step,
LEMMA NextInductive == RestartInductive /\ [Next]_vars => RestartInductive'
  BY NextScalarsOK, NextReceiptsOK, NextHandedOver DEF RestartInductive

\* and so holds always.
LEMMA Inductive == Spec => []RestartInductive
  BY InitInductive, NextInductive, PTL DEF Spec

-----------------------------------------------------------------------------
(* The theorems.                                                           *)

\* Types.
THEOREM TypesOK == Spec => []TypeOK
  <1>1. RestartInductive => TypeOK
    BY DEF RestartInductive, ScalarsOK, ReceiptsOK, Receipts, TypeOK
  <1>2. QED
    BY <1>1, Inductive, PTL

\* No receipt, in memory or on disk, claims a restart that did not happen.
THEOREM NoFalseConfirmation == Spec => []CompletedFounded
  <1>1. RestartInductive => CompletedFounded
    BY DEF RestartInductive, ReceiptsOK, Founded, CompletedFounded
  <1>2. QED
    BY <1>1, Inductive, PTL

\* A restart that happened is confirmed by every host that can read the
\* journal.
THEOREM ConfirmedOnArrival == Spec => RestartConfirmed
  <1>1. RestartInductive /\ [Next]_vars =>
          [phase = "booting" /\ phase' = "up" /\ handoff # 0 /\ ~loadErr' =>
             LET last == actions'[Len(actions')]
             IN last.outcome = "completed" /\ last.previous = handoff]_vars
    BY StepConfirms DEF RestartInductive
  <1>2. QED
    BY <1>1, Inductive, PTL DEF Spec, RestartConfirmed

\* Nothing but age removes a receipt from the journal.
THEOREM JournalKept == Spec => JournalGrows
  <1>1. RestartInductive /\ [Next]_vars => [KeepsTail(journal, journal')]_vars
    BY NextReceiptsOK DEF RestartInductive
  <1>2. QED
    BY <1>1, Inductive, PTL DEF Spec, JournalGrows
=============================================================================
