---------------------------- MODULE ChatTurnProofs ----------------------------
(***************************************************************************)
(* The safety properties of ChatTurn, for any texts and bounds.  The       *)
(* inductive invariant follows the conversation through memory and store:  *)
(* its order, the session it writes to, how far that session is a copy of  *)
(* it.                                                                     *)
(***************************************************************************)
EXTENDS ChatTurn, SequenceTheorems, TLAPS

\* The history is in order at every moment, and complete outside of a round.
HistoryOK == Ordered(messages) /\ (pc # "tools" => Owed(messages) = 0)

Live == live \in {"open", "closing"}

\* A live conversation writes to a stored session which is a copy of its
\* first persistedLen messages, and which a restart resumes, if any.
CopyOK ==
  Live => /\ current \in DOMAIN disk /\ current \notin gone
          /\ persistedLen = Len(disk[current]) /\ persistedLen <= Len(messages)
          /\ \A i \in 1..persistedLen : /\ disk[current][i].role = messages[i].role
                                        /\ disk[current][i].owed = messages[i].owed
          /\ marker \in {0, current}

\* Nothing is unsaved after a save that worked.
SavedOK == Live /\ pc \in {"emit", "unwind", "idle"} /\ ~unsaved => persistedLen = Len(messages)

\* A turn runs in a live session; Close may overtake its last steps.
TurnLive == pc \notin {"idle", "unwind"} => Live

\* TypeOK in two parts.
ScalarsOK ==
  /\ inbox \subseteq Item
  /\ live \in {"none", "open", "closing", "ended"}
  /\ pc \in Pc
  /\ prompt \in BOOLEAN /\ cancelled \in BOOLEAN /\ reader \in BOOLEAN
  /\ unsaved \in BOOLEAN
  /\ rounds \in 0..MaxRounds /\ turns \in 0..MaxTurns /\ faults \in 0..MaxFaults

SequencesOK ==
  /\ messages \in Seq(Message) /\ persistedLen \in Nat
  /\ disk \in Seq(Seq(Message)) /\ Len(disk) <= MaxSessions
  /\ gone \subseteq DOMAIN disk
  /\ current \in 0..Len(disk) /\ marker \in 0..Len(disk)

TurnInductive ==
  TypeOK /\ TurnLive /\ HistoryOK /\ StoredPaired /\ CopyOK /\ SavedOK /\ GoneIsEmpty

-----------------------------------------------------------------------------
(* Histories.                                                              *)

\* Of a history only roles and owed calls decide on its order.
LEMMA SameOrdered ==
  ASSUME NEW s \in Seq(Message), NEW t \in Seq(Message), Same(s, t)
  PROVE  (Ordered(s) <=> Ordered(t)) /\ Owed(s) = Owed(t)
  <1>1. Len(s) = Len(t) /\ DOMAIN s = 1..Len(s) /\ DOMAIN t = 1..Len(t) /\ Len(s) \in Nat
    BY LenProperties DEF Same
  <1>2. \A i \in 1..Len(s) : s[i].role = t[i].role /\ s[i].owed = t[i].owed
    BY <1>1 DEF Same
  <1>3. \A i \in 1..Len(s) : i > 1 => i - 1 \in 1..Len(s)
    BY <1>1
  <1>4. Ordered(s) <=> Ordered(t)
    BY <1>1, <1>2, <1>3 DEF Ordered
  <1>5. (s = <<>> <=> Len(s) = 0) /\ (t = <<>> <=> Len(t) = 0)
    BY EmptySeq
  <1>6. Len(s) # 0 => Len(s) \in 1..Len(s)
    BY <1>1
  <1>7. Owed(s) = Owed(t)
    BY <1>1, <1>2, <1>5, <1>6 DEF Owed
  <1>8. QED
    BY <1>4, <1>7

\* What a history owes is bounded by the calls of one reply.
LEMMA OwedType ==
  ASSUME NEW s \in Seq(Message), MaxCalls \in Nat
  PROVE  Owed(s) \in 0..MaxCalls
  <1>1. CASE s = <<>>
    BY <1>1 DEF Owed
  <1>2. CASE s # <<>>
    <2>1. Len(s) \in 1..Len(s)
      BY <1>2, EmptySeq, LenProperties
    <2>2. s[Len(s)] \in Message
      BY <2>1, ElementOfSeq
    <2>3. QED
      BY <1>2, <2>2 DEF Owed, Message
  <1>3. QED
    BY <1>1, <1>2

\* The message that comes next.
LEMMA AppendOrdered ==
  ASSUME NEW s \in Seq(Message), NEW m \in Message, Ordered(s),
         IF Owed(s) > 0 THEN m.role = "tool" /\ m.owed = Owed(s) - 1
                        ELSE m.role # "tool"
  PROVE  /\ Append(s, m) \in Seq(Message)
         /\ Ordered(Append(s, m)) /\ Owed(Append(s, m)) = m.owed
  <1>1. DOMAIN s = 1..Len(s) /\ Len(s) \in Nat
    BY LenProperties
  <1>2. /\ Append(s, m) \in Seq(Message) /\ Len(Append(s, m)) = Len(s) + 1
        /\ \A i \in 1..Len(s) : Append(s, m)[i] = s[i]
        /\ Append(s, m)[Len(s) + 1] = m
    BY AppendProperties
  <1>3. DOMAIN Append(s, m) = 1..Len(s) + 1
    BY <1>2, LenProperties
  <1>4. Append(s, m) # <<>>
    BY <1>1, <1>2, EmptySeq
  <1>5. s = <<>> <=> Len(s) = 0
    BY EmptySeq
  <1>6. ASSUME NEW i \in 1..Len(s) + 1
        PROVE  IF i > 1 /\ Append(s, m)[i - 1].owed > 0
                 THEN Append(s, m)[i].role = "tool"
                      /\ Append(s, m)[i].owed = Append(s, m)[i - 1].owed - 1
                 ELSE Append(s, m)[i].role # "tool"
    <2>1. CASE i \in 1..Len(s)
      <3>1. i > 1 => i - 1 \in 1..Len(s)
        BY <1>1, <2>1
      <3>2. QED
        BY <1>1, <1>2, <2>1, <3>1 DEF Ordered
    <2>2. CASE i = Len(s) + 1
      <3>1. CASE Len(s) = 0
        BY <1>2, <1>5, <2>2, <3>1 DEF Owed
      <3>2. CASE Len(s) # 0
        <4>1. i > 1 /\ i - 1 = Len(s) /\ Len(s) \in 1..Len(s)
          BY <1>1, <2>2, <3>2
        <4>2. Append(s, m)[i - 1].owed = Owed(s) /\ Append(s, m)[i] = m
          BY <1>2, <1>5, <2>2, <3>2, <4>1 DEF Owed
        <4>3. QED
          BY <4>1, <4>2
      <3>3. QED
        BY <3>1, <3>2
    <2>3. QED
      BY <1>1, <2>1, <2>2
  <1>7. Ordered(Append(s, m))
    BY <1>3, <1>6 DEF Ordered
  <1>8. Owed(Append(s, m)) = m.owed
    BY <1>2, <1>4 DEF Owed
  <1>9. QED
    BY <1>2, <1>7, <1>8

\* Whatever cut an exchange off, one answer for each call completes it.
LEMMA AnswersPair ==
  ASSUME NEW s \in Seq(Message), Ordered(s), MaxCalls \in Nat
  PROVE  s \o Answers(s) \in Seq(Message) /\ Paired(s \o Answers(s))
         /\ Len(s) <= Len(s \o Answers(s))
         /\ \A i \in 1..Len(s) : (s \o Answers(s))[i] = s[i]
  <1> DEFINE n == Owed(s)
             a == Answers(s)
             t == s \o a
  <1>1. n \in 0..MaxCalls
    BY OwedType
  <1>2. DOMAIN s = 1..Len(s) /\ Len(s) \in Nat
    BY LenProperties
  <1>3. a = [i \in 1..n |-> [role |-> "tool", owed |-> n - i, stub |-> FALSE]]
    BY DEF Answers, Msg
  <1>4. \A i \in 1..n : n - i \in 0..MaxCalls
    BY <1>1
  <1>5. a \in [1..n -> Message]
    BY <1>3, <1>4 DEF Message
  <1>6. a \in Seq(Message) /\ Len(a) = n
    <2>1. a \in Seq(Message)
      BY <1>1, <1>5, SeqDef
    <2>2. DOMAIN a = 1..n
      BY <1>5
    <2>3. QED
      BY <1>1, <2>1, <2>2, LenProperties
  <1>7. /\ t \in Seq(Message) /\ Len(t) = Len(s) + n
        /\ \A i \in 1..Len(t) : t[i] = IF i <= Len(s) THEN s[i] ELSE a[i - Len(s)]
    BY <1>6, ConcatProperties
  <1>8. /\ \A i \in 1..Len(s) : t[i] = s[i]
        /\ \A i \in 1..n : t[Len(s) + i] = a[i]
    BY <1>1, <1>2, <1>7
  <1>9. n = Owed(s) /\ \A i \in 1..n : a[i].role = "tool" /\ a[i].owed = n - i
    BY <1>3
  <1> HIDE DEF n, a, t
  <1>10. DOMAIN t = 1..Len(s) + n
    BY <1>7, LenProperties
  <1>11. s = <<>> <=> Len(s) = 0
    BY EmptySeq
  <1>12. ASSUME NEW i \in 1..Len(s) + n
         PROVE  IF i > 1 /\ t[i - 1].owed > 0
                  THEN t[i].role = "tool" /\ t[i].owed = t[i - 1].owed - 1
                  ELSE t[i].role # "tool"
    <2>1. CASE i \in 1..Len(s)
      <3>1. i > 1 => i - 1 \in 1..Len(s)
        BY <1>2, <2>1
      <3>2. QED
        BY <1>2, <1>8, <2>1, <3>1 DEF Ordered
    <2>2. CASE i = Len(s) + 1
      <3>1. n > 0 /\ t[i] = a[1] /\ 1 \in 1..n
        BY <1>1, <1>2, <1>8, <2>2
      <3>2. Len(s) # 0 /\ Len(s) \in 1..Len(s)
        BY <1>2, <1>9, <1>11, <3>1 DEF Owed
      <3>3. i > 1 /\ t[i - 1].owed = n
        BY <1>2, <1>8, <1>9, <1>11, <2>2, <3>2 DEF Owed
      <3>4. t[i].role = "tool" /\ t[i].owed = n - 1
        BY <1>9, <3>1
      <3>5. QED
        BY <3>1, <3>3, <3>4
    <2>3. CASE i > Len(s) + 1
      <3> DEFINE j == i - Len(s)
      <3>1. j \in 2..n /\ j - 1 \in 1..n /\ j \in 1..n
        BY <1>1, <1>2, <2>3
      <3>2. t[i] = a[j] /\ t[i - 1] = a[j - 1]
        BY <1>1, <1>2, <1>8, <3>1
      <3>3. t[i].role = "tool" /\ t[i].owed = n - j /\ t[i - 1].owed = n - (j - 1)
        BY <1>9, <3>1, <3>2
      <3>4. i > 1 /\ n - (j - 1) > 0 /\ n - j = (n - (j - 1)) - 1
        BY <1>1, <1>2, <2>3, <3>1
      <3>5. QED
        BY <3>3, <3>4
    <2>4. QED
      BY <1>1, <1>2, <2>1, <2>2, <2>3
  <1>13. Ordered(t)
    BY <1>10, <1>12 DEF Ordered
  <1>14. Owed(t) = 0
    <2>1. CASE n = 0
      <3>1. Len(t) = Len(s) /\ (t = <<>> <=> Len(t) = 0)
        BY <1>2, <1>7, <2>1, EmptySeq
      <3>2. Len(s) # 0 => t[Len(s)] = s[Len(s)]
        BY <1>2, <1>8
      <3>3. Owed(s) = 0
        BY <1>9, <2>1
      <3>4. QED
        BY <1>11, <3>1, <3>2, <3>3 DEF Owed
    <2>2. CASE n > 0
      <3>1. t # <<>> /\ n \in 1..n
        BY <1>1, <1>2, <1>7, <2>2, EmptySeq
      <3>2. t[Len(t)] = a[n]
        BY <1>7, <1>8, <3>1
      <3>3. a[n].owed = 0
        BY <1>1, <1>9, <3>1
      <3>4. QED
        BY <3>1, <3>2, <3>3 DEF Owed
    <2>3. QED
      BY <1>1, <2>1, <2>2
  <1>15. QED
    BY <1>1, <1>2, <1>7, <1>8, <1>13, <1>14 DEF Paired, t, a

\* A summary in place of the head, if the tail starts no exchange half way.
LEMMA CutOrdered ==
  ASSUME NEW s \in Seq(Message), Ordered(s), NEW c \in 1..Len(s) - 1,
         s[c + 1].role # "tool", MaxCalls \in Nat
  PROVE  LET t == <<Msg("user", 0)>> \o SubSeq(s, c + 1, Len(s))
         IN t \in Seq(Message) /\ Ordered(t) /\ Owed(t) = Owed(s)
  <1> DEFINE h == <<Msg("user", 0)>>
             u == SubSeq(s, c + 1, Len(s))
             t == h \o u
  <1>1. DOMAIN s = 1..Len(s) /\ Len(s) \in Nat
    BY LenProperties
  <1>2. /\ u \in Seq(Message) /\ Len(u) = Len(s) - c
        /\ \A i \in 1..Len(s) - c : u[i] = s[c + i]
    <2>1. c + 1 \in Int /\ Len(s) \in Int /\ c + 1 <= Len(s)
          /\ \A i \in c + 1 .. Len(s) : s[i] \in Message
      BY <1>1, ElementOfSeq
    <2>2. /\ u \in Seq(Message) /\ Len(u) = Len(s) - (c + 1) + 1
          /\ \A i \in 1..Len(s) - (c + 1) + 1 : u[i] = s[c + 1 + i - 1]
      BY <1>1, <2>1, SubSeqProperties
    <2>3. Len(s) - (c + 1) + 1 = Len(s) - c
      BY <1>1
    <2>4. \A i \in 1..Len(s) - c : c + 1 + i - 1 = c + i
      BY <1>1
    <2>5. QED
      BY <2>2, <2>3, <2>4
  <1>3. Msg("user", 0) \in Message
    BY DEF Msg, Message
  <1>4. h \in Seq(Message) /\ Len(h) = 1 /\ h[1] = Msg("user", 0)
    BY <1>3
  <1>5. /\ t \in Seq(Message) /\ Len(t) = 1 + (Len(s) - c)
        /\ \A i \in 1..Len(t) : t[i] = IF i <= 1 THEN h[i] ELSE u[i - 1]
    BY <1>2, <1>4, ConcatProperties
  <1>6. t[1].role = "user" /\ t[1].owed = 0
    BY <1>1, <1>4, <1>5 DEF Msg
  <1>7. \A i \in 2..Len(t) : t[i] = s[c + i - 1] /\ c + i - 1 \in 1..Len(s)
    <2>1. ASSUME NEW i \in 2..Len(t)
          PROVE  t[i] = s[c + i - 1] /\ c + i - 1 \in 1..Len(s)
      <3>1. i \in 1..Len(t) /\ ~(i <= 1) /\ i - 1 \in 1..Len(s) - c
        BY <1>1, <1>5
      <3>2. t[i] = u[i - 1]
        BY <1>5, <3>1
      <3>3. u[i - 1] = s[c + (i - 1)]
        BY <1>2, <3>1
      <3>4. c + (i - 1) = c + i - 1 /\ c + i - 1 \in 1..Len(s)
        BY <1>1, <3>1
      <3>5. QED
        BY <3>2, <3>3, <3>4
    <2>2. QED
      BY <2>1
  <1>8. DOMAIN t = 1..Len(t)
    BY <1>5, LenProperties
  <1>9. ASSUME NEW i \in 1..Len(t)
        PROVE  IF i > 1 /\ t[i - 1].owed > 0
                 THEN t[i].role = "tool" /\ t[i].owed = t[i - 1].owed - 1
                 ELSE t[i].role # "tool"
    <2>1. CASE i = 1
      BY <1>6, <2>1
    <2>2. CASE i = 2
      <3>1. t[2] = s[c + 1]
        <4>1. 2 \in 2..Len(t) /\ c + 2 - 1 = c + 1
          BY <1>1, <1>5
        <4>2. QED
          BY <1>7, <4>1
      <3>2. QED
        BY <1>6, <2>2, <3>1
    <2>3. CASE i > 2
      <3> DEFINE k == c + i - 1
      <3>1. i \in 2..Len(t) /\ i - 1 \in 2..Len(t) /\ c + (i - 1) - 1 = k - 1
        BY <1>1, <1>5, <2>3
      <3>2. t[i] = s[k] /\ t[i - 1] = s[k - 1] /\ k \in 1..Len(s)
        BY <1>7, <3>1
      <3>3. k > 1 /\ i > 1
        BY <2>3
      <3>4. IF k > 1 /\ s[k - 1].owed > 0
              THEN s[k].role = "tool" /\ s[k].owed = s[k - 1].owed - 1
              ELSE s[k].role # "tool"
        BY <1>1, <3>2 DEF Ordered
      <3>5. QED
        BY <3>2, <3>3, <3>4
    <2>4. QED
      BY <1>5, <2>1, <2>2, <2>3
  <1>10. Ordered(t)
    BY <1>8, <1>9 DEF Ordered
  <1>11. Owed(t) = Owed(s)
    <2>1. s # <<>> /\ t # <<>>
      BY <1>1, <1>5, EmptySeq
    <2>2. Len(t) \in 2..Len(t) /\ c + Len(t) - 1 = Len(s)
      BY <1>1, <1>5
    <2>3. t[Len(t)] = s[Len(s)]
      BY <1>7, <2>2
    <2>4. QED
      BY <2>1, <2>3 DEF Owed
  <1>12. QED
    BY <1>5, <1>10, <1>11

-----------------------------------------------------------------------------
(* Steps.                                                                  *)

\* The bounds are numbers.
LEMMA BoundsNat ==
  /\ MaxTurns \in Nat /\ MaxRounds \in Nat /\ MaxCalls \in Nat
  /\ MaxSessions \in Nat /\ MaxFaults \in Nat
  BY TurnAssumption DEF TurnAssumption

\* The sessions after a save.
Saved == [disk EXCEPT ![current] = disk[current] \o Pending]

\* What a save makes of the session: a copy of the whole history.
LEMMA SaveCopies ==
  ASSUME TypeOK, CopyOK, Live
  PROVE  /\ Saved \in Seq(Seq(Message)) /\ Len(Saved) = Len(disk) /\ DOMAIN Saved = DOMAIN disk
         /\ \A s \in DOMAIN disk : s # current => Saved[s] = disk[s]
         /\ Saved[current] \in Seq(Message) /\ Same(messages, Saved[current])
  <1> DEFINE new == disk[current] \o Pending
  <1>1. /\ messages \in Seq(Message) /\ Len(messages) \in Nat
        /\ DOMAIN messages = 1..Len(messages)
    BY LenProperties DEF TypeOK
  <1>2. /\ current \in DOMAIN disk /\ persistedLen = Len(disk[current])
        /\ persistedLen <= Len(messages)
        /\ \A i \in 1..persistedLen : /\ disk[current][i].role = messages[i].role
                                      /\ disk[current][i].owed = messages[i].owed
    BY DEF CopyOK
  <1>3. disk \in Seq(Seq(Message)) /\ DOMAIN disk = 1..Len(disk) /\ Len(disk) \in Nat
    BY LenProperties DEF TypeOK
  <1>4. disk[current] \in Seq(Message) /\ persistedLen \in Nat
    BY <1>2, <1>3, ElementOfSeq DEF TypeOK
  <1>5. /\ Pending \in Seq(Message) /\ Len(Pending) = Len(messages) - persistedLen
        /\ \A i \in 1..Len(messages) - persistedLen : Pending[i] = messages[persistedLen + i]
    <2>1. /\ persistedLen + 1 \in Int /\ Len(messages) \in Int
          /\ \A i \in persistedLen + 1 .. Len(messages) : messages[i] \in Message
      BY <1>1, <1>4, ElementOfSeq
    <2>2. /\ Pending \in Seq(Message)
          /\ Len(Pending) = IF persistedLen + 1 <= Len(messages)
                              THEN Len(messages) - (persistedLen + 1) + 1 ELSE 0
          /\ \A i \in 1..Len(messages) - (persistedLen + 1) + 1 :
               Pending[i] = messages[persistedLen + 1 + i - 1]
      BY <2>1, SubSeqProperties DEF Pending
    <2>3. /\ Len(messages) - (persistedLen + 1) + 1 = Len(messages) - persistedLen
          /\ \A i \in 1..Len(messages) - persistedLen :
               persistedLen + 1 + i - 1 = persistedLen + i
      BY <1>1, <1>4
    <2>4. persistedLen + 1 <= Len(messages) \/ Len(messages) - persistedLen = 0
      <3>1. \A m, n \in Nat : m <= n => m + 1 <= n \/ n - m = 0
        OBVIOUS
      <3>2. persistedLen \in Nat /\ Len(messages) \in Nat /\ persistedLen <= Len(messages)
        BY <1>1, <1>2, <1>4
      <3>3. QED
        BY <3>1, <3>2
    <2>5. Len(Pending) = Len(messages) - persistedLen
      BY <2>2, <2>3, <2>4
    <2>6. QED
      BY <2>2, <2>3, <2>5
  <1>6. /\ new \in Seq(Message) /\ Len(new) = Len(messages)
        /\ \A i \in 1..Len(new) :
             new[i] = IF i <= persistedLen THEN disk[current][i] ELSE Pending[i - persistedLen]
    <2>1. /\ new \in Seq(Message) /\ Len(new) = Len(disk[current]) + Len(Pending)
          /\ \A i \in 1..Len(new) :
               new[i] = IF i <= Len(disk[current]) THEN disk[current][i]
                                                   ELSE Pending[i - Len(disk[current])]
      <3>1. \A u, v \in Seq(Message) :
              /\ u \o v \in Seq(Message) /\ Len(u \o v) = Len(u) + Len(v)
              /\ \A i \in 1..Len(u \o v) :
                   (u \o v)[i] = IF i <= Len(u) THEN u[i] ELSE v[i - Len(u)]
        BY ConcatProperties
      <3>2. QED
        BY <1>4, <1>5, <3>1
    <2>2. QED
      BY <1>1, <1>2, <1>4, <1>5, <2>1
  <1>7. Same(messages, new)
    <2>1. ASSUME NEW i \in 1..Len(messages)
          PROVE  messages[i].role = new[i].role /\ messages[i].owed = new[i].owed
      <3>1. CASE i <= persistedLen
        BY <1>2, <1>4, <1>6, <2>1, <3>1
      <3>2. CASE ~(i <= persistedLen)
        <4>1. i - persistedLen \in 1..Len(messages) - persistedLen
              /\ persistedLen + (i - persistedLen) = i
          BY <1>1, <1>4, <2>1, <3>2
        <4>2. new[i] = messages[i]
          BY <1>5, <1>6, <2>1, <3>2, <4>1
        <4>3. QED
          BY <4>2
      <3>3. QED
        BY <3>1, <3>2
    <2>2. QED
      BY <1>1, <1>6, <2>1 DEF Same
  <1>8. /\ Saved \in Seq(Seq(Message)) /\ Len(Saved) = Len(disk)
        /\ Saved[current] = new /\ \A s \in DOMAIN disk : s # current => Saved[s] = disk[s]
    BY <1>2, <1>3, <1>6, ExceptSeq DEF Saved
  <1>9. DOMAIN Saved = DOMAIN disk
    BY <1>3, <1>8, LenProperties
  <1>10. QED
    BY <1>6, <1>7, <1>8, <1>9

\* Pruning leaves the order alone.
LEMMA PruneSame ==
  ASSUME TypeOK, NEW c \in DOMAIN messages, Prune(c)
  PROVE  messages' \in Seq(Message) /\ Same(messages, messages')
  <1>1. DOMAIN messages = 1..Len(messages) /\ Len(messages) \in Nat
    BY LenProperties DEF TypeOK
  <1>2. \A i \in 1..Len(messages) : messages[i] \in Message
    BY <1>1, ElementOfSeq DEF TypeOK
  <1>3. messages' = [i \in 1..Len(messages) |->
                       IF i <= c /\ messages[i].role = "tool"
                         THEN [messages[i] EXCEPT !.stub = TRUE] ELSE messages[i]]
    BY <1>1 DEF Prune
  <1>4. \A i \in 1..Len(messages) :
          messages'[i] \in Message /\ messages'[i].role = messages[i].role
          /\ messages'[i].owed = messages[i].owed
    BY <1>2, <1>3 DEF Message
  <1>5. messages' \in [1..Len(messages) -> Message]
    BY <1>3, <1>4
  <1>6. messages' \in Seq(Message)
    BY <1>1, <1>5, SeqDef
  <1>7. Len(messages') = Len(messages)
    BY <1>1, <1>5, <1>6, LenProperties
  <1>8. QED
    BY <1>1, <1>4, <1>6, <1>7 DEF Same

\* The continuation that compaction starts.
Continuation(c) == <<Msg("user", 0)>> \o SubSeq(messages, c + 1, Len(messages))

\* A compaction, in the terms of the lemmas on histories.
LEMMA CompactStep ==
  ASSUME NEW c, Compact(c)
  PROVE  /\ pc = "compact" /\ pc' = "assemble" /\ Cut(c) /\ Len(disk) < MaxSessions
         /\ disk' = Append(Saved, Continuation(c))
         /\ marker' = IF marker = current THEN Len(disk) + 1 ELSE marker
         /\ current' = Len(disk) + 1
         /\ messages' = Continuation(c) /\ persistedLen' = Len(messages')
         /\ UNCHANGED <<live, gone, unsaved>>
  BY DEF Compact, Continuation, RollSession, CompactInto, Saved

\* What compaction makes of a complete history.
LEMMA CompactKeeps ==
  ASSUME TypeOK, HistoryOK, NEW c, Compact(c)
  PROVE  messages' \in Seq(Message) /\ Paired(messages') /\ persistedLen' = Len(messages')
         /\ Len(messages') \in Nat
  <1> DEFINE t == Continuation(c)
  <1>1. messages' = t /\ persistedLen' = Len(t) /\ pc = "compact"
    BY CompactStep
  <1>2. c \in 1..Len(messages) - 1 /\ messages[c + 1].role # "tool"
    BY CompactStep DEF Cut
  <1>3. messages \in Seq(Message) /\ Ordered(messages) /\ Owed(messages) = 0
    BY <1>1 DEF TypeOK, HistoryOK
  <1>4. t \in Seq(Message) /\ Ordered(t) /\ Owed(t) = Owed(messages)
    BY <1>2, <1>3, BoundsNat, CutOrdered DEF Continuation
  <1>5. QED
    BY <1>1, <1>3, <1>4, LenProperties DEF Paired

\* A message of the user keeps a complete history complete.
LEMMA UserGrows ==
  ASSUME NEW s \in Seq(Message), Paired(s)
  PROVE  /\ Append(s, Msg("user", 0)) \in Seq(Message) /\ Paired(Append(s, Msg("user", 0)))
         /\ Len(Append(s, Msg("user", 0))) = Len(s) + 1
         /\ \A i \in 1..Len(s) : Append(s, Msg("user", 0))[i] = s[i]
  <1>1. Msg("user", 0) \in Message /\ Msg("user", 0).role = "user" /\ Msg("user", 0).owed = 0
    BY BoundsNat DEF Msg, Message
  <1>2. Ordered(s) /\ Owed(s) = 0
    BY DEF Paired
  <1>3. /\ Append(s, Msg("user", 0)) \in Seq(Message)
        /\ Ordered(Append(s, Msg("user", 0))) /\ Owed(Append(s, Msg("user", 0))) = 0
    BY <1>1, <1>2, AppendOrdered
  <1>4. QED
    BY <1>1, <1>3, AppendProperties DEF Paired

\* Every other step of a turn adds to the history what may come next.
Grown ==
  /\ messages' \in Seq(Message) /\ Ordered(messages')
  /\ pc' # "tools" => Owed(messages') = 0
  /\ Len(messages) <= Len(messages')
  /\ \A i \in 1..Len(messages) : messages'[i] = messages[i]

\* A step of a turn only adds to the history.
LEMMA TurnGrows ==
  ASSUME TypeOK, HistoryOK,
         Panic \/ Assemble \/ Reply \/ ToolCall \/ ToolsCancelled
           \/ \E n \in 1..MaxCalls : Calls(n)
  PROVE  Grown
  <1>1. messages \in Seq(Message) /\ Ordered(messages) /\ Len(messages) \in Nat
    BY LenProperties DEF TypeOK, HistoryOK
  <1>2. CASE Panic \/ ToolsCancelled
    <2>1. messages' = messages \o Answers(messages)
      BY <1>2 DEF Panic, ToolsCancelled
    <2>2. QED
      BY <1>1, <2>1, BoundsNat, AnswersPair DEF Grown, Paired
  <1>3. CASE Assemble
    <2> DEFINE asked == IF prompt THEN Append(messages, Msg("user", 0)) ELSE messages
    <2>1. Paired(messages) /\ messages' = Traced(asked)
      BY <1>1, <1>3 DEF Assemble, HistoryOK, Paired
    <2>2. /\ asked \in Seq(Message) /\ Paired(asked) /\ Len(messages) <= Len(asked)
          /\ Len(asked) \in Nat
          /\ \A i \in 1..Len(messages) : asked[i] = messages[i]
      BY <1>1, <2>1, UserGrows, LenProperties
    <2> HIDE DEF asked
    <2>3. /\ messages' \in Seq(Message) /\ Paired(messages') /\ Len(asked) <= Len(messages')
          /\ \A i \in 1..Len(asked) : messages'[i] = asked[i]
      <3>1. CASE Texts(Notice) # {}
        <4>1. messages' = Append(asked, Msg("user", 0))
          BY <2>1, <3>1 DEF Traced
        <4>2. QED
          BY <2>2, <4>1, UserGrows
      <3>2. CASE Texts(Notice) = {}
        <4>1. messages' = asked
          BY <2>1, <3>2 DEF Traced
        <4>2. QED
          BY <2>2, <4>1
      <3>3. QED
        BY <3>1, <3>2
    <2>4. \A i \in 1..Len(messages) : i \in 1..Len(asked)
      BY <1>1, <2>2
    <2>5. Len(messages') \in Nat
      BY <2>3, LenProperties
    <2>6. QED
      BY <1>1, <2>2, <2>3, <2>4, <2>5 DEF Grown, Paired
  <1>4. CASE Reply
    <2>1. Owed(messages) = 0 /\ pc' = "save"
      BY <1>4 DEF Reply, Streams, HistoryOK
    <2>2. CASE messages' = messages
      BY <1>1, <2>1, <2>2 DEF Grown
    <2>3. CASE messages' = Append(messages, Msg("assistant", 0))
      <3>1. /\ Msg("assistant", 0) \in Message /\ Msg("assistant", 0).role = "assistant"
            /\ Msg("assistant", 0).owed = 0
        BY BoundsNat DEF Msg, Message
      <3>2. /\ messages' \in Seq(Message) /\ Ordered(messages') /\ Owed(messages') = 0
        BY <1>1, <2>1, <2>3, <3>1, AppendOrdered
      <3>3. QED
        BY <1>1, <2>3, <3>1, <3>2, AppendProperties DEF Grown
    <2>4. QED
      BY <1>4, <2>2, <2>3 DEF Reply
  <1>5. CASE ToolCall
    <2>1. /\ Owed(messages) > 0 /\ messages' = Append(messages, Msg("tool", Owed(messages) - 1))
          /\ pc = "tools" /\ pc' = pc
      BY <1>5 DEF ToolCall, turn
    <2>2. Owed(messages) \in 0..MaxCalls
      BY <1>1, BoundsNat, OwedType
    <2>3. /\ Msg("tool", Owed(messages) - 1) \in Message
          /\ Msg("tool", Owed(messages) - 1).role = "tool"
          /\ Msg("tool", Owed(messages) - 1).owed = Owed(messages) - 1
      BY <2>1, <2>2, BoundsNat DEF Msg, Message
    <2>4. /\ messages' \in Seq(Message) /\ Ordered(messages')
      BY <1>1, <2>1, <2>3, AppendOrdered
    <2>5. QED
      BY <1>1, <2>1, <2>3, <2>4, AppendProperties DEF Grown
  <1>6. ASSUME NEW n \in 1..MaxCalls, Calls(n)
        PROVE  Grown
    <2>1. /\ Owed(messages) = 0 /\ messages' = Append(messages, Msg("assistant", n))
          /\ pc' = "tools"
      BY <1>6 DEF Calls, Streams, HistoryOK, TypeOK
    <2>2. /\ Msg("assistant", n) \in Message /\ Msg("assistant", n).role = "assistant"
      BY BoundsNat DEF Msg, Message
    <2>3. /\ messages' \in Seq(Message) /\ Ordered(messages')
      BY <1>1, <2>1, <2>2, AppendOrdered
    <2>4. QED
      BY <1>1, <2>1, <2>2, <2>3, AppendProperties DEF Grown
  <1>7. QED
    BY <1>2, <1>3, <1>4, <1>5, <1>6

\* Every step preserves the types.
LEMMA NextScalarsOK ==
  ASSUME ScalarsOK, [Next]_vars
  PROVE  ScalarsOK'
  <1>1. CASE UNCHANGED vars
    BY <1>1, BoundsNat DEF ScalarsOK, Pc, vars, memory, turn, store, bounds
  <1>2. ASSUME MarkCurrent \/ ToolCall
       PROVE  ScalarsOK'
    BY <1>2, BoundsNat DEF ScalarsOK, Pc, MarkCurrent, ToolCall, memory,
       turn, store, bounds
  <1>3. ASSUME Open
       PROVE  ScalarsOK'
    BY <1>3, BoundsNat DEF ScalarsOK, Pc, Open, Seed, Loads, turn, bounds
  <1>4. ASSUME Close
       PROVE  ScalarsOK'
    BY <1>4, BoundsNat DEF ScalarsOK, Pc, Close, memory, store, bounds
  <1>5. ASSUME CloseEnds
       PROVE  ScalarsOK'
    BY <1>5, BoundsNat DEF ScalarsOK, Pc, CloseEnds, EndSession, memory,
       turn, bounds
  <1>6. ASSUME Crash
       PROVE  ScalarsOK'
    <2>1. /\ prompt' \in BOOLEAN /\ cancelled' \in BOOLEAN /\ reader' \in BOOLEAN
          /\ unsaved' \in BOOLEAN
      BY <1>6, Zenon DEF ScalarsOK, Crash
    <2>2. /\ inbox' \subseteq Item /\ live' \in {"none", "open", "closing", "ended"} /\ pc' \in Pc
          /\ rounds' \in 0..MaxRounds /\ turns' \in 0..MaxTurns /\ faults' \in 0..MaxFaults
      BY <1>6, BoundsNat DEF ScalarsOK, Pc, Crash, Fault, store
    <2>3. QED
      BY <2>1, <2>2 DEF ScalarsOK
  <1>7. ASSUME NEW x \in Item, Interject(x)
       PROVE  ScalarsOK'
    BY <1>7, BoundsNat DEF ScalarsOK, Pc, Interject, turn, store, bounds
  <1>8. ASSUME NEW b \in BOOLEAN, Send(b)
       PROVE  ScalarsOK'
    BY <1>8, BoundsNat DEF ScalarsOK, Pc, Send, memory, store
  <1>9. ASSUME Cancel
       PROVE  ScalarsOK'
    BY <1>9, BoundsNat DEF ScalarsOK, Pc, Cancel, Fault, memory, store
  <1>10. ASSUME Abandon
       PROVE  ScalarsOK'
    <2>1. /\ prompt' \in BOOLEAN /\ cancelled' \in BOOLEAN /\ reader' \in BOOLEAN
          /\ unsaved' \in BOOLEAN
      BY <1>10, Zenon DEF ScalarsOK, Abandon
    <2>2. /\ inbox' \subseteq Item /\ live' \in {"none", "open", "closing", "ended"} /\ pc' \in Pc
          /\ rounds' \in 0..MaxRounds /\ turns' \in 0..MaxTurns /\ faults' \in 0..MaxFaults
      BY <1>10, BoundsNat DEF ScalarsOK, Pc, Abandon, Fault, memory, store
    <2>3. QED
      BY <2>1, <2>2 DEF ScalarsOK
  <1>11. ASSUME Panic
       PROVE  ScalarsOK'
    BY <1>11, BoundsNat DEF ScalarsOK, Pc, Panic, Fault, store
  <1>12. ASSUME SkipCompact
       PROVE  ScalarsOK'
    BY <1>12, BoundsNat DEF ScalarsOK, Pc, SkipCompact, memory, store, bounds
  <1>13. ASSUME Assemble
       PROVE  ScalarsOK'
    BY <1>13, BoundsNat DEF ScalarsOK, Pc, Assemble, DrainInbox,
       NothingToAsk, store, bounds
  <1>14. ASSUME Reply
       PROVE  ScalarsOK'
    BY <1>14, BoundsNat DEF ScalarsOK, Pc, Reply, Streams, store, bounds
  <1>15. ASSUME StreamFails
       PROVE  ScalarsOK'
    BY <1>15, BoundsNat DEF ScalarsOK, Pc, StreamFails, Fault, memory, store
  <1>16. ASSUME ToolsCancelled
       PROVE  ScalarsOK'
    BY <1>16, BoundsNat DEF ScalarsOK, Pc, ToolsCancelled, store, bounds
  <1>17. ASSUME NextRound
       PROVE  ScalarsOK'
    BY <1>17, BoundsNat DEF ScalarsOK, Pc, NextRound, DrainInbox, store,
       bounds
  <1>18. ASSUME SaveHistory
       PROVE  ScalarsOK'
    <2>1. /\ prompt' \in BOOLEAN /\ cancelled' \in BOOLEAN /\ reader' \in BOOLEAN
          /\ unsaved' \in BOOLEAN
      BY <1>18, Zenon DEF ScalarsOK, SaveHistory
    <2>2. /\ inbox' \subseteq Item /\ live' \in {"none", "open", "closing", "ended"} /\ pc' \in Pc
          /\ rounds' \in 0..MaxRounds /\ turns' \in 0..MaxTurns /\ faults' \in 0..MaxFaults
      BY <1>18, BoundsNat DEF ScalarsOK, Pc, SaveHistory, AppendMessages, Fault
    <2>3. QED
      BY <2>1, <2>2 DEF ScalarsOK
  <1>19. ASSUME TerminalEvent
       PROVE  ScalarsOK'
    BY <1>19, BoundsNat DEF ScalarsOK, Pc, TerminalEvent, memory, store,
       bounds
  <1>20. ASSUME Unwind
       PROVE  ScalarsOK'
    <2>1. /\ prompt' \in BOOLEAN /\ cancelled' \in BOOLEAN /\ reader' \in BOOLEAN
          /\ unsaved' \in BOOLEAN
      BY <1>20, Zenon DEF ScalarsOK, Unwind
    <2>2. /\ inbox' \subseteq Item /\ live' \in {"none", "open", "closing", "ended"} /\ pc' \in Pc
          /\ rounds' \in 0..MaxRounds /\ turns' \in 0..MaxTurns /\ faults' \in 0..MaxFaults
      BY <1>20, BoundsNat DEF ScalarsOK, Pc, Unwind, memory, store, bounds
    <2>3. QED
      BY <2>1, <2>2 DEF ScalarsOK
  <1>21. ASSUME NEW n \in 1..MaxCalls, Calls(n)
       PROVE  ScalarsOK'
    BY <1>21, BoundsNat DEF ScalarsOK, Pc, Calls, Streams, store, bounds
  <1>22. ASSUME NEW c \in DOMAIN messages, Prune(c)
       PROVE  ScalarsOK'
    BY <1>22, BoundsNat DEF ScalarsOK, Pc, Prune, store, bounds
  <1>23. ASSUME NEW c \in DOMAIN messages, Compact(c)
       PROVE  ScalarsOK'
    BY <1>23, BoundsNat DEF ScalarsOK, Pc, Compact, RollSession, CompactInto,
       bounds
  <1>24. QED
    BY <1>1, <1>2, <1>3, <1>4, <1>5, <1>6, <1>7, <1>8, <1>9, <1>10, <1>11,
       <1>12, <1>13, <1>14, <1>15, <1>16, <1>17, <1>18, <1>19, <1>20, <1>21,
       <1>22, <1>23 DEF Next, TurnStep, RunQueued

\* And those of the histories.
LEMMA NextSequencesOK ==
  ASSUME TypeOK, TurnLive, HistoryOK, CopyOK, [Next]_vars
  PROVE  SequencesOK'
  <1>1. CASE UNCHANGED vars
    BY <1>1, BoundsNat DEF TypeOK, SequencesOK, vars, memory, turn, store,
       bounds
  <1>2. ASSUME Close \/ Cancel \/ Abandon \/ SkipCompact \/ StreamFails \/
     NextRound \/ TerminalEvent \/ Unwind
       PROVE  SequencesOK'
    BY <1>2, BoundsNat DEF TypeOK, SequencesOK, Close, Cancel, Fault,
       Abandon, SkipCompact, StreamFails, NextRound, DrainInbox,
       TerminalEvent, Unwind, memory, turn, store, bounds
  <1>3. ASSUME NEW x \in Item, Interject(x)
       PROVE  SequencesOK'
    BY <1>3, BoundsNat DEF TypeOK, SequencesOK, Interject, memory, turn,
       store, bounds
  <1>4. ASSUME NEW b \in BOOLEAN, Send(b)
       PROVE  SequencesOK'
    BY <1>4, BoundsNat DEF TypeOK, SequencesOK, Send, memory, turn, store,
       bounds
  <1>5. ASSUME Open
       PROVE  SequencesOK'
    <2>1. UNCHANGED <<gone, marker>> /\ SequencesOK
      BY <1>5 DEF Open, SequencesOK, TypeOK
    <2>2. disk \in Seq(Seq(Message)) /\ Len(disk) \in Nat /\ DOMAIN disk = 1..Len(disk)
      BY LenProperties DEF TypeOK
    <2>3. CASE marker # 0
      <3>1. disk' = disk /\ current' = marker /\ messages' = disk[marker]
            /\ persistedLen' = Len(disk[marker])
        BY <1>5, <2>3 DEF Open, Seed
      <3>2. disk[marker] \in Seq(Message)
        BY <2>1, <2>2, <2>3, ElementOfSeq DEF SequencesOK
      <3>3. Len(disk[marker]) \in Nat
        BY <3>2, LenProperties
      <3>4. QED
        BY <2>1, <3>1, <3>2, <3>3 DEF SequencesOK
    <2>4. CASE marker = 0
      <3>1. /\ disk' = Append(disk, <<>>) /\ current' = Len(disk) + 1 /\ messages' = <<>>
            /\ persistedLen' = Len(<<>>) /\ Len(disk) < MaxSessions
        BY <1>5, <2>4 DEF Open, Seed
      <3>2. <<>> \in Seq(Message) /\ Len(<<>>) = 0
        BY EmptySeq
      <3>3. disk' \in Seq(Seq(Message)) /\ Len(disk') = Len(disk) + 1
        BY <2>2, <3>1, <3>2, AppendProperties
      <3>4. DOMAIN disk' = 1..Len(disk) + 1
        BY <3>3, LenProperties
      <3>5. QED
        BY <2>1, <2>2, <3>1, <3>2, <3>3, <3>4, BoundsNat DEF SequencesOK
    <2>5. QED
      BY <2>3, <2>4
  <1>6. ASSUME CloseEnds
       PROVE  SequencesOK'
    <2>1. UNCHANGED <<messages, persistedLen, disk, current>> /\ SequencesOK
      BY <1>6 DEF CloseEnds, SequencesOK, TypeOK, memory
    <2>2. gone' \in {gone, gone \cup {current}} /\ marker' \in {marker, 0}
      BY <1>6 DEF CloseEnds, EndSession
    <2>3. current \in DOMAIN disk
      BY <1>6 DEF CloseEnds, CopyOK, Live
    <2>4. Len(disk) \in Nat
      BY LenProperties DEF TypeOK
    <2>5. QED
      BY <2>1, <2>2, <2>3, <2>4 DEF SequencesOK
  <1>7. ASSUME MarkCurrent
       PROVE  SequencesOK'
    BY <1>7, BoundsNat DEF TypeOK, SequencesOK, MarkCurrent, memory, turn,
       bounds
  <1>8. ASSUME Crash
       PROVE  SequencesOK'
    BY <1>8, BoundsNat DEF TypeOK, SequencesOK, Crash, Fault, store
  <1>9. ASSUME Panic
       PROVE  SequencesOK'
    <2>1. Grown /\ UNCHANGED <<persistedLen, disk, gone, marker, current>>
      BY <1>9, TurnGrows DEF Panic, store
    <2>2. QED
      BY <2>1 DEF Grown, SequencesOK, TypeOK
  <1>10. ASSUME Assemble
       PROVE  SequencesOK'
    <2>1. Grown /\ UNCHANGED <<persistedLen, disk, gone, marker, current>>
      BY <1>10, TurnGrows DEF Assemble, store
    <2>2. QED
      BY <2>1 DEF Grown, SequencesOK, TypeOK
  <1>11. ASSUME Reply
       PROVE  SequencesOK'
    <2>1. Grown /\ UNCHANGED <<persistedLen, disk, gone, marker, current>>
      BY <1>11, TurnGrows DEF Reply, store
    <2>2. QED
      BY <2>1 DEF Grown, SequencesOK, TypeOK
  <1>12. ASSUME ToolCall
       PROVE  SequencesOK'
    <2>1. Grown /\ UNCHANGED <<persistedLen, disk, gone, marker, current>>
      BY <1>12, TurnGrows DEF ToolCall, store
    <2>2. QED
      BY <2>1 DEF Grown, SequencesOK, TypeOK
  <1>13. ASSUME ToolsCancelled
       PROVE  SequencesOK'
    <2>1. Grown /\ UNCHANGED <<persistedLen, disk, gone, marker, current>>
      BY <1>13, TurnGrows DEF ToolsCancelled, store
    <2>2. QED
      BY <2>1 DEF Grown, SequencesOK, TypeOK
  <1>14. ASSUME SaveHistory
       PROVE  SequencesOK'
    <2>1. UNCHANGED <<messages, gone, marker, current>> /\ pc = "save" /\ SequencesOK
      BY <1>14 DEF SaveHistory, SequencesOK, TypeOK
    <2>2. Live
      BY <2>1 DEF TurnLive
    <2>3. CASE AppendMessages /\ persistedLen' = Len(messages)
      <3>1. disk' \in Seq(Seq(Message)) /\ Len(disk') = Len(disk) /\ DOMAIN disk' = DOMAIN disk
        BY <2>2, <2>3, SaveCopies DEF AppendMessages, Saved
      <3>2. Len(messages) \in Nat
        BY LenProperties DEF TypeOK
      <3>3. QED
        BY <2>1, <2>3, <3>1, <3>2 DEF SequencesOK
    <2>4. CASE UNCHANGED <<disk, persistedLen>>
      BY <2>1, <2>4 DEF SequencesOK
    <2>5. QED
      BY <1>14, <2>3, <2>4 DEF SaveHistory
  <1>15. ASSUME NEW n \in 1..MaxCalls, Calls(n)
       PROVE  SequencesOK'
    <2>1. Grown /\ UNCHANGED <<persistedLen, disk, gone, marker, current>>
      BY <1>15, TurnGrows DEF Calls, store
    <2>2. QED
      BY <2>1 DEF Grown, SequencesOK, TypeOK
  <1>16. ASSUME NEW c \in DOMAIN messages, Prune(c)
       PROVE  SequencesOK'
    <2>1. UNCHANGED <<persistedLen, disk, gone, marker, current>>
      BY <1>16 DEF Prune, store
    <2>2. QED
      BY <1>16, <2>1, PruneSame DEF SequencesOK, TypeOK
  <1>17. ASSUME NEW c \in DOMAIN messages, Compact(c)
       PROVE  SequencesOK'
    <2>1. /\ pc = "compact" /\ Len(disk) < MaxSessions /\ disk' = Append(Saved, Continuation(c))
          /\ marker' = IF marker = current THEN Len(disk) + 1 ELSE marker
          /\ current' = Len(disk) + 1 /\ messages' = Continuation(c) /\ gone' = gone
      BY <1>17, CompactStep
    <2>2. Live /\ SequencesOK
      BY <2>1 DEF TurnLive, SequencesOK, TypeOK
    <2>3. messages' \in Seq(Message) /\ persistedLen' \in Nat
      BY <1>17, CompactKeeps
    <2>4. Saved \in Seq(Seq(Message)) /\ Len(Saved) = Len(disk)
      BY <2>2, SaveCopies
    <2>5. DOMAIN disk = 1..Len(disk) /\ Len(disk) \in Nat
      BY LenProperties DEF TypeOK
    <2>6. disk' \in Seq(Seq(Message)) /\ Len(disk') = Len(disk) + 1
      BY <2>1, <2>3, <2>4, <2>5, AppendProperties
    <2>7. DOMAIN disk' = 1..Len(disk) + 1
      BY <2>6, LenProperties
    <2>8. QED
      BY <2>1, <2>2, <2>3, <2>5, <2>6, <2>7, BoundsNat DEF SequencesOK
  <1>18. QED
    BY <1>1, <1>2, <1>3, <1>4, <1>5, <1>6, <1>7, <1>8, <1>9, <1>10, <1>11,
       <1>12, <1>13, <1>14, <1>15, <1>16, <1>17 DEF Next, TurnStep, RunQueued

\* Both together.
LEMMA NextTypeOK ==
  ASSUME TypeOK, TurnLive, HistoryOK, CopyOK, [Next]_vars
  PROVE  TypeOK'
  <1>1. TypeOK => ScalarsOK
    BY DEF TypeOK, ScalarsOK
  <1>2. ScalarsOK' /\ SequencesOK'
    BY <1>1, NextScalarsOK, NextSequencesOK
  <1>3. QED
    BY <1>2 DEF TypeOK, ScalarsOK, SequencesOK

\* A turn and its session.
LEMMA NextTurnLive ==
  ASSUME TypeOK, TurnLive, [Next]_vars
  PROVE  TurnLive'
  <1>1. CASE UNCHANGED vars
    BY <1>1, BoundsNat DEF TypeOK, TurnLive, Live, vars, memory, turn, store,
       bounds
  <1>2. ASSUME MarkCurrent \/ Cancel \/ Abandon \/ ToolCall
       PROVE  TurnLive'
    BY <1>2, BoundsNat DEF TypeOK, TurnLive, Live, MarkCurrent, Cancel,
       Fault, Abandon, ToolCall, memory, turn, store, bounds
  <1>3. ASSUME NEW x \in Item, Interject(x)
       PROVE  TurnLive'
    BY <1>3, BoundsNat DEF TypeOK, TurnLive, Live, Interject, memory, turn,
       store, bounds
  <1>4. ASSUME Open
       PROVE  TurnLive'
    BY <1>4, BoundsNat DEF TypeOK, TurnLive, Live, Open, Seed, Loads, turn,
       bounds
  <1>5. ASSUME Close
       PROVE  TurnLive'
    BY <1>5, BoundsNat DEF TypeOK, TurnLive, Live, Close, memory, store,
       bounds
  <1>6. ASSUME CloseEnds
       PROVE  TurnLive'
    BY <1>6, BoundsNat DEF TypeOK, TurnLive, Live, CloseEnds, EndSession,
       memory, turn, bounds
  <1>7. ASSUME Crash
       PROVE  TurnLive'
    BY <1>7, BoundsNat DEF TypeOK, TurnLive, Live, Crash, Fault, store
  <1>8. ASSUME NEW b \in BOOLEAN, Send(b)
       PROVE  TurnLive'
    BY <1>8, BoundsNat DEF TypeOK, TurnLive, Live, Send, memory, store
  <1>9. ASSUME Panic
       PROVE  TurnLive'
    BY <1>9, BoundsNat DEF TypeOK, TurnLive, Live, Panic, Fault, store
  <1>10. ASSUME SkipCompact
       PROVE  TurnLive'
    BY <1>10, BoundsNat DEF TypeOK, TurnLive, Live, SkipCompact, memory,
       store, bounds
  <1>11. ASSUME Assemble
       PROVE  TurnLive'
    BY <1>11, BoundsNat DEF TypeOK, TurnLive, Live, Assemble, DrainInbox,
       NothingToAsk, store, bounds
  <1>12. ASSUME Reply
       PROVE  TurnLive'
    BY <1>12, BoundsNat DEF TypeOK, TurnLive, Live, Reply, Streams, store,
       bounds
  <1>13. ASSUME StreamFails
       PROVE  TurnLive'
    BY <1>13, BoundsNat DEF TypeOK, TurnLive, Live, StreamFails, Fault,
       memory, store
  <1>14. ASSUME ToolsCancelled
       PROVE  TurnLive'
    BY <1>14, BoundsNat DEF TypeOK, TurnLive, Live, ToolsCancelled, store,
       bounds
  <1>15. ASSUME NextRound
       PROVE  TurnLive'
    BY <1>15, BoundsNat DEF TypeOK, TurnLive, Live, NextRound, DrainInbox,
       store, bounds
  <1>16. ASSUME SaveHistory
       PROVE  TurnLive'
    BY <1>16, BoundsNat DEF TypeOK, TurnLive, Live, SaveHistory,
       AppendMessages, Fault
  <1>17. ASSUME TerminalEvent
       PROVE  TurnLive'
    BY <1>17, BoundsNat DEF TypeOK, TurnLive, Live, TerminalEvent, memory,
       store, bounds
  <1>18. ASSUME Unwind
       PROVE  TurnLive'
    BY <1>18, BoundsNat DEF TypeOK, TurnLive, Live, Unwind, memory, store,
       bounds
  <1>19. ASSUME NEW n \in 1..MaxCalls, Calls(n)
       PROVE  TurnLive'
    BY <1>19, BoundsNat DEF TypeOK, TurnLive, Live, Calls, Streams, store,
       bounds
  <1>20. ASSUME NEW c \in DOMAIN messages, Prune(c)
       PROVE  TurnLive'
    BY <1>20, BoundsNat DEF TypeOK, TurnLive, Live, Prune, store, bounds
  <1>21. ASSUME NEW c \in DOMAIN messages, Compact(c)
       PROVE  TurnLive'
    BY <1>21, BoundsNat DEF TypeOK, TurnLive, Live, Compact, RollSession,
       CompactInto, bounds
  <1>22. QED
    BY <1>1, <1>2, <1>3, <1>4, <1>5, <1>6, <1>7, <1>8, <1>9, <1>10, <1>11,
       <1>12, <1>13, <1>14, <1>15, <1>16, <1>17, <1>18, <1>19, <1>20, <1>21
       DEF Next, TurnStep, RunQueued

\* The history stays in order.
LEMMA NextHistoryOK ==
  ASSUME TypeOK, HistoryOK, StoredPaired, [Next]_vars
  PROVE  HistoryOK'
  <1>1. CASE UNCHANGED vars
    BY <1>1, BoundsNat DEF TypeOK, HistoryOK, vars, memory, turn, store,
       bounds
  <1>2. ASSUME Close \/ CloseEnds \/ MarkCurrent \/ Cancel \/ Abandon
       PROVE  HistoryOK'
    BY <1>2, BoundsNat DEF TypeOK, HistoryOK, Close, CloseEnds, EndSession,
       MarkCurrent, Cancel, Fault, Abandon, memory, turn, store, bounds
  <1>3. ASSUME NEW x \in Item, Interject(x)
       PROVE  HistoryOK'
    BY <1>3, BoundsNat DEF TypeOK, HistoryOK, Interject, memory, turn, store,
       bounds
  <1>4. ASSUME Open
       PROVE  HistoryOK'
    <2>1. pc' = "idle"
      BY <1>4 DEF Open, turn
    <2>2. CASE marker # 0
      <3>1. messages' = disk[marker] /\ Paired(disk[marker])
        BY <1>4, <2>2 DEF Open, Seed, Loads
      <3>2. QED
        BY <3>1 DEF HistoryOK, Paired
    <2>3. CASE marker = 0
      <3>1. messages' = <<>>
        BY <1>4, <2>3 DEF Open, Seed
      <3>2. QED
        BY <3>1 DEF HistoryOK, Ordered, Owed
    <2>4. QED
      BY <2>2, <2>3
  <1>5. ASSUME Crash
       PROVE  HistoryOK'
    <2>1. messages' = <<>>
      BY <1>5 DEF Crash
    <2>2. QED
      BY <2>1 DEF HistoryOK, Ordered, Owed
  <1>6. ASSUME NEW b \in BOOLEAN, Send(b)
       PROVE  HistoryOK'
    BY <1>6, BoundsNat DEF TypeOK, HistoryOK, Send, memory, store
  <1>7. ASSUME Panic
       PROVE  HistoryOK'
    BY <1>7, TurnGrows DEF Grown, HistoryOK
  <1>8. ASSUME SkipCompact
       PROVE  HistoryOK'
    BY <1>8, BoundsNat DEF TypeOK, HistoryOK, SkipCompact, memory, store,
       bounds
  <1>9. ASSUME Assemble
       PROVE  HistoryOK'
    BY <1>9, TurnGrows DEF Grown, HistoryOK
  <1>10. ASSUME Reply
       PROVE  HistoryOK'
    BY <1>10, TurnGrows DEF Grown, HistoryOK
  <1>11. ASSUME StreamFails
       PROVE  HistoryOK'
    BY <1>11, BoundsNat DEF TypeOK, HistoryOK, StreamFails, Fault, memory,
       store
  <1>12. ASSUME ToolCall
       PROVE  HistoryOK'
    BY <1>12, TurnGrows DEF Grown, HistoryOK
  <1>13. ASSUME ToolsCancelled
       PROVE  HistoryOK'
    BY <1>13, TurnGrows DEF Grown, HistoryOK
  <1>14. ASSUME NextRound
       PROVE  HistoryOK'
    BY <1>14, BoundsNat DEF TypeOK, HistoryOK, NextRound, DrainInbox, store,
       bounds
  <1>15. ASSUME SaveHistory
       PROVE  HistoryOK'
    BY <1>15, BoundsNat DEF TypeOK, HistoryOK, SaveHistory, AppendMessages,
       Fault
  <1>16. ASSUME TerminalEvent
       PROVE  HistoryOK'
    BY <1>16, BoundsNat DEF TypeOK, HistoryOK, TerminalEvent, memory, store,
       bounds
  <1>17. ASSUME Unwind
       PROVE  HistoryOK'
    BY <1>17, BoundsNat DEF TypeOK, HistoryOK, Unwind, memory, store, bounds
  <1>18. ASSUME NEW n \in 1..MaxCalls, Calls(n)
       PROVE  HistoryOK'
    BY <1>18, TurnGrows DEF Grown, HistoryOK
  <1>19. ASSUME NEW c \in DOMAIN messages, Prune(c)
       PROVE  HistoryOK'
    <2>1. messages \in Seq(Message) /\ Ordered(messages) /\ Owed(messages) = 0
      BY <1>19 DEF TypeOK, HistoryOK, Prune
    <2>2. QED
      BY <1>19, <2>1, PruneSame, SameOrdered DEF HistoryOK
  <1>20. ASSUME NEW c \in DOMAIN messages, Compact(c)
       PROVE  HistoryOK'
    BY <1>20, CompactKeeps DEF HistoryOK, Paired
  <1>21. QED
    BY <1>1, <1>2, <1>3, <1>4, <1>5, <1>6, <1>7, <1>8, <1>9, <1>10, <1>11,
       <1>12, <1>13, <1>14, <1>15, <1>16, <1>17, <1>18, <1>19, <1>20 DEF
       Next, TurnStep, RunQueued

\* What is stored can be loaded.
LEMMA NextStoredPaired ==
  ASSUME TypeOK, TurnLive, HistoryOK, StoredPaired, CopyOK, [Next]_vars
  PROVE  StoredPaired'
  <1>1. CASE UNCHANGED vars
    BY <1>1, BoundsNat DEF TypeOK, StoredPaired, vars, memory, turn, store,
       bounds
  <1>2. ASSUME Close \/ CloseEnds \/ MarkCurrent \/ Crash \/ Cancel \/
     Abandon \/ Panic \/ SkipCompact \/ Assemble \/ Reply \/ StreamFails \/
     ToolCall \/ ToolsCancelled \/ NextRound \/ TerminalEvent \/ Unwind
       PROVE  StoredPaired'
    BY <1>2, BoundsNat DEF TypeOK, StoredPaired, Close, CloseEnds,
       EndSession, MarkCurrent, Crash, Fault, Cancel, Abandon, Panic,
       SkipCompact, Assemble, DrainInbox, NothingToAsk, Reply, Streams,
       StreamFails, ToolCall, ToolsCancelled, NextRound, TerminalEvent,
       Unwind, memory, turn, store, bounds
  <1>3. ASSUME NEW x \in Item, Interject(x)
       PROVE  StoredPaired'
    BY <1>3, BoundsNat DEF TypeOK, StoredPaired, Interject, memory, turn,
       store, bounds
  <1>4. ASSUME NEW b \in BOOLEAN, Send(b)
       PROVE  StoredPaired'
    BY <1>4, BoundsNat DEF TypeOK, StoredPaired, Send, memory, turn, store,
       bounds
  <1>5. ASSUME NEW n \in 1..MaxCalls, Calls(n)
       PROVE  StoredPaired'
    BY <1>5, BoundsNat DEF TypeOK, StoredPaired, Calls, Streams, memory,
       turn, store, bounds
  <1>6. ASSUME NEW c \in DOMAIN messages, Prune(c)
       PROVE  StoredPaired'
    BY <1>6, BoundsNat DEF TypeOK, StoredPaired, Prune, memory, turn, store,
       bounds
  <1>7. ASSUME Open
       PROVE  StoredPaired'
    <2>1. disk \in Seq(Seq(Message)) /\ Len(disk) \in Nat /\ DOMAIN disk = 1..Len(disk)
      BY LenProperties DEF TypeOK
    <2>2. CASE disk' = disk
      BY <2>2 DEF StoredPaired
    <2>3. CASE disk' = Append(disk, <<>>)
      <3>1. <<>> \in Seq(Message) /\ Paired(<<>>)
        BY EmptySeq DEF Paired, Ordered, Owed
      <3>2. /\ disk' \in Seq(Seq(Message)) /\ Len(disk') = Len(disk) + 1
            /\ \A s \in 1..Len(disk) : disk'[s] = disk[s]
            /\ disk'[Len(disk) + 1] = <<>>
        BY <2>1, <2>3, <3>1, AppendProperties
      <3>3. DOMAIN disk' = 1..Len(disk) + 1
        BY <3>2, LenProperties
      <3>4. \A s \in 1..Len(disk) + 1 : s \in 1..Len(disk) \/ s = Len(disk) + 1
        BY <2>1
      <3>5. QED
        BY <2>1, <3>1, <3>2, <3>3, <3>4, Zenon DEF StoredPaired
    <2>4. QED
      BY <1>7, <2>2, <2>3 DEF Open
  <1>8. ASSUME SaveHistory
       PROVE  StoredPaired'
    <2>1. pc = "save" /\ Live /\ Paired(messages)
      BY <1>8 DEF SaveHistory, TurnLive, HistoryOK, Paired
    <2>2. CASE AppendMessages
      <3>1. /\ DOMAIN disk' = DOMAIN disk
            /\ \A s \in DOMAIN disk : s # current => disk'[s] = disk[s]
            /\ disk'[current] \in Seq(Message) /\ Same(messages, disk'[current])
        BY <2>1, <2>2, SaveCopies DEF AppendMessages, Saved
      <3>2. messages \in Seq(Message)
        BY DEF TypeOK
      <3>3. Paired(disk'[current])
        BY <2>1, <3>1, <3>2, SameOrdered DEF Paired
      <3>4. QED
        BY <3>1, <3>3, Zenon DEF StoredPaired
    <2>3. CASE UNCHANGED disk
      BY <2>3 DEF StoredPaired
    <2>4. QED
      BY <1>8, <2>2, <2>3 DEF SaveHistory
  <1>9. ASSUME NEW c \in DOMAIN messages, Compact(c)
       PROVE  StoredPaired'
    <2>1. pc = "compact" /\ disk' = Append(Saved, Continuation(c)) /\ messages' = Continuation(c)
      BY <1>9, CompactStep
    <2>2. Live /\ Paired(messages) /\ messages \in Seq(Message)
      BY <2>1 DEF TurnLive, HistoryOK, Paired, TypeOK
    <2>3. messages' \in Seq(Message) /\ Paired(messages')
      BY <1>9, CompactKeeps
    <2>4. /\ Saved \in Seq(Seq(Message)) /\ Len(Saved) = Len(disk) /\ DOMAIN Saved = DOMAIN disk
          /\ \A s \in DOMAIN disk : s # current => Saved[s] = disk[s]
          /\ Saved[current] \in Seq(Message) /\ Same(messages, Saved[current])
      BY <2>2, SaveCopies
    <2>5. DOMAIN disk = 1..Len(disk) /\ Len(disk) \in Nat
      BY LenProperties DEF TypeOK
    <2>6. Paired(Saved[current])
      BY <2>2, <2>4, SameOrdered DEF Paired
    <2>7. /\ disk' \in Seq(Seq(Message)) /\ Len(disk') = Len(disk) + 1
          /\ \A s \in 1..Len(disk) : disk'[s] = Saved[s]
          /\ disk'[Len(disk) + 1] = Continuation(c)
      BY <2>1, <2>3, <2>4, <2>5, AppendProperties
    <2>8. DOMAIN disk' = 1..Len(disk) + 1
      BY <2>7, LenProperties
    <2>9. \A s \in 1..Len(disk) + 1 : s \in 1..Len(disk) \/ s = Len(disk) + 1
      BY <2>5
    <2>10. QED
      BY <2>1, <2>3, <2>4, <2>5, <2>6, <2>7, <2>8, <2>9, Zenon DEF StoredPaired
  <1>10. QED
    BY <1>1, <1>2, <1>3, <1>4, <1>5, <1>6, <1>7, <1>8, <1>9 DEF Next,
       TurnStep, RunQueued

\* Memory and store.
LEMMA NextCopyOK ==
  ASSUME TypeOK, TurnLive, HistoryOK, CopyOK, [Next]_vars
  PROVE  CopyOK'
  <1>1. CASE UNCHANGED vars
    BY <1>1, BoundsNat DEF TypeOK, CopyOK, Live, vars, memory, turn, store,
       bounds
  <1>2. ASSUME NEW x \in Item, Interject(x)
       PROVE  CopyOK'
    BY <1>2, BoundsNat DEF TypeOK, CopyOK, Live, Interject, memory, turn,
       store, bounds
  <1>3. ASSUME NEW b \in BOOLEAN, Send(b)
       PROVE  CopyOK'
    BY <1>3, BoundsNat DEF TypeOK, CopyOK, Live, Send, memory, turn, store,
       bounds
  <1>4. ASSUME Cancel \/ Abandon \/ SkipCompact \/ StreamFails \/ NextRound
     \/ TerminalEvent \/ Unwind
       PROVE  CopyOK'
    <2>1. UNCHANGED <<messages, persistedLen, live, disk, gone, current, marker>>
      BY <1>4 DEF Cancel, Fault, Abandon, SkipCompact, StreamFails, NextRound,
         DrainInbox, TerminalEvent, Unwind, memory, turn, store, bounds
    <2>2. QED
      BY <2>1 DEF CopyOK, Live
  <1>5. ASSUME Open
       PROVE  CopyOK'
    <2>1. disk \in Seq(Seq(Message)) /\ Len(disk) \in Nat /\ DOMAIN disk = 1..Len(disk)
      BY LenProperties DEF TypeOK
    <2>2. CASE marker # 0
      <3>1. /\ marker \in DOMAIN disk /\ marker \notin gone /\ current' = marker /\ marker' = marker
            /\ disk' = disk /\ gone' = gone /\ messages' = disk[marker]
            /\ persistedLen' = Len(disk[marker])
        BY <1>5, <2>1, <2>2 DEF Open, Seed, Loads, TypeOK
      <3>2. Len(disk[marker]) \in Nat
        BY <2>1, <3>1, ElementOfSeq, LenProperties
      <3>3. QED
        BY <3>1, <3>2 DEF CopyOK
    <2>3. CASE marker = 0
      <3>1. /\ disk' = Append(disk, <<>>) /\ current' = Len(disk) + 1 /\ messages' = <<>>
            /\ persistedLen' = Len(<<>>) /\ gone' = gone /\ marker' = 0
        BY <1>5, <2>3 DEF Open, Seed
      <3>2. <<>> \in Seq(Message) /\ Len(<<>>) = 0
        BY EmptySeq
      <3>3. /\ disk' \in Seq(Seq(Message)) /\ Len(disk') = Len(disk) + 1
            /\ disk'[Len(disk) + 1] = <<>>
        BY <2>1, <3>1, <3>2, AppendProperties
      <3>4. current' \in DOMAIN disk' /\ current' \notin gone
        BY <2>1, <3>1, <3>3, LenProperties DEF TypeOK
      <3>5. QED
        BY <3>1, <3>2, <3>3, <3>4 DEF CopyOK
    <2>4. QED
      BY <2>2, <2>3
  <1>6. ASSUME Close
       PROVE  CopyOK'
    BY <1>6, BoundsNat DEF TypeOK, CopyOK, Live, Close, memory, store, bounds
  <1>7. ASSUME CloseEnds
       PROVE  CopyOK'
    BY <1>7, BoundsNat DEF TypeOK, CopyOK, Live, CloseEnds, EndSession,
       memory, turn, bounds
  <1>8. ASSUME MarkCurrent
       PROVE  CopyOK'
    BY <1>8, BoundsNat DEF TypeOK, CopyOK, Live, MarkCurrent, memory, turn,
       bounds
  <1>9. ASSUME Crash
       PROVE  CopyOK'
    BY <1>9, BoundsNat DEF TypeOK, CopyOK, Live, Crash, Fault, store
  <1>10. ASSUME Panic
       PROVE  CopyOK'
    <2>1. Grown /\ UNCHANGED <<live, persistedLen, disk, gone, marker, current>>
      BY <1>10, TurnGrows DEF Panic, store
    <2>2. Len(messages) \in Nat /\ Len(messages') \in Nat /\ persistedLen \in Nat
      BY <2>1, LenProperties DEF TypeOK, Grown
    <2>3. QED
      BY <2>1, <2>2 DEF Grown, CopyOK, Live
  <1>11. ASSUME Assemble
       PROVE  CopyOK'
    <2>1. Grown /\ UNCHANGED <<live, persistedLen, disk, gone, marker, current>>
      BY <1>11, TurnGrows DEF Assemble, store
    <2>2. Len(messages) \in Nat /\ Len(messages') \in Nat /\ persistedLen \in Nat
      BY <2>1, LenProperties DEF TypeOK, Grown
    <2>3. QED
      BY SMTT(30), <2>1, <2>2 DEF Grown, CopyOK, Live
  <1>12. ASSUME Reply
       PROVE  CopyOK'
    <2>1. Grown /\ UNCHANGED <<live, persistedLen, disk, gone, marker, current>>
      BY <1>12, TurnGrows DEF Reply, store
    <2>2. Len(messages) \in Nat /\ Len(messages') \in Nat /\ persistedLen \in Nat
      BY <2>1, LenProperties DEF TypeOK, Grown
    <2>3. QED
      BY <2>1, <2>2 DEF Grown, CopyOK, Live
  <1>13. ASSUME ToolCall
       PROVE  CopyOK'
    <2>1. Grown /\ UNCHANGED <<live, persistedLen, disk, gone, marker, current>>
      BY <1>13, TurnGrows DEF ToolCall, store
    <2>2. Len(messages) \in Nat /\ Len(messages') \in Nat /\ persistedLen \in Nat
      BY <2>1, LenProperties DEF TypeOK, Grown
    <2>3. QED
      BY <2>1, <2>2 DEF Grown, CopyOK, Live
  <1>14. ASSUME ToolsCancelled
       PROVE  CopyOK'
    <2>1. Grown /\ UNCHANGED <<live, persistedLen, disk, gone, marker, current>>
      BY <1>14, TurnGrows DEF ToolsCancelled, store
    <2>2. Len(messages) \in Nat /\ Len(messages') \in Nat /\ persistedLen \in Nat
      BY <2>1, LenProperties DEF TypeOK, Grown
    <2>3. QED
      BY <2>1, <2>2 DEF Grown, CopyOK, Live
  <1>15. ASSUME SaveHistory
       PROVE  CopyOK'
    <2>1. pc = "save" /\ UNCHANGED <<live, gone, marker, current, messages>>
      BY <1>15 DEF SaveHistory
    <2>2. Live
      BY <2>1 DEF TurnLive
    <2>3. CASE AppendMessages /\ persistedLen' = Len(messages)
      <3>1. /\ DOMAIN disk' = DOMAIN disk
            /\ disk'[current] \in Seq(Message) /\ Same(messages, disk'[current])
        BY <2>2, <2>3, SaveCopies DEF AppendMessages, Saved
      <3>2. /\ Len(disk'[current]) = Len(messages) /\ Len(messages) \in Nat
            /\ \A i \in 1..Len(messages) : /\ disk'[current][i].role = messages[i].role
                                           /\ disk'[current][i].owed = messages[i].owed
        BY <3>1, LenProperties DEF Same, TypeOK
      <3>3. QED
        BY <2>1, <2>2, <2>3, <3>1, <3>2 DEF CopyOK
    <2>4. CASE UNCHANGED <<disk, persistedLen>>
      BY <2>1, <2>4 DEF CopyOK, Live
    <2>5. QED
      BY <1>15, <2>3, <2>4 DEF SaveHistory
  <1>16. ASSUME NEW n \in 1..MaxCalls, Calls(n)
       PROVE  CopyOK'
    <2>1. Grown /\ UNCHANGED <<live, persistedLen, disk, gone, marker, current>>
      BY <1>16, TurnGrows DEF Calls, store
    <2>2. Len(messages) \in Nat /\ Len(messages') \in Nat /\ persistedLen \in Nat
      BY <2>1, LenProperties DEF TypeOK, Grown
    <2>3. QED
      BY <2>1, <2>2 DEF Grown, CopyOK, Live
  <1>17. ASSUME NEW c \in DOMAIN messages, Prune(c)
       PROVE  CopyOK'
    <2>1. messages \in Seq(Message) /\ messages' \in Seq(Message) /\ Same(messages, messages')
      BY <1>17, PruneSame DEF TypeOK
    <2>2. /\ Len(messages') = Len(messages) /\ Len(messages) \in Nat
          /\ \A i \in 1..Len(messages) : /\ messages'[i].role = messages[i].role
                                         /\ messages'[i].owed = messages[i].owed
      BY <2>1, LenProperties DEF Same
    <2>3. UNCHANGED <<live, persistedLen, disk, gone, marker, current>> /\ pc = "compact"
      BY <1>17 DEF Prune, store
    <2>4. CopyOK
      OBVIOUS
    <2>5. persistedLen \in Nat
      BY DEF TypeOK
    <2>6. QED
      BY <2>2, <2>3, <2>4, <2>5 DEF CopyOK, Live
  <1>18. ASSUME NEW c \in DOMAIN messages, Compact(c)
       PROVE  CopyOK'
    <2>1. /\ pc = "compact" /\ disk' = Append(Saved, Continuation(c))
          /\ marker' = IF marker = current THEN Len(disk) + 1 ELSE marker
          /\ current' = Len(disk) + 1 /\ messages' = Continuation(c)
          /\ persistedLen' = Len(messages') /\ gone' = gone
      BY <1>18, CompactStep
    <2>2. Live
      BY <2>1 DEF TurnLive
    <2>3. messages' \in Seq(Message) /\ Len(messages') \in Nat
      BY <1>18, CompactKeeps
    <2>4. Saved \in Seq(Seq(Message)) /\ Len(Saved) = Len(disk)
      BY <2>2, SaveCopies
    <2>5. DOMAIN disk = 1..Len(disk) /\ Len(disk) \in Nat
      BY LenProperties DEF TypeOK
    <2>6. /\ disk' \in Seq(Seq(Message)) /\ Len(disk') = Len(disk) + 1
          /\ disk'[Len(disk) + 1] = messages'
      BY <2>1, <2>3, <2>4, <2>5, AppendProperties
    <2>7. DOMAIN disk' = 1..Len(disk) + 1
      BY <2>6, LenProperties
    <2>8. current' \in DOMAIN disk' /\ current' \notin gone /\ marker' \in {0, current'}
      BY SMTT(30), <2>1, <2>2, <2>5, <2>7 DEF CopyOK, TypeOK
    <2>9. QED
      BY SMTT(30), <2>1, <2>3, <2>6, <2>8 DEF CopyOK
  <1>19. QED
    BY <1>1, <1>2, <1>3, <1>4, <1>5, <1>6, <1>7, <1>8, <1>9, <1>10, <1>11,
       <1>12, <1>13, <1>14, <1>15, <1>16, <1>17, <1>18 DEF Next, TurnStep,
       RunQueued

\* After a save.
LEMMA NextSavedOK ==
  ASSUME TypeOK, TurnLive, SavedOK, [Next]_vars
  PROVE  SavedOK'
  <1>1. CASE UNCHANGED vars
    BY <1>1, BoundsNat DEF TypeOK, SavedOK, Live, vars, memory, turn, store,
       bounds
  <1>2. ASSUME MarkCurrent \/ Cancel \/ Abandon
       PROVE  SavedOK'
    BY <1>2, BoundsNat DEF TypeOK, SavedOK, Live, MarkCurrent, Cancel, Fault,
       Abandon, memory, turn, store, bounds
  <1>3. ASSUME NEW x \in Item, Interject(x)
       PROVE  SavedOK'
    BY <1>3, BoundsNat DEF TypeOK, SavedOK, Live, Interject, memory, turn,
       store, bounds
  <1>4. ASSUME Open
       PROVE  SavedOK'
    BY <1>4, BoundsNat DEF TypeOK, SavedOK, Live, Open, Seed, Loads, turn,
       bounds
  <1>5. ASSUME Close
       PROVE  SavedOK'
    BY <1>5, BoundsNat DEF TypeOK, SavedOK, Live, Close, memory, store,
       bounds
  <1>6. ASSUME CloseEnds
       PROVE  SavedOK'
    BY <1>6, BoundsNat DEF TypeOK, SavedOK, Live, CloseEnds, EndSession,
       memory, turn, bounds
  <1>7. ASSUME Crash
       PROVE  SavedOK'
    BY <1>7, BoundsNat DEF TypeOK, SavedOK, Live, Crash, Fault, store
  <1>8. ASSUME NEW b \in BOOLEAN, Send(b)
       PROVE  SavedOK'
    BY <1>8, BoundsNat DEF TypeOK, SavedOK, Live, Send, memory, store
  <1>9. ASSUME Panic
       PROVE  SavedOK'
    BY <1>9, BoundsNat DEF TypeOK, SavedOK, Live, Panic, Fault, store
  <1>10. ASSUME SkipCompact
       PROVE  SavedOK'
    BY <1>10, BoundsNat DEF TypeOK, SavedOK, Live, SkipCompact, memory,
       store, bounds
  <1>11. ASSUME Assemble
       PROVE  SavedOK'
    BY <1>11, BoundsNat DEF TypeOK, SavedOK, Live, Assemble, DrainInbox,
       NothingToAsk, store, bounds
  <1>12. ASSUME Reply
       PROVE  SavedOK'
    BY <1>12, BoundsNat DEF TypeOK, SavedOK, Live, Reply, Streams, store,
       bounds
  <1>13. ASSUME StreamFails
       PROVE  SavedOK'
    BY <1>13, BoundsNat DEF TypeOK, SavedOK, Live, StreamFails, Fault,
       memory, store
  <1>14. ASSUME ToolCall
       PROVE  SavedOK'
    BY <1>14, BoundsNat DEF TypeOK, SavedOK, Live, ToolCall, turn, store,
       bounds
  <1>15. ASSUME ToolsCancelled
       PROVE  SavedOK'
    BY <1>15, BoundsNat DEF TypeOK, SavedOK, Live, ToolsCancelled, store,
       bounds
  <1>16. ASSUME NextRound
       PROVE  SavedOK'
    BY <1>16, BoundsNat DEF TypeOK, SavedOK, Live, NextRound, DrainInbox,
       store, bounds
  <1>17. ASSUME SaveHistory
       PROVE  SavedOK'
    BY <1>17, BoundsNat DEF TypeOK, SavedOK, Live, SaveHistory,
       AppendMessages, Fault
  <1>18. ASSUME TerminalEvent
       PROVE  SavedOK'
    BY <1>18, BoundsNat DEF TypeOK, SavedOK, Live, TerminalEvent, memory,
       store, bounds
  <1>19. ASSUME Unwind
       PROVE  SavedOK'
    BY <1>19, BoundsNat DEF TypeOK, SavedOK, Live, Unwind, memory, store,
       bounds
  <1>20. ASSUME NEW n \in 1..MaxCalls, Calls(n)
       PROVE  SavedOK'
    BY <1>20, BoundsNat DEF TypeOK, SavedOK, Live, Calls, Streams, store,
       bounds
  <1>21. ASSUME NEW c \in DOMAIN messages, Prune(c)
       PROVE  SavedOK'
    BY <1>21, BoundsNat DEF TypeOK, SavedOK, Live, Prune, store, bounds
  <1>22. ASSUME NEW c \in DOMAIN messages, Compact(c)
       PROVE  SavedOK'
    BY <1>22, BoundsNat DEF TypeOK, SavedOK, Live, Compact, RollSession,
       CompactInto, bounds
  <1>23. QED
    BY <1>1, <1>2, <1>3, <1>4, <1>5, <1>6, <1>7, <1>8, <1>9, <1>10, <1>11,
       <1>12, <1>13, <1>14, <1>15, <1>16, <1>17, <1>18, <1>19, <1>20, <1>21,
       <1>22 DEF Next, TurnStep, RunQueued

\* Deleted sessions.
LEMMA NextGoneIsEmpty ==
  ASSUME TypeOK, TurnLive, HistoryOK, CopyOK, GoneIsEmpty, [Next]_vars
  PROVE  GoneIsEmpty'
  <1>1. CASE UNCHANGED vars
    BY <1>1, BoundsNat DEF TypeOK, TurnLive, CopyOK, Live, GoneIsEmpty, vars,
       memory, turn, store, bounds
  <1>2. ASSUME Close \/ Crash \/ Cancel \/ Abandon \/ Panic \/ SkipCompact \/
     Assemble \/ Reply \/ StreamFails \/ ToolCall \/ ToolsCancelled \/
     NextRound \/ TerminalEvent \/ Unwind
       PROVE  GoneIsEmpty'
    BY <1>2, BoundsNat DEF TypeOK, TurnLive, CopyOK, Live, GoneIsEmpty,
       Close, Crash, Fault, Cancel, Abandon, Panic, SkipCompact, Assemble,
       DrainInbox, NothingToAsk, Reply, Streams, StreamFails, ToolCall,
       ToolsCancelled, NextRound, TerminalEvent, Unwind, memory, turn, store,
       bounds
  <1>3. ASSUME NEW x \in Item, Interject(x)
       PROVE  GoneIsEmpty'
    BY <1>3, BoundsNat DEF TypeOK, TurnLive, CopyOK, Live, GoneIsEmpty,
       Interject, memory, turn, store, bounds
  <1>4. ASSUME NEW b \in BOOLEAN, Send(b)
       PROVE  GoneIsEmpty'
    BY <1>4, BoundsNat DEF TypeOK, TurnLive, CopyOK, Live, GoneIsEmpty, Send,
       memory, turn, store, bounds
  <1>5. ASSUME NEW n \in 1..MaxCalls, Calls(n)
       PROVE  GoneIsEmpty'
    BY <1>5, BoundsNat DEF TypeOK, TurnLive, CopyOK, Live, GoneIsEmpty,
       Calls, Streams, memory, turn, store, bounds
  <1>6. ASSUME NEW c \in DOMAIN messages, Prune(c)
       PROVE  GoneIsEmpty'
    BY <1>6, BoundsNat DEF TypeOK, TurnLive, CopyOK, Live, GoneIsEmpty,
       Prune, memory, turn, store, bounds
  <1>7. ASSUME Open
       PROVE  GoneIsEmpty'
    <2>1. UNCHANGED <<gone, marker>> /\ disk' \in {disk, Append(disk, <<>>)}
      BY <1>7 DEF Open
    <2>2. disk \in Seq(Seq(Message)) /\ DOMAIN disk = 1..Len(disk)
      BY LenProperties DEF TypeOK
    <2>3. \A s \in DOMAIN disk : Append(disk, <<>>)[s] = disk[s]
      BY <2>2, EmptySeq, AppendProperties
    <2>4. \A s \in gone : s \in DOMAIN disk /\ disk[s] = <<>> /\ marker # s
      BY DEF GoneIsEmpty, TypeOK
    <2>5. QED
      BY <2>1, <2>3, <2>4 DEF GoneIsEmpty
  <1>8. ASSUME CloseEnds
       PROVE  GoneIsEmpty'
    BY <1>8, BoundsNat DEF TypeOK, TurnLive, CopyOK, Live, GoneIsEmpty,
       CloseEnds, EndSession, memory, turn, bounds
  <1>9. ASSUME MarkCurrent
       PROVE  GoneIsEmpty'
    BY <1>9, BoundsNat DEF TypeOK, TurnLive, CopyOK, Live, GoneIsEmpty,
       MarkCurrent, memory, turn, bounds
  <1>10. ASSUME SaveHistory
       PROVE  GoneIsEmpty'
    BY <1>10, BoundsNat DEF TypeOK, TurnLive, CopyOK, Live, GoneIsEmpty,
       SaveHistory, AppendMessages, Fault
  <1>11. ASSUME NEW c \in DOMAIN messages, Compact(c)
       PROVE  GoneIsEmpty'
    <2>1. /\ pc = "compact" /\ disk' = Append(Saved, Continuation(c))
          /\ marker' = IF marker = current THEN Len(disk) + 1 ELSE marker
          /\ messages' = Continuation(c) /\ gone' = gone
      BY <1>11, CompactStep
    <2>2. Live
      BY <2>1 DEF TurnLive
    <2>3. messages' \in Seq(Message)
      BY <1>11, CompactKeeps
    <2>4. /\ Saved \in Seq(Seq(Message)) /\ Len(Saved) = Len(disk)
          /\ \A s \in DOMAIN disk : s # current => Saved[s] = disk[s]
      BY <2>2, SaveCopies
    <2>5. DOMAIN disk = 1..Len(disk) /\ Len(disk) \in Nat
      BY LenProperties DEF TypeOK
    <2>6. \A s \in 1..Len(disk) : disk'[s] = Saved[s]
      BY <2>1, <2>3, <2>4, AppendProperties
    <2>7. \A s \in gone : /\ s \in 1..Len(disk) /\ s # current /\ s # Len(disk) + 1
                          /\ disk[s] = <<>> /\ marker # s
      <3>1. \A s \in gone : s \in DOMAIN disk /\ disk[s] = <<>> /\ marker # s
        BY DEF GoneIsEmpty, TypeOK
      <3>2. current \notin gone
        BY <2>2 DEF CopyOK
      <3>3. \A s \in 1..Len(disk) : s # Len(disk) + 1
        BY <2>5
      <3>4. QED
        BY <2>5, <3>1, <3>2, <3>3
    <2>8. QED
      BY <2>1, <2>4, <2>5, <2>6, <2>7 DEF GoneIsEmpty
  <1>12. QED
    BY <1>1, <1>2, <1>3, <1>4, <1>5, <1>6, <1>7, <1>8, <1>9, <1>10, <1>11 DEF
       Next, TurnStep, RunQueued

\* The invariant holds at first,
LEMMA InitInductive == Init => TurnInductive
  <1> SUFFICES ASSUME Init PROVE TurnInductive
    OBVIOUS
  <1>1. <<>> \in Seq(Message) /\ <<>> \in Seq(Seq(Message)) /\ Len(<<>>) = 0
    BY EmptySeq
  <1>2. /\ messages = <<>> /\ disk = <<>> /\ DOMAIN disk = {} /\ gone = {}
        /\ live = "none" /\ pc = "idle"
    BY DEF Init
  <1>3. SequencesOK
    BY <1>1, BoundsNat DEF Init, SequencesOK
  <1>4. prompt \in BOOLEAN /\ cancelled \in BOOLEAN /\ reader \in BOOLEAN /\ unsaved \in BOOLEAN
    BY Zenon DEF Init
  <1>5. ScalarsOK
    BY <1>4, BoundsNat DEF Init, ScalarsOK, Pc
  <1>6. TypeOK
    BY <1>3, <1>5 DEF TypeOK, SequencesOK, ScalarsOK
  <1>7. HistoryOK
    BY <1>1, <1>2 DEF HistoryOK, Ordered, Owed
  <1>8. QED
    BY <1>2, <1>6, <1>7 DEF TurnInductive, TurnLive, Live, StoredPaired, CopyOK, SavedOK,
       GoneIsEmpty

\* is kept by every step,
LEMMA NextInductive == TurnInductive /\ [Next]_vars => TurnInductive'
  BY NextTypeOK, NextTurnLive, NextHistoryOK, NextStoredPaired, NextCopyOK, NextSavedOK,
     NextGoneIsEmpty DEF TurnInductive

\* and so holds always.
LEMMA Inductive == Spec => []TurnInductive
  BY InitInductive, NextInductive, PTL DEF Spec

-----------------------------------------------------------------------------
(* The theorems.                                                           *)

\* No request shows the provider a broken exchange.
THEOREM RequestsValid == Spec => []RequestValid
  <1>1. TurnInductive => RequestValid
    BY DEF TurnInductive, HistoryOK, RequestValid, Paired
  <1>2. QED
    BY <1>1, Inductive, PTL

\* Every stored history can be resumed, whenever the process dies.
THEOREM AlwaysResumable == Spec => []StoredPaired
  <1>1. TurnInductive => StoredPaired
    BY DEF TurnInductive
  <1>2. QED
    BY <1>1, Inductive, PTL

\* After a turn whose save worked the store has all of the conversation.
THEOREM RestartSeesAll == Spec => []ResumeSeesAll
  <1>1. TurnInductive => ResumeSeesAll
    <2>1. SUFFICES ASSUME TurnInductive, live = "open", pc \in {"emit", "unwind", "idle"},
                          ~unsaved
                   PROVE  Same(disk[current], messages) /\ marker \in {0, current}
      BY DEF ResumeSeesAll
    <2>2. Live
      BY <2>1 DEF Live
    <2>3. Len(disk[current]) = Len(messages)
      BY <2>1, <2>2 DEF TurnInductive, CopyOK, SavedOK
    <2>4. disk[current] \in Seq(Message)
      BY <2>1, <2>2, ElementOfSeq, LenProperties DEF TurnInductive, CopyOK, TypeOK
    <2>5. DOMAIN disk[current] = 1..Len(disk[current])
      BY <2>4, LenProperties
    <2>6. QED
      BY <2>1, <2>2, <2>3, <2>5 DEF TurnInductive, CopyOK, Same
  <1>2. QED
    BY <1>1, Inductive, PTL

\* A deleted conversation is never written to nor marked.
THEOREM GoneStaysEmpty == Spec => []GoneIsEmpty
  <1>1. TurnInductive => GoneIsEmpty
    BY DEF TurnInductive
  <1>2. QED
    BY <1>1, Inductive, PTL
=============================================================================
