----------------------- MODULE DeviceSession_proofs -----------------------
(***************************************************************************)
(* Proofs about DeviceSession, for every device, every set of images, any  *)
(* number of operations, deaths and restarts, and appends that may tear.   *)
(***************************************************************************)
EXTENDS SessionProps, TLAPS

-----------------------------------------------------------------------------
(* What the helpers return. *)

(* Whatever a write leaves behind is still a partition's contents. *)
LEMMA WritesKeepContents ==
  ASSUME NEW c \in Contents, NEW img \in Image
  PROVE  /\ Landed(c, img) \subseteq Contents
         /\ Interrupted(c, img) \subseteq Contents
  BY BlocksAssumption DEF Landed, Interrupted, Overlay, Contents, Image

(* A read-back that passes the comparison of session.py comes from a       *)
(* partition that carries every byte of the image, even when the read was  *)
(* truncated or damaged in transfer.                                       *)
LEMMA MatchMeansCarries ==
  ASSUME NEW c \in Contents, NEW img \in Image,
         NEW got \in ReadsOf(c), Matches(got, img)
  PROVE  Carries(c, img)
  BY BlocksAssumption DEF ReadsOf, Matches, Carries, Overlay, Contents, Image

LEMMA BlankIsImage == Blank \in Image
  BY BlocksAssumption DEF Blank, Image

(* A line that lost its newline is still a line of its kind. *)
LEMMA UnendedLine ==
  ASSUME NEW l \in Line
  PROVE  /\ Unended(l) \in Line
         /\ Unended(l).state = l.state
         /\ Unended(l).id = l.id
         /\ IsIntent(l) =>
              /\ Unended(l).op = l.op
              /\ Unended(l).part = l.part
              /\ Unended(l).src = l.src
              /\ Unended(l).bak = l.bak
              /\ Unended(l).dry = l.dry
<1>1. CASE l \in IntentLine
  BY <1>1 DEF Unended, Line, IntentLine
<1>2. CASE l \in OutcomeLine
  BY <1>2 DEF Unended, Line, OutcomeLine, IsIntent, Outcomes
<1>3. CASE l \in IllegibleLine
  BY <1>3 DEF Unended, Line, IllegibleLine, IsIntent
<1> QED
  BY <1>1, <1>2, <1>3 DEF Line

LEMMA IllegibleIsLine ==
  ASSUME NEW b \in BOOLEAN
  PROVE  Illegible(b) \in Line
  BY DEF Illegible, Line, IllegibleLine

(* An append yields a log of lines; it leaves the whole lines alone; and   *)
(* either it is a plain append to a sequence or the log is damaged.        *)
LEMMA AppendLineFacts ==
  ASSUME NEW L \in Seq(Line), NEW l \in Line
  PROVE  /\ AppendLine(L, l) \in Seq(Line)
         /\ \A i \in DOMAIN L : L[i].ended =>
              i \in DOMAIN AppendLine(L, l) /\ AppendLine(L, l)[i] = L[i]
         /\ ~Damaged(AppendLine(L, l)) =>
              ~Damaged(L) /\ AppendLine(L, l) = Append(L, l)
<1>1. CASE Unterminated(L)
  <2> DEFINE n == Len(L)
             M == [L EXCEPT ![n] = Illegible(l.ended)]
  <2>1. AppendLine(L, l) = M
    BY <1>1 DEF AppendLine
  <2>2. n \in DOMAIN L /\ ~L[n].ended
    BY <1>1 DEF Unterminated
  <2>3. l.ended \in BOOLEAN
    BY DEF Line, IntentLine, OutcomeLine, IllegibleLine
  <2>4. Illegible(l.ended) \in Line
    BY <2>3, IllegibleIsLine
  <2>5. M \in Seq(Line) /\ DOMAIN M = DOMAIN L
    BY <2>2, <2>4
  <2>6. \A i \in DOMAIN L : L[i].ended => M[i] = L[i]
    BY <2>2
  <2>7. M[n].state = "illegible"
    BY <2>2 DEF Illegible
  <2>8. Damaged(M)
    BY <2>2, <2>5, <2>7 DEF Damaged
  <2> QED
    BY <2>1, <2>5, <2>6, <2>8
<1>2. CASE ~Unterminated(L)
  <2>1. AppendLine(L, l) = Append(L, l)
    BY <1>2 DEF AppendLine
  <2>2. /\ Append(L, l) \in Seq(Line)
        /\ DOMAIN L \subseteq DOMAIN Append(L, l)
        /\ \A i \in DOMAIN L : Append(L, l)[i] = L[i]
    OBVIOUS
  <2>3. Damaged(L) => Damaged(Append(L, l))
    BY <2>2 DEF Damaged
  <2> QED
    BY <2>1, <2>2, <2>3
<1> QED
  BY <1>1, <1>2

(* What an append leaves, whether it returned or the process died in it. *)
Appended(L, l) == {AppendLine(L, l)} \cup TornAppends(L, l)

LEMMA AppendedFacts ==
  ASSUME NEW L \in Seq(Line), NEW l \in Line, NEW M \in Appended(L, l)
  PROVE  /\ M \in Seq(Line)
         /\ \A i \in DOMAIN L : L[i].ended => i \in DOMAIN M /\ M[i] = L[i]
         /\ ~Damaged(M) =>
              /\ ~Damaged(L)
              /\ \/ M = L
                 \/ M = Append(L, l)
                 \/ M = Append(L, Unended(l))
<1>1. CASE M = AppendLine(L, l)
  BY <1>1, AppendLineFacts
<1>2. CASE M = L
  BY <1>2
<1>3. CASE M = AppendLine(L, Unended(l))
  BY <1>3, UnendedLine, AppendLineFacts
<1>4. CASE M = AppendLine(L, Illegible(FALSE))
  <2> DEFINE g == Illegible(FALSE)
  <2>1. g \in Line
    BY IllegibleIsLine
  <2>2. g.state = "illegible"
    BY DEF Illegible
  <2> HIDE DEF g
  <2>3. /\ M \in Seq(Line)
        /\ \A i \in DOMAIN L : L[i].ended => i \in DOMAIN M /\ M[i] = L[i]
        /\ ~Damaged(M) => M = Append(L, g)
    BY <1>4, <2>1, AppendLineFacts DEF g
  <2>4. /\ Len(L) + 1 \in DOMAIN Append(L, g)
        /\ Append(L, g)[Len(L) + 1] = g
    BY <2>1
  <2>5. Damaged(Append(L, g))
    BY <2>2, <2>4 DEF Damaged
  <2> QED
    BY <2>3, <2>5
<1> QED
  BY <1>1, <1>2, <1>3, <1>4 DEF Appended, TornAppends

(* The line an append adds: the new one with or without its newline, or one *)
(* that does not decode.                                                    *)
LEMMA NewLines ==
  ASSUME NEW L \in Seq(Line), NEW l \in Line, NEW M \in Appended(L, l),
         NEW i \in DOMAIN M \ DOMAIN L
  PROVE  M[i] \in {l, Unended(l)} \/ ~IsIntent(M[i])
<1>1. ASSUME NEW x \in Line, M = AppendLine(L, x)
      PROVE  M[i] = x
  <2>1. CASE Unterminated(L)
    <3>1. M = [L EXCEPT ![Len(L)] = Illegible(x.ended)]
      BY <1>1, <2>1 DEF AppendLine
    <3> QED
      BY <3>1
  <2>2. CASE ~Unterminated(L)
    <3>1. M = Append(L, x)
      BY <1>1, <2>2 DEF AppendLine
    <3> QED
      BY <3>1
  <2> QED
    BY <2>1, <2>2
<1>2. CASE M = L
  BY <1>2
<1>3. CASE M = AppendLine(L, l)
  BY <1>1, <1>3
<1>4. CASE M = AppendLine(L, Unended(l))
  BY <1>1, <1>4, UnendedLine
<1>5. CASE M = AppendLine(L, Illegible(FALSE))
  <2>1. Illegible(FALSE) \in Line /\ ~IsIntent(Illegible(FALSE))
    BY IllegibleIsLine DEF Illegible, IsIntent
  <2> QED
    BY <1>1, <1>5, <2>1
<1> QED
  BY <1>2, <1>3, <1>4, <1>5 DEF Appended, TornAppends
-----------------------------------------------------------------------------
(* What the steps do, in the terms of the invariant. *)

Active == stage \in {"begun", "written", "mismatch", "rewritten"}

(* While an operation is under way its intent is the last line on disk,    *)
(* unless the journal was damaged; only a write that was not a dry run gets *)
(* past "begun"; and the token that authorised it is still held.           *)
CurOK ==
  Active =>
    /\ cur \in IntentLine
    /\ cur.dry = dry
    /\ cur.bak \in Backups
    /\ stage # "begun" => ~cur.dry /\ cur.op = "write"
    /\ token \in Token
    /\ Classify(cur.part, Overrides) = CATASTROPHIC => token.expert
    /\ Damaged(log) \/ (log # <<>> /\ log[Len(log)] = cur)

(* There is an operation, and its intent is the last line on disk, unless  *)
(* the journal was damaged.                                                *)
Underway ==
  cur \in IntentLine /\ (Damaged(log) \/ (log # <<>> /\ log[Len(log)] = cur))

(* Operation ids grow along the log, so no two intents share one. *)
LogOK ==
  Damaged(log) \/
    /\ \A i \in DOMAIN log : log[i].id <= ids
    /\ \A i, j \in DOMAIN log :
         IsIntent(log[i]) /\ IsIntent(log[j]) /\ i < j => log[i].id < log[j].id

IInv == TypeOK /\ CurOK /\ LogOK /\ JournalExplainsDevice

(* Only partition p may change, to one of the contents in S. *)
OnlyTouches(p, S) ==
  /\ device' \in [Partitions -> Contents]
  /\ device'[p] \in S
  /\ \A q \in Partitions \ {p} : device'[q] = device[q]

LEMMA TouchFacts ==
  ASSUME device \in [Partitions -> Contents],
         NEW p \in Partitions, NEW S, S \subseteq Contents, Touch(p, S)
  PROVE  OnlyTouches(p, S)
  BY DEF Touch, OnlyTouches

LEMMA OutcomeIsLine ==
  ASSUME NEW n \in Nat, NEW st \in Outcomes
  PROVE  /\ Outcome(n, st) \in Line
         /\ Outcome(n, st).id = n /\ Outcome(n, st).state = st
  BY DEF Outcome, Line, OutcomeLine

LEMMA FinishFacts ==
  ASSUME TypeOK, cur \in IntentLine, NEW st \in Outcomes, Finish(st)
  PROVE  /\ log' \in Appended(log, Outcome(cur.id, st))
         /\ stage' \in {"idle", "down"} /\ cur' = NoEntry
         /\ token' \in Token \cup {NoToken}
  BY DEF Finish, Record, Dead, Appended, TypeOK

LEMMA BeginFacts ==
  ASSUME TypeOK, NEW op \in Ops, NEW p \in Partitions,
         NEW src \in Image, NEW bak \in Image, Begin(op, p, src, bak)
  PROVE  LET entry == Intent(op, p, src, bak)
         IN  /\ entry \in IntentLine
             /\ entry.id = ids + 1 /\ ids' = ids + 1
             /\ UNCHANGED <<device, dry>>
             /\ log' \in Appended(log, entry)
             /\ \/ /\ log' = AppendLine(log, entry)
                   /\ stage' = "begun" /\ cur' = entry /\ token' = token
                \/ stage' = "down" /\ cur' = NoEntry /\ token' = NoToken
<1> DEFINE entry == Intent(op, p, src, bak)
<1>1. entry \in IntentLine /\ entry.id = ids + 1
  BY DEF TypeOK, Intent, IntentLine
<1>2. ids' = ids + 1 /\ Record(entry, "begun", entry) /\ UNCHANGED <<device, dry>>
  BY DEF Begin
<1> HIDE DEF entry
<1>3. /\ log' \in Appended(log, entry)
      /\ \/ /\ log' = AppendLine(log, entry)
            /\ stage' = "begun" /\ cur' = entry /\ token' = token
         \/ stage' = "down" /\ cur' = NoEntry /\ token' = NoToken
  BY <1>2 DEF Record, Dead, Appended
<1> QED
  BY <1>1, <1>2, <1>3 DEF entry
-----------------------------------------------------------------------------
(* The two ways a step can bear on what the journal says of the device.    *)

(* An intent is recorded and no byte moves: the new line answers no older  *)
(* intent, because its id is new.                                          *)
LEMMA IntentKeepsLog ==
  ASSUME TypeOK, LogOK, JournalExplainsDevice,
         NEW e \in IntentLine, e.id = ids + 1, ids' = ids + 1,
         log' \in Appended(log, e), UNCHANGED device
  PROVE  LogOK' /\ JournalExplainsDevice'
<1> SUFFICES ASSUME ~Damaged(log')  PROVE LogOK' /\ JournalExplainsDevice'
  BY DEF LogOK, JournalExplainsDevice
<1> DEFINE n == Len(log)
<1>1. e \in Line /\ IsIntent(e)
  BY DEF Line, IntentLine, IsIntent
<1>2. log \in Seq(Line) /\ ids \in Nat
  BY DEF TypeOK
<1>3. /\ ~Damaged(log)
      /\ log' = log \/ log' = Append(log, e) \/ log' = Append(log, Unended(e))
  BY <1>1, <1>2, AppendedFacts
<1>4. /\ \A i \in DOMAIN log : log[i].id <= ids /\ log[i].id \in Nat
      /\ \A i, j \in DOMAIN log :
           IsIntent(log[i]) /\ IsIntent(log[j]) /\ i < j => log[i].id < log[j].id
  BY <1>2, <1>3 DEF LogOK, Line, IntentLine, OutcomeLine, IllegibleLine
<1>5. \A p \in Partitions :
        /\ (\A i \in DOMAIN log : ~Concerns(log[i], p)) => device[p] = Factory[p]
        /\ \A i, j \in DOMAIN log : LatestFor(p, i) /\ Answers(log, j, i) =>
             /\ log[j].state = "done" /\ log[i].op # "erase"
                  => Carries(device[p], log[i].src)
             /\ log[j].state = "rolled_back" => Carries(device[p], log[i].bak)
  BY <1>3 DEF JournalExplainsDevice
<1>6. CASE log' = log
  <2>1. LogOK'
    BY <1>2, <1>4, <1>6 DEF LogOK
  <2>2. \A p, i : LatestFor(p, i)' <=> LatestFor(p, i)
    BY <1>6 DEF LatestFor
  <2> QED
    BY <1>5, <1>6, <2>1, <2>2 DEF JournalExplainsDevice
<1>7. ASSUME NEW l \in Line, IsIntent(l), l.id = ids + 1, log' = Append(log, l)
      PROVE  LogOK' /\ JournalExplainsDevice'
  <2>1. /\ DOMAIN log' = 1 .. n + 1 /\ DOMAIN log = 1 .. n /\ n \in Nat
        /\ log'[n + 1] = l
        /\ \A i \in 1 .. n : log'[i] = log[i]
    BY <1>2, <1>7
  <2>2. LogOK'
    <3>1. \A i \in DOMAIN log' : log'[i].id <= ids'
      BY <1>2, <1>4, <1>7, <2>1
    <3>2. \A i, j \in DOMAIN log' :
            IsIntent(log'[i]) /\ IsIntent(log'[j]) /\ i < j
              => log'[i].id < log'[j].id
      BY <1>2, <1>4, <1>7, <2>1
    <3> QED
      BY <3>1, <3>2 DEF LogOK
  <2>3. ASSUME NEW p \in Partitions, \A i \in DOMAIN log' : ~Concerns(log'[i], p)
        PROVE  device'[p] = Factory[p]
    <3>1. \A i \in DOMAIN log : ~Concerns(log[i], p)
      BY <2>1, <2>3
    <3> QED
      BY <1>5, <3>1
  <2>4. ASSUME NEW p \in Partitions, NEW i \in DOMAIN log', NEW j \in DOMAIN log',
               LatestFor(p, i)', Answers(log', j, i)
        PROVE  /\ i \in DOMAIN log /\ j \in DOMAIN log
               /\ log'[i] = log[i] /\ log'[j] = log[j]
               /\ LatestFor(p, i) /\ Answers(log, j, i)
    <3>1. j > i /\ log'[j].id = log'[i].id
      BY <2>4 DEF Answers
    <3>2. i \in 1 .. n
      BY <2>1, <3>1
    <3>3. j \in 1 .. n
      BY <1>2, <1>4, <1>7, <2>1, <3>1, <3>2
    <3>4. LatestFor(p, i)
      BY <2>1, <2>4, <3>2 DEF LatestFor
    <3> QED
      BY <2>1, <3>1, <3>2, <3>3, <3>4 DEF Answers
  <2> QED
    BY <1>5, <2>2, <2>3, <2>4 DEF JournalExplainsDevice
<1>8. CASE log' = Append(log, e)
  BY <1>1, <1>7, <1>8
<1>9. CASE log' = Append(log, Unended(e))
  BY <1>1, <1>7, <1>9, UnendedLine DEF IsIntent
<1> QED
  BY <1>3, <1>6, <1>8, <1>9
(* An outcome is recorded, and at most the partition of the operation under *)
(* way changes.  The new line answers that operation's intent, the last     *)
(* line so far, and no other; what it claims must be true of the device.    *)
(* A step that records nothing is the case of an append that died at once.  *)
LEMMA OutcomeKeepsLog ==
  ASSUME TypeOK, LogOK, Underway, JournalExplainsDevice,
         NEW st \in Outcomes, log' \in Appended(log, Outcome(cur.id, st)),
         UNCHANGED ids,
         OnlyTouches(cur.part, Contents),
         cur.dry => device'[cur.part] = device[cur.part],
         st = "done" /\ ~cur.dry /\ cur.op # "erase" /\ log' # log
           => Carries(device'[cur.part], cur.src),
         st = "rolled_back" /\ log' # log
           => Carries(device'[cur.part], cur.bak)
  PROVE  LogOK' /\ JournalExplainsDevice'
<1> SUFFICES ASSUME ~Damaged(log')  PROVE LogOK' /\ JournalExplainsDevice'
  BY DEF LogOK, JournalExplainsDevice
<1> DEFINE n == Len(log)
<1>1. cur \in IntentLine /\ cur.id \in Nat /\ cur.part \in Partitions
  BY DEF Underway, IntentLine
<1>2. log \in Seq(Line) /\ ids \in Nat
  BY DEF TypeOK
<1>3. \A l \in Line : l.id \in Nat /\ (l.state \in Outcomes => ~IsIntent(l))
  BY DEF Line, IntentLine, OutcomeLine, IllegibleLine, IsIntent, Outcomes
<1>4. \E l \in Line : /\ ~Damaged(log)
                      /\ l.id = cur.id /\ l.state = st /\ ~IsIntent(l)
                      /\ (log' = log \/ log' = Append(log, l))
  <2> DEFINE o == Outcome(cur.id, st)
  <2>1. o \in Line /\ o.id = cur.id /\ o.state = st
    BY <1>1, OutcomeIsLine
  <2> HIDE DEF o
  <2>2. Unended(o) \in Line /\ Unended(o).id = cur.id /\ Unended(o).state = st
    BY <2>1, UnendedLine
  <2>3. /\ ~Damaged(log)
        /\ log' = log \/ log' = Append(log, o) \/ log' = Append(log, Unended(o))
    BY <1>2, <2>1, AppendedFacts DEF o
  <2> QED
    BY <1>3, <2>1, <2>2, <2>3
<1>5. PICK l \in Line : /\ ~Damaged(log)
                        /\ l.id = cur.id /\ l.state = st /\ ~IsIntent(l)
                        /\ (log' = log \/ log' = Append(log, l))
  BY <1>4
<1>6. n \in Nat /\ DOMAIN log = 1 .. n /\ n >= 1 /\ log[n] = cur /\ IsIntent(cur)
  <2>1. log # <<>> /\ log[n] = cur
    BY <1>5 DEF Underway
  <2>2. n \in Nat /\ DOMAIN log = 1 .. n /\ n >= 1
    BY <1>2, <2>1
  <2>3. IsIntent(cur)
    BY <1>1 DEF IntentLine, IsIntent
  <2> QED
    BY <2>1, <2>2, <2>3
<1>7. /\ \A i \in 1 .. n : log[i].id <= ids /\ log[i].id \in Nat
      /\ \A i, j \in 1 .. n :
           IsIntent(log[i]) /\ IsIntent(log[j]) /\ i < j => log[i].id < log[j].id
  BY <1>2, <1>3, <1>5, <1>6 DEF LogOK
<1>8. /\ \A i \in 1 .. n : log'[i] = log[i]
      /\ \/ log' = log /\ DOMAIN log' = 1 .. n
         \/ log' # log /\ DOMAIN log' = 1 .. n + 1 /\ log'[n + 1] = l
  BY <1>2, <1>5, <1>6
<1>9. LogOK'
  <2>1. \A i \in DOMAIN log' : log'[i].id <= ids'
    BY <1>2, <1>5, <1>6, <1>7, <1>8
  <2>2. \A i, j \in DOMAIN log' :
          IsIntent(log'[i]) /\ IsIntent(log'[j]) /\ i < j
            => log'[i].id < log'[j].id
    BY <1>5, <1>6, <1>7, <1>8
  <2> QED
    BY <2>1, <2>2 DEF LogOK
<1>10. ASSUME NEW p \in Partitions, ~Concerns(cur, p)
       PROVE  device'[p] = device[p]
  <2>1. cur.dry \/ cur.part # p
    BY <1>6, <1>10 DEF Concerns
  <2> QED
    BY <1>1, <2>1 DEF OnlyTouches
<1>11. ASSUME NEW p \in Partitions, \A i \in DOMAIN log' : ~Concerns(log'[i], p)
       PROVE  device'[p] = Factory[p]
  <2>1. \A i \in DOMAIN log : ~Concerns(log[i], p)
    BY <1>6, <1>8, <1>11
  <2>2. device[p] = Factory[p]
    BY <1>5, <2>1 DEF JournalExplainsDevice
  <2> QED
    BY <1>6, <1>10, <2>1, <2>2
<1>12. ASSUME NEW p \in Partitions, NEW i \in DOMAIN log', NEW j \in DOMAIN log',
              LatestFor(p, i)', Answers(log', j, i)
       PROVE  /\ log'[j].state = "done" /\ log'[i].op # "erase"
                   => Carries(device'[p], log'[i].src)
              /\ log'[j].state = "rolled_back" => Carries(device'[p], log'[i].bak)
  <2>1. j > i /\ log'[j].id = log'[i].id
    BY <1>12 DEF Answers
  <2>2. i \in 1 .. n /\ log'[i] = log[i]
    BY <1>6, <1>8, <2>1
  <2>3. /\ Concerns(log[i], p)
        /\ \A k \in 1 .. n : Concerns(log[k], p) => k <= i
    BY <1>6, <1>8, <1>12, <2>2 DEF LatestFor
  <2>4. CASE Concerns(cur, p)
    <3>1. i = n
      BY <1>6, <2>2, <2>3, <2>4
    <3>2. log' # log /\ j = n + 1 /\ log'[j] = l /\ log'[i] = cur
      BY <1>6, <1>8, <2>1, <2>2, <3>1
    <3>3. ~cur.dry /\ cur.part = p
      BY <2>4 DEF Concerns
    <3> QED
      BY <1>5, <3>2, <3>3
  <2>5. CASE ~Concerns(cur, p)
    <3>1. i < n
      BY <1>6, <2>2, <2>3, <2>5
    <3>2. log[i].id < cur.id
      BY <1>6, <1>7, <2>2, <2>3, <3>1 DEF Concerns
    <3>3. j \in 1 .. n /\ log'[j] = log[j]
      BY <1>1, <1>5, <1>6, <1>7, <1>8, <2>1, <2>2, <3>2
    <3>4. LatestFor(p, i) /\ Answers(log, j, i) /\ i \in DOMAIN log /\ j \in DOMAIN log
      BY <1>6, <2>1, <2>2, <2>3, <3>3 DEF LatestFor, Answers
    <3>5. /\ log[j].state = "done" /\ log[i].op # "erase"
               => Carries(device[p], log[i].src)
          /\ log[j].state = "rolled_back" => Carries(device[p], log[i].bak)
      BY <1>5, <3>4 DEF JournalExplainsDevice
    <3> QED
      BY <1>10, <2>2, <2>5, <3>3, <3>5
  <2> QED
    BY <2>4, <2>5
<1> QED
  BY <1>9, <1>11, <1>12 DEF JournalExplainsDevice
-----------------------------------------------------------------------------
(* The invariant, action by action.  Each lemma is one kind of step.       *)

LEMMA InitHolds == Init => IInv
<1> SUFFICES ASSUME Init PROVE IInv
  OBVIOUS
<1>1. TypeOK
  <2>1. device \in [Partitions -> Contents]
    BY SessionAssumption DEF Init
  <2>2. log \in Seq(Line)
    BY DEF Init
  <2> QED
    BY <2>1, <2>2 DEF Init, TypeOK, Stages
<1>2. CurOK
  BY DEF Init, CurOK, Active
<1>3. LogOK /\ JournalExplainsDevice
  BY DEF Init, LogOK, JournalExplainsDevice
<1> QED
  BY <1>1, <1>2, <1>3 DEF IInv

LEMMA BeginHolds ==
  ASSUME IInv, token \in Token, NEW op \in Ops, NEW p \in Partitions,
         NEW src \in Image, NEW bak \in Backups,
         Classify(p, Overrides) = CATASTROPHIC => token.expert,
         Begin(op, p, src, bak)
  PROVE  IInv'
<1> DEFINE entry == Intent(op, p, src, bak)
<1>1. TypeOK /\ LogOK /\ JournalExplainsDevice /\ bak \in Image
  BY SessionAssumption DEF IInv
<1>2. /\ entry \in IntentLine
      /\ entry.id = ids + 1 /\ ids' = ids + 1
      /\ UNCHANGED <<device, dry>>
      /\ log' \in Appended(log, entry)
      /\ \/ /\ log' = AppendLine(log, entry)
            /\ stage' = "begun" /\ cur' = entry /\ token' = token
         \/ stage' = "down" /\ cur' = NoEntry /\ token' = NoToken
  BY <1>1, BeginFacts
<1>3. entry.part = p /\ entry.bak = bak /\ entry.dry = dry
  BY DEF Intent
<1> HIDE DEF entry
<1>4. entry \in Line /\ log \in Seq(Line)
  BY <1>1, <1>2 DEF Line, TypeOK
<1>5. LogOK' /\ JournalExplainsDevice'
  BY <1>1, <1>2, IntentKeepsLog
<1>6. TypeOK'
  BY <1>1, <1>2, <1>4, AppendedFacts DEF TypeOK, Stages
<1>7. CurOK'
  <2>1. CASE stage' = "down"
    BY <2>1 DEF CurOK, Active
  <2>2. CASE stage' = "begun"
    <3>1. cur' = entry /\ token' = token /\ log' = AppendLine(log, entry)
      BY <1>2, <2>2
    <3>2. ~Damaged(log') => log' = Append(log, entry)
      BY <1>4, <3>1, AppendLineFacts
    <3>3. Append(log, entry) # <<>>
          /\ Append(log, entry)[Len(Append(log, entry))] = entry
      BY <1>4
    <3>4. Damaged(log') \/ (log' # <<>> /\ log'[Len(log')] = cur')
      BY <3>1, <3>2, <3>3
    <3> QED
      BY <1>2, <1>3, <2>2, <3>1, <3>4 DEF CurOK, Active
  <2> QED
    BY <1>2, <2>1, <2>2
<1> QED
  BY <1>5, <1>6, <1>7 DEF IInv

(* How a step of an operation under way may end: with an outcome that is   *)
(* true of the device ...                                                  *)
Closes(st) ==
  /\ Underway /\ Finish(st) /\ UNCHANGED <<ids, dry>>
  /\ OnlyTouches(cur.part, Contents)
  /\ cur.dry => device'[cur.part] = device[cur.part]
  /\ st = "done" /\ ~cur.dry /\ cur.op # "erase" => Carries(device'[cur.part], cur.src)
  /\ st = "rolled_back" => cur.bak \in Image /\ Carries(device'[cur.part], cur.bak)

(* ... or with nothing on record. *)
Moves ==
  /\ Underway /\ UNCHANGED <<log, ids, dry>>
  /\ OnlyTouches(cur.part, Contents)
  /\ cur.dry => device'[cur.part] = device[cur.part]

LEMMA FinishHolds ==
  ASSUME IInv, NEW st \in Outcomes, Closes(st)
  PROVE  IInv'
<1>1. TypeOK /\ LogOK /\ JournalExplainsDevice /\ cur \in IntentLine
  BY DEF IInv, Closes, Underway
<1>2. /\ log' \in Appended(log, Outcome(cur.id, st))
      /\ stage' \in {"idle", "down"} /\ cur' = NoEntry
      /\ token' \in Token \cup {NoToken}
  BY <1>1, FinishFacts DEF Closes
<1>3. LogOK' /\ JournalExplainsDevice'
  BY <1>1, <1>2, OutcomeKeepsLog DEF Closes
<1>4. Outcome(cur.id, st) \in Line /\ log \in Seq(Line)
  BY <1>1, OutcomeIsLine DEF TypeOK, IntentLine
<1>5. TypeOK'
  BY <1>1, <1>2, <1>4, AppendedFacts DEF TypeOK, Stages, OnlyTouches, Closes
<1>6. CurOK'
  BY <1>2 DEF CurOK, Active
<1> QED
  BY <1>3, <1>5, <1>6 DEF IInv

(* A step inside an operation that records nothing. *)
LEMMA SilentHolds ==
  ASSUME IInv, Active, Moves,
         \/ /\ stage' \in {"written", "mismatch", "rewritten"}
            /\ ~cur.dry /\ cur.op = "write"
            /\ UNCHANGED <<cur, token>>
         \/ Dead
  PROVE  IInv'
<1>1. TypeOK /\ LogOK /\ CurOK /\ JournalExplainsDevice /\ Underway
  BY DEF IInv, CurOK, Underway
<1>2. "failed" \in Outcomes /\ log' \in Appended(log, Outcome(cur.id, "failed"))
  BY DEF Outcomes, Appended, TornAppends, Moves
<1>3. LogOK' /\ JournalExplainsDevice'
  BY <1>1, <1>2, OutcomeKeepsLog DEF Moves
<1>4. TypeOK'
  BY <1>1 DEF TypeOK, Stages, OnlyTouches, Dead, Moves
<1>5. CurOK'
  <2>1. CASE Dead
    BY <2>1 DEF CurOK, Active, Dead
  <2>2. CASE stage' \in {"written", "mismatch", "rewritten"}
             /\ ~cur.dry /\ cur.op = "write" /\ UNCHANGED <<cur, token>>
    <3>1. Damaged(log)' <=> Damaged(log)
      BY DEF Damaged, Moves
    <3> QED
      BY <1>1, <2>2, <3>1 DEF CurOK, Active, Moves
  <2> QED
    BY <2>1, <2>2
<1> QED
  BY <1>3, <1>4, <1>5 DEF IInv

(* A step outside any operation: neither the device nor the log changes. *)
LEMMA OutsideHolds ==
  ASSUME IInv, UNCHANGED <<device, log, ids>>, TypeOK', CurOK'
  PROVE  IInv'
<1>1. Damaged(log)' <=> Damaged(log)
  BY DEF Damaged
<1>2. LogOK'
  BY <1>1 DEF IInv, LogOK
<1>3. \A p, i : LatestFor(p, i)' <=> LatestFor(p, i)
  BY DEF LatestFor
<1>4. JournalExplainsDevice'
  BY <1>1, <1>3 DEF IInv, JournalExplainsDevice
<1> QED
  BY <1>2, <1>4 DEF IInv

(* The operands of an operation under way. *)
LEMMA ActiveFacts ==
  ASSUME IInv, Active
  PROVE  /\ Underway
         /\ cur \in IntentLine /\ cur.part \in Partitions
         /\ cur.src \in Image /\ cur.bak \in Image
         /\ device \in [Partitions -> Contents]
         /\ device[cur.part] \in Contents
         /\ stage # "begun" => ~cur.dry /\ cur.op = "write"
         /\ cur.dry = dry
<1>1. cur \in IntentLine /\ cur.bak \in Backups /\ cur.dry = dry
      /\ (stage # "begun" => ~cur.dry /\ cur.op = "write")
  BY DEF IInv, CurOK
<1>2. device \in [Partitions -> Contents]
  BY DEF IInv, TypeOK
<1>3. Underway
  BY DEF IInv, CurOK, Underway
<1> QED
  BY <1>1, <1>2, <1>3, SessionAssumption DEF IntentLine

(* A transfer of img to the operation's partition, whether or not it       *)
(* succeeded, changes that partition alone.                                *)
LEMMA TransferFacts ==
  ASSUME IInv, Active, NEW img \in Image, NEW S,
         \/ S = Landed(device[cur.part], img)
         \/ S = Interrupted(device[cur.part], img),
         Touch(cur.part, S)
  PROVE  OnlyTouches(cur.part, Contents)
<1>1. S \subseteq Contents
  BY ActiveFacts, WritesKeepContents
<1>2. OnlyTouches(cur.part, S)
  BY <1>1, ActiveFacts, TouchFacts
<1> QED
  BY <1>1, <1>2 DEF OnlyTouches

LEMMA NoTransferFacts ==
  ASSUME IInv, Active, UNCHANGED device
  PROVE  OnlyTouches(cur.part, Contents)
  BY ActiveFacts DEF OnlyTouches

(* Recording the intent of a write or of an erase. *)
LEMMA RequestHolds == ASSUME IInv, Request PROVE IInv'
<1>1. PICK p \in Partitions, bak \in Backups \cup {NoImage} :
        \/ BeginErase(p, bak)
        \/ \E src, seen \in Sources, target \in Partitions :
             BeginWrite(p, src, bak, Report(seen, target))
  BY DEF Request
<1>2. token \in Token \cup {NoToken}
  BY DEF IInv, TypeOK
<1>3. CASE BeginErase(p, bak)
  <2>1. /\ token \in Token /\ bak \in Backups
        /\ Classify(p, Overrides) = CATASTROPHIC => token.expert
        /\ Begin("erase", p, Blank, bak)
    BY <1>2, <1>3 DEF BeginErase, Authorize
  <2>2. "erase" \in Ops
    BY DEF Ops
  <2> QED
    BY <2>1, <2>2, BlankIsImage, BeginHolds
<1>4. ASSUME NEW src \in Sources, NEW seen \in Sources, NEW target \in Partitions,
             BeginWrite(p, src, bak, Report(seen, target))
      PROVE  IInv'
  <2>1. /\ token \in Token /\ bak \in Backups
        /\ Classify(p, Overrides) = CATASTROPHIC => token.expert
        /\ Begin("write", p, src, bak)
    BY <1>2, <1>4 DEF BeginWrite, Authorize
  <2>2. "write" \in Ops /\ src \in Image
    BY SessionAssumption DEF Ops
  <2> QED
    BY <2>1, <2>2, BeginHolds
<1> QED
  BY <1>1, <1>3, <1>4

(* What a request that passed the refusals begins. *)
LEMMA RequestFacts ==
  ASSUME IInv, Request
  PROVE  /\ stage = "idle" /\ token \in Token
         /\ \E op \in Ops, p \in Partitions, src \in Image, bak \in Image :
              Begin(op, p, src, bak)
<1>1. PICK p \in Partitions, bak \in Backups \cup {NoImage} :
        \/ BeginErase(p, bak)
        \/ \E src, seen \in Sources, target \in Partitions :
             BeginWrite(p, src, bak, Report(seen, target))
  BY DEF Request
<1>2. token \in Token \cup {NoToken} /\ Backups \subseteq Image /\ Sources \subseteq Image
  BY SessionAssumption DEF IInv, TypeOK
<1>3. /\ stage = "idle" /\ token # NoToken /\ bak \in Image
      /\ \E op \in Ops, src \in Image : Begin(op, p, src, bak)
  BY <1>1, <1>2, BlankIsImage DEF BeginErase, BeginWrite, Ops
<1> QED  BY <1>2, <1>3

(* The steps of an operation, one by one. *)
LEMMA ProgressCases ==
  ASSUME IInv, Progress
  PROVE  /\ Active
         /\ \/ \E st \in Outcomes : Closes(st)
            \/ /\ Moves
               /\ stage' \in {"written", "mismatch", "rewritten"}
               /\ ~cur.dry /\ cur.op = "write"
               /\ UNCHANGED <<cur, token>>
<1> USE DEF Active
<1>1. CASE DryRunDone
  <2>1. Active /\ cur.dry /\ Finish("done") /\ UNCHANGED <<device, ids, dry>>
    BY <1>1 DEF DryRunDone
  <2>2. "done" \in Outcomes
    BY DEF Outcomes
  <2> QED
    BY <2>1, <2>2, NoTransferFacts, ActiveFacts DEF Closes
<1>2. CASE BackendWrite
  <2>1. /\ Active /\ ~cur.dry /\ cur.op = "write" /\ stage' = "written"
        /\ Touch(cur.part, Landed(device[cur.part], cur.src))
        /\ UNCHANGED <<log, ids, cur, dry, token>>
    BY <1>2 DEF BackendWrite
  <2>2. OnlyTouches(cur.part, Contents)
    BY <2>1, ActiveFacts, TransferFacts
  <2> QED
    BY <2>1, <2>2, ActiveFacts DEF Moves
<1>3. CASE BackendRaises
  <2>1. /\ Active /\ ~cur.dry /\ Finish("failed") /\ UNCHANGED <<ids, dry>>
        /\ Touch(cur.part, Interrupted(device[cur.part], cur.src))
    BY <1>3 DEF BackendRaises
  <2>2. OnlyTouches(cur.part, Contents)
    BY <2>1, ActiveFacts, TransferFacts
  <2>3. "failed" \in Outcomes
    BY DEF Outcomes
  <2> QED
    BY <2>1, <2>2, <2>3, ActiveFacts DEF Closes
<1>4. CASE BackendErase
  <2>1. /\ Active /\ ~cur.dry /\ cur.op = "erase" /\ Finish("done")
        /\ Touch(cur.part, Landed(device[cur.part], cur.src))
        /\ UNCHANGED <<ids, dry>>
    BY <1>4 DEF BackendErase
  <2>2. OnlyTouches(cur.part, Contents)
    BY <2>1, ActiveFacts, TransferFacts
  <2>3. "done" \in Outcomes
    BY DEF Outcomes
  <2> QED
    BY <2>1, <2>2, <2>3, ActiveFacts DEF Closes
<1>5. CASE ReadBackMatches
  <2>1. /\ Active /\ stage # "begun"
        /\ Finish("done") /\ UNCHANGED <<device, ids, dry>>
    BY <1>5 DEF ReadBackMatches
  <2>2. Carries(device[cur.part], cur.src)
    BY <1>5, <2>1, ActiveFacts, MatchMeansCarries DEF ReadBackMatches
  <2>3. "done" \in Outcomes
    BY DEF Outcomes
  <2> QED
    BY <2>1, <2>2, <2>3, NoTransferFacts, ActiveFacts DEF Closes
<1>6. CASE ReadBackDiffers
  <2>1. /\ Active /\ stage # "begun" /\ stage' = "mismatch"
        /\ UNCHANGED <<device, log, ids, cur, dry, token>>
    BY <1>6 DEF ReadBackDiffers
  <2> QED
    BY <2>1, ActiveFacts, NoTransferFacts DEF Moves
<1>7. CASE ReadBackRaises
  <2>1. /\ Active /\ stage # "begun"
        /\ Finish("failed") /\ UNCHANGED <<device, ids, dry>>
    BY <1>7 DEF ReadBackRaises
  <2>2. "failed" \in Outcomes
    BY DEF Outcomes
  <2> QED
    BY <2>1, <2>2, NoTransferFacts, ActiveFacts DEF Closes
<1>8. CASE RollbackWrite
  <2>1. /\ Active /\ stage # "begun" /\ stage' = "rewritten"
        /\ Touch(cur.part, Landed(device[cur.part], cur.bak))
        /\ UNCHANGED <<log, ids, cur, dry, token>>
    BY <1>8 DEF RollbackWrite
  <2>2. OnlyTouches(cur.part, Contents)
    BY <2>1, ActiveFacts, TransferFacts
  <2> QED
    BY <2>1, <2>2, ActiveFacts DEF Moves
<1>9. CASE RollbackWriteRaises
  <2>1. /\ Active /\ stage # "begun"
        /\ Finish("failed") /\ UNCHANGED <<ids, dry>>
        /\ Touch(cur.part, Interrupted(device[cur.part], cur.bak))
    BY <1>9 DEF RollbackWriteRaises
  <2>2. OnlyTouches(cur.part, Contents)
    BY <2>1, ActiveFacts, TransferFacts
  <2>3. "failed" \in Outcomes
    BY DEF Outcomes
  <2> QED
    BY <2>1, <2>2, <2>3, ActiveFacts DEF Closes
<1>10. CASE RollbackVerified
  <2>1. /\ Active /\ stage # "begun"
        /\ Finish("rolled_back") /\ UNCHANGED <<device, ids, dry>>
    BY <1>10 DEF RollbackVerified
  <2>2. Carries(device[cur.part], cur.bak)
    BY <1>10, <2>1, ActiveFacts, MatchMeansCarries DEF RollbackVerified
  <2>3. "rolled_back" \in Outcomes
    BY DEF Outcomes
  <2> QED
    BY <2>1, <2>2, <2>3, NoTransferFacts, ActiveFacts DEF Closes
<1>11. CASE RollbackUnverified
  <2>1. /\ Active /\ stage # "begun"
        /\ Finish("failed") /\ UNCHANGED <<device, ids, dry>>
    BY <1>11 DEF RollbackUnverified
  <2>2. "failed" \in Outcomes
    BY DEF Outcomes
  <2> QED
    BY <2>1, <2>2, NoTransferFacts, ActiveFacts DEF Closes
<1> QED
  BY <1>1, <1>2, <1>3, <1>4, <1>5, <1>6, <1>7, <1>8, <1>9, <1>10, <1>11
     DEF Progress

LEMMA ProgressHolds == ASSUME IInv, Progress PROVE IInv'
  BY ProgressCases, FinishHolds, SilentHolds

(* A death inside an operation leaves its transfer where it is. *)
LEMMA DieMoves == ASSUME IInv, Die, stage # "idle" PROVE Active /\ Moves
<1>1. Dead /\ stage # "down" /\ UNCHANGED <<log, ids, dry>>
  BY DEF Die
<1>2. Active
  BY <1>1 DEF IInv, TypeOK, Active, Stages
<1>3. /\ OnlyTouches(cur.part, Contents)
      /\ cur.dry => device'[cur.part] = device[cur.part]
  <2>1. CASE stage = "begun" /\ ~dry
    <3>1. Touch(cur.part, Interrupted(device[cur.part], cur.src))
      BY <2>1 DEF Die
    <3> QED
      BY <1>2, <2>1, <3>1, ActiveFacts, TransferFacts
  <2>2. CASE stage = "mismatch"
    <3>1. Touch(cur.part, Interrupted(device[cur.part], cur.bak))
      BY <2>2 DEF Die
    <3> QED
      BY <1>2, <2>2, <3>1, ActiveFacts, TransferFacts
  <2>3. CASE ~(stage = "begun" /\ ~dry) /\ stage # "mismatch"
    <3>1. UNCHANGED device
      BY <2>3 DEF Die
    <3> QED
      BY <1>2, <3>1, NoTransferFacts
  <2> QED
    BY <2>1, <2>2, <2>3
<1> QED
  BY <1>1, <1>2, <1>3, ActiveFacts DEF Moves

(* A death, wherever it strikes. *)
LEMMA DieHolds == ASSUME IInv, Die PROVE IInv'
<1>1. Dead /\ UNCHANGED <<log, ids, dry>>
  BY DEF Die
<1>2. CASE stage = "idle"
  <2>1. UNCHANGED <<device, log, ids>>
    BY <1>1, <1>2 DEF Die
  <2>2. TypeOK' /\ CurOK'
    BY <1>1, <2>1 DEF IInv, TypeOK, CurOK, Active, Stages, Dead
  <2> QED
    BY <2>1, <2>2, OutsideHolds
<1>3. CASE stage # "idle"
  BY <1>1, <1>3, DieMoves, SilentHolds
<1> QED
  BY <1>2, <1>3

LEMMA SurroundingsHold == ASSUME IInv, Surroundings PROVE IInv'
<1>1. CASE Start
  <2>1. UNCHANGED <<device, log, ids>>
    BY <1>1 DEF Start
  <2>2. TypeOK' /\ CurOK'
    BY <1>1 DEF Start, IInv, TypeOK, CurOK, Active, Stages
  <2> QED
    BY <2>1, <2>2, OutsideHolds
<1>2. CASE GrantToken
  <2>1. UNCHANGED <<device, log, ids>>
    BY <1>2 DEF GrantToken
  <2>2. token' \in Token
    BY <1>2 DEF GrantToken, Token
  <2>3. TypeOK' /\ CurOK'
    BY <1>2, <2>2 DEF GrantToken, IInv, TypeOK, CurOK, Active
  <2> QED
    BY <2>1, <2>3, OutsideHolds
<1>3. CASE GrantRescueToken
  <2>1. UNCHANGED <<device, log, ids>>
    BY <1>3 DEF GrantRescueToken
  <2>2. token' \in Token
    BY <1>3 DEF GrantRescueToken, Token
  <2>3. TypeOK' /\ CurOK'
    BY <1>3, <2>2 DEF GrantRescueToken, IInv, TypeOK, CurOK, Active
  <2> QED
    BY <2>1, <2>3, OutsideHolds
<1>4. CASE TokenExpires
  <2>1. UNCHANGED <<device, log, ids, stage, cur, dry>>
    BY <1>4 DEF TokenExpires
  <2>2. token \in Token
    BY <1>4 DEF TokenExpires, IInv, TypeOK
  <2>3. token' \in Token /\ token'.expert = token.expert
    BY <1>4, <2>2 DEF TokenExpires, Token
  <2>4. TypeOK'
    BY <2>1, <2>3 DEF IInv, TypeOK
  <2>5. Damaged(log)' <=> Damaged(log)
    BY <2>1 DEF Damaged
  <2>6. CurOK'
    BY <2>1, <2>3, <2>5 DEF IInv, CurOK, Active
  <2> QED
    BY <2>1, <2>4, <2>6, OutsideHolds
<1> QED
  BY <1>1, <1>2, <1>3, <1>4, DieHolds DEF Surroundings

(* IInv is inductive. *)
LEMMA NextHolds == IInv /\ [Next]_vars => IInv'
<1> SUFFICES ASSUME IInv, [Next]_vars PROVE IInv'
  OBVIOUS
<1>1. CASE UNCHANGED vars
  <2>1. UNCHANGED <<device, log, ids, stage, cur, dry, token>>
    BY <1>1 DEF vars
  <2>2. Damaged(log)' <=> Damaged(log)
    BY <2>1 DEF Damaged
  <2>3. TypeOK' /\ CurOK'
    BY <2>1, <2>2 DEF IInv, TypeOK, CurOK, Active
  <2> QED
    BY <2>1, <2>3, OutsideHolds
<1> QED
  BY <1>1, RequestHolds, ProgressHolds, SurroundingsHold DEF Next

LEMMA AlwaysIInv == Spec => []IInv
  BY InitHolds, NextHolds, PTL DEF Spec

-----------------------------------------------------------------------------
(* The state keeps its shape, whatever the session is asked to do. *)
THEOREM TypeCorrect == Spec => []TypeOK
<1>1. IInv => TypeOK
  BY DEF IInv
<1> QED
  BY <1>1, AlwaysIInv, PTL

(* What the journal says of a partition is true of the device, for every   *)
(* image, every number of partitions and operations, and a death between   *)
(* any two steps: done means the image is there, rolled back the backup.   *)
THEOREM JournalExplains == Spec => []JournalExplainsDevice
<1>1. IInv => JournalExplainsDevice
  BY DEF IInv
<1> QED
  BY <1>1, AlwaysIInv, PTL

-----------------------------------------------------------------------------
(* What a step does to the journal and to the device, in one sentence each. *)

(* An intent that the refusals of write() or erase() let through. *)
Vetted(l) ==
  IsIntent(l) /\ l.op # "preflight_write_roundtrip" => Vouched(l)

(* A step leaves the journal alone, or appends one line to it. *)
OneAppend ==
  log' = log \/ \E l \in Line : Vetted(l) /\ log' \in Appended(log, l)

LEMMA RequestAppends == ASSUME IInv, Request PROVE OneAppend
<1>1. PICK p \in Partitions, bak \in Backups \cup {NoImage} :
        \/ BeginErase(p, bak)
        \/ \E src, seen \in Sources, target \in Partitions :
             BeginWrite(p, src, bak, Report(seen, target))
  BY DEF Request
<1>2. TypeOK /\ Backups \subseteq Image /\ Sources \subseteq Image
  BY SessionAssumption DEF IInv
<1>3. CASE BeginErase(p, bak)
  <2> DEFINE e == Intent("erase", p, Blank, bak)
  <2>1. bak \in Backups /\ Begin("erase", p, Blank, bak) /\ "erase" \in Ops
    BY <1>3 DEF BeginErase, Ops
  <2>2. e \in IntentLine /\ log' \in Appended(log, e)
    BY <1>2, <2>1, BlankIsImage, BeginFacts
  <2>3. e.op = "erase" /\ e.part = p /\ e.bak = bak
    BY DEF Intent
  <2>4. Vouched(e)
    BY <1>3, <2>1, <2>3 DEF BeginErase, Authorize, CheckUsable, Vouched
  <2> QED
    BY <2>2, <2>4 DEF OneAppend, Vetted, Line
<1>4. ASSUME NEW src \in Sources, NEW seen \in Sources, NEW target \in Partitions,
             BeginWrite(p, src, bak, Report(seen, target))
      PROVE  OneAppend
  <2> DEFINE e == Intent("write", p, src, bak)
  <2>1. /\ bak \in Backups /\ Begin("write", p, src, bak) /\ "write" \in Ops
        /\ seen \in Passes[p]
    BY <1>4 DEF BeginWrite, Report, Ops
  <2>2. e \in IntentLine /\ log' \in Appended(log, e)
    BY <1>2, <2>1, BeginFacts
  <2>3. e.part = p /\ e.bak = bak
    BY DEF Intent
  <2>4. Vouched(e)
    BY <1>4, <2>1, <2>3 DEF BeginWrite, Authorize, CheckUsable, Vouched
  <2> QED
    BY <2>2, <2>4 DEF OneAppend, Vetted, Line
<1> QED
  BY <1>1, <1>3, <1>4

LEMMA FinishAppends ==
  ASSUME TypeOK, cur \in IntentLine, NEW st \in Outcomes, Finish(st)
  PROVE  OneAppend
<1>1. log' \in Appended(log, Outcome(cur.id, st))
  BY FinishFacts
<1>2. /\ Outcome(cur.id, st) \in Line
      /\ ~IsIntent(Outcome(cur.id, st))
  BY OutcomeIsLine DEF IntentLine, IsIntent, Outcomes
<1> QED
  BY <1>1, <1>2 DEF OneAppend, Vetted

LEMMA StepAppends == ASSUME IInv, [Next]_vars PROVE OneAppend
<1>1. CASE Request
  BY <1>1, RequestAppends
<1>2. CASE Progress
  <2>1. \/ log' = log
        \/ Active /\ \E st \in Outcomes : Finish(st)
    BY <1>2 DEF Progress, Active, Outcomes, DryRunDone, BackendWrite,
      BackendRaises, BackendErase, ReadBackMatches, ReadBackDiffers,
      ReadBackRaises, RollbackWrite, RollbackWriteRaises, RollbackVerified,
      RollbackUnverified
  <2> QED
    BY <2>1, ActiveFacts, FinishAppends DEF OneAppend, IInv
<1>3. CASE Surroundings \/ UNCHANGED vars
  BY <1>3 DEF OneAppend, Surroundings, Start, GrantToken, GrantRescueToken,
    TokenExpires, Die, vars
<1> QED
  BY <1>1, <1>2, <1>3 DEF Next

LEMMA VettedAppends ==
  ASSUME log \in Seq(Line), OneAppend
  PROVE  NewIntentsAreVouchedFor
<1> SUFFICES ASSUME NEW i \in DOMAIN log' \ DOMAIN log PROVE Vetted(log'[i])
  BY DEF NewIntentsAreVouchedFor, Vetted
<1>1. CASE log' = log
  BY <1>1
<1>2. ASSUME NEW l \in Line, Vetted(l), log' \in Appended(log, l)
      PROVE  Vetted(log'[i])
  <2>1. log'[i] \in {l, Unended(l)} \/ ~IsIntent(log'[i])
    BY <1>2, NewLines
  <2> QED
    BY <1>2, <2>1, UnendedLine DEF Vetted, Vouched, IsIntent
<1> QED
  BY <1>1, <1>2 DEF OneAppend

(* A partition changes only under an operation on it that is no dry run. *)
LEMMA StepTouches ==
  ASSUME IInv, [Next]_vars, NEW p \in Partitions, device'[p] # device[p]
  PROVE  Active /\ ~dry /\ ~cur.dry /\ cur.part = p
<1>1. CASE Request \/ UNCHANGED vars
  BY <1>1 DEF Request, BeginErase, BeginWrite, Begin, vars
<1>2. CASE Progress
  <2>1. Active /\ ~cur.dry /\ \E S : Touch(cur.part, S)
    <3>1. /\ Active
          /\ (~cur.dry \/ stage # "begun")
          /\ \E S : Touch(cur.part, S)
      BY <1>2 DEF Progress, Active, DryRunDone, BackendWrite,
        BackendRaises, BackendErase, ReadBackMatches, ReadBackDiffers,
        ReadBackRaises, RollbackWrite, RollbackWriteRaises, RollbackVerified,
        RollbackUnverified
    <3> QED
      BY <3>1, ActiveFacts
  <2> QED
    BY <2>1, ActiveFacts DEF Touch
<1>3. CASE Surroundings
  <2>1. Die
    BY <1>3 DEF Surroundings, Start, GrantToken, GrantRescueToken, TokenExpires
  <2>2. /\ (stage = "begun" /\ ~dry) \/ stage = "mismatch"
        /\ \E S : Touch(cur.part, S)
    BY <2>1 DEF Die
  <2>3. Active
    BY <2>2 DEF Active
  <2> QED
    BY <2>2, <2>3, ActiveFacts DEF Touch
<1> QED
  BY <1>1, <1>2, <1>3 DEF Next

-----------------------------------------------------------------------------
(* No intent to write or erase reaches the journal but under a token that  *)
(* is not stale, an expert one where the tier asks for it, with a backup to*)
(* go back to and, for a write, a verdict for that very partition.         *)
THEOREM IntentsVouched == Spec => IntentsAreVouchedFor
<1>1. IInv /\ [Next]_vars => [NewIntentsAreVouchedFor]_vars
  BY StepAppends, VettedAppends DEF IInv, TypeOK
<1> QED
  BY <1>1, AlwaysIInv, PTL DEF Spec, IntentsAreVouchedFor

(* Bytes reach a partition only after an intent that names it and its      *)
(* backup reached the disk, unless an append of an earlier process was cut *)
(* short.                                                                  *)
THEOREM IntentFirst == Spec => IntentBeforeBytes
<1>1. IInv /\ [Next]_vars => [Announced]_vars
  <2> SUFFICES ASSUME IInv, [Next]_vars, ~Damaged(log),
                      NEW p \in Partitions, device'[p] # device[p]
               PROVE  \E l \in Unfinished(log) : Concerns(l, p) /\ l.bak \in Backups
    BY DEF Announced
  <2>1. Active /\ ~cur.dry /\ cur.part = p
    BY StepTouches
  <2>2. cur \in IntentLine /\ cur.bak \in Backups /\ log # <<>> /\ log[Len(log)] = cur
    BY <2>1 DEF IInv, CurOK
  <2>3. log \in Seq(Line)
    BY DEF IInv, TypeOK
  <2>4. Len(log) \in DOMAIN log /\ \A j \in DOMAIN log : ~(j > Len(log))
    BY <2>2, <2>3
  <2>5. IsIntent(cur)
    BY <2>2 DEF IntentLine, IsIntent
  <2>6. cur \in Unfinished(log)
    BY <2>2, <2>4, <2>5 DEF Unfinished, Answers
  <2> QED
    BY <2>1, <2>2, <2>5, <2>6 DEF Concerns
<1> QED
  BY <1>1, AlwaysIInv, PTL DEF Spec, IntentBeforeBytes

(* No append, whole or torn, changes a record that reached the disk whole. *)
THEOREM EarlierRecords == Spec => EarlierRecordsSurvive
<1>1. IInv /\ [Next]_vars => [AppendOnly]_vars
  <2> SUFFICES ASSUME IInv, [Next]_vars PROVE AppendOnly
    OBVIOUS
  <2>1. log \in Seq(Line)
    BY DEF IInv, TypeOK
  <2> QED
    BY <2>1, StepAppends, AppendedFacts DEF OneAppend, AppendOnly
<1> QED
  BY <1>1, AlwaysIInv, PTL DEF Spec, EarlierRecordsSurvive

(* No partition changes in a dry run or without a token, and none of the   *)
(* CATASTROPHIC tier without an expert one.                                *)
THEOREM Authority == Spec => BytesNeedAuthority
<1>1. IInv /\ [Next]_vars => [Authorised]_vars
  <2> SUFFICES ASSUME IInv, [Next]_vars,
                      NEW p \in Partitions, device'[p] # device[p]
               PROVE  /\ ~dry
                      /\ token # NoToken
                      /\ Classify(p, Overrides) = CATASTROPHIC => token.expert
    BY DEF Authorised
  <2>1. Active /\ ~dry /\ cur.part = p
    BY StepTouches
  <2>2. token \in Token /\ (Classify(cur.part, Overrides) = CATASTROPHIC => token.expert)
    BY <2>1 DEF IInv, CurOK
  <2> QED
    BY <2>1, <2>2, TokenAssumption
<1> QED
  BY <1>1, AlwaysIInv, PTL DEF Spec, BytesNeedAuthority

-----------------------------------------------------------------------------
(* The write-ahead promise, kept as long as no append is cut short.        *)

(* No append was cut short so far. *)
WholeLog == ~Damaged(log) /\ ~Unterminated(log)

(* LatestFor, AnswersTo, Mark and Aims, of any journal. *)
LatestIn(L, p, i) ==
  /\ i \in DOMAIN L
  /\ Concerns(L[i], p)
  /\ \A k \in DOMAIN L : Concerns(L[k], p) => k <= i

AnswersIn(L, i) == {L[j].state : j \in {k \in DOMAIN L : Answers(L, k, i)}}

MarkIn(L, p) ==
  IF \E i \in DOMAIN L : LatestIn(L, p, i) /\ AnswersIn(L, i) = {} THEN "open"
  ELSE IF \E i \in DOMAIN L : LatestIn(L, p, i) /\ "failed" \in AnswersIn(L, i)
       THEN "suspect"
  ELSE "settled"

AimsIn(L, p) ==
  Image \cap UNION {{L[i].src, L[i].bak} : i \in
           {k \in DOMAIN L : LatestIn(L, p, k) /\ L[k].op # "erase"}}

LEMMA AppendShape ==
  ASSUME NEW L \in Seq(Line), NEW e \in Line
  PROVE  /\ Len(L) \in Nat /\ DOMAIN L = 1 .. Len(L)
         /\ Append(L, e) \in Seq(Line)
         /\ DOMAIN Append(L, e) = 1 .. Len(L) + 1
         /\ \A k \in 1 .. Len(L) : Append(L, e)[k] = L[k]
         /\ Append(L, e)[Len(L) + 1] = e
  OBVIOUS

(* A whole line is appended as it is. *)
LEMMA WholeAppend ==
  ASSUME log \in Seq(Line), WholeLog, NEW e \in Line, e.ended, e.state # "illegible",
         log' = AppendLine(log, e)
  PROVE  log' = Append(log, e) /\ WholeLog'
<1>1. log' = Append(log, e)
  BY DEF WholeLog, AppendLine
<1>2. PICK n \in Nat : n = Len(log)
  OBVIOUS
<1>3. /\ log' \in Seq(Line) /\ DOMAIN log = 1 .. n /\ DOMAIN log' = 1 .. n + 1
      /\ \A k \in 1 .. n : log'[k] = log[k]
      /\ log'[n + 1] = e
  BY <1>1, <1>2, AppendShape
<1>4. Len(log') = n + 1
  BY <1>1, <1>2
<1>5. ~Damaged(log')
  BY <1>3 DEF WholeLog, Damaged
<1>6. ~Unterminated(log')
  BY <1>3, <1>4 DEF Unterminated
<1> QED  BY <1>1, <1>5, <1>6 DEF WholeLog

(* An intent on p becomes the latest for p, with no answer yet. *)
LEMMA LatestAfter ==
  ASSUME NEW L \in Seq(Line), NEW e \in Line, NEW p
  PROVE  /\ Concerns(e, p) => \A i : LatestIn(Append(L, e), p, i) <=> i = Len(L) + 1
         /\ ~Concerns(e, p) => \A i : LatestIn(Append(L, e), p, i) <=> LatestIn(L, p, i)
<1> DEFINE M == Append(L, e)
           n == Len(L)
<1>1. /\ n \in Nat /\ DOMAIN L = 1 .. n /\ DOMAIN M = 1 .. n + 1
      /\ \A k \in 1 .. n : M[k] = L[k]
      /\ M[n + 1] = e
  BY AppendShape
<1> HIDE DEF M, n
<1>2. ASSUME Concerns(e, p), NEW i PROVE LatestIn(M, p, i) <=> i = n + 1
  BY <1>1, <1>2 DEF LatestIn
<1>3. ASSUME ~Concerns(e, p), NEW i PROVE LatestIn(M, p, i) <=> LatestIn(L, p, i)
  BY <1>1, <1>3 DEF LatestIn
<1> QED  BY <1>2, <1>3 DEF M, n

LEMMA AnswersAfter ==
  ASSUME NEW L \in Seq(Line), NEW e \in Line
  PROVE  /\ \A i \in DOMAIN L :
              AnswersIn(Append(L, e), i) =
                AnswersIn(L, i) \cup (IF e.id = L[i].id THEN {e.state} ELSE {})
         /\ AnswersIn(Append(L, e), Len(L) + 1) = {}
         /\ L # <<>> => AnswersIn(L, Len(L)) = {}
<1> DEFINE M == Append(L, e)
           n == Len(L)
<1>1. /\ n \in Nat /\ DOMAIN L = 1 .. n /\ DOMAIN M = 1 .. n + 1
      /\ \A k \in 1 .. n : M[k] = L[k]
      /\ M[n + 1] = e
  BY AppendShape
<1> HIDE DEF M, n
<1>2. ASSUME NEW i \in 1 .. n, e.id = L[i].id
      PROVE  AnswersIn(M, i) = AnswersIn(L, i) \cup {e.state}
  <2>1. {k \in DOMAIN M : Answers(M, k, i)} = {k \in DOMAIN L : Answers(L, k, i)} \cup {n + 1}
    BY <1>1, <1>2 DEF Answers
  <2>2. \A k \in {j \in DOMAIN L : Answers(L, j, i)} : M[k] = L[k]
    BY <1>1
  <2> QED  BY <1>1, <2>1, <2>2 DEF AnswersIn
<1>3. ASSUME NEW i \in 1 .. n, e.id # L[i].id
      PROVE  AnswersIn(M, i) = AnswersIn(L, i)
  <2>1. {k \in DOMAIN M : Answers(M, k, i)} = {k \in DOMAIN L : Answers(L, k, i)}
    BY <1>1, <1>3 DEF Answers
  <2>2. \A k \in {j \in DOMAIN L : Answers(L, j, i)} : M[k] = L[k]
    BY <1>1
  <2> QED  BY <2>1, <2>2 DEF AnswersIn
<1>4. AnswersIn(M, n + 1) = {} /\ AnswersIn(L, n) = {}
  BY <1>1 DEF AnswersIn, Answers
<1> QED  BY <1>1, <1>2, <1>3, <1>4 DEF M, n

(* The mark and the aims of p, once its latest intent is known. *)
LEMMA MarkOfLatest ==
  ASSUME NEW L \in Seq(Line), NEW p, NEW i, LatestIn(L, p, i)
  PROVE  /\ MarkIn(L, p) = IF AnswersIn(L, i) = {} THEN "open"
                           ELSE IF "failed" \in AnswersIn(L, i) THEN "suspect"
                           ELSE "settled"
         /\ AimsIn(L, p) = IF L[i].op = "erase" THEN {}
                           ELSE Image \cap {L[i].src, L[i].bak}
<1>1. i \in DOMAIN L /\ \A k : LatestIn(L, p, k) => k = i
  <2>1. DOMAIN L = 1 .. Len(L) /\ Len(L) \in Nat
    OBVIOUS
  <2> QED  BY <2>1 DEF LatestIn
<1>2. {k \in DOMAIN L : LatestIn(L, p, k) /\ L[k].op # "erase"} =
        IF L[i].op = "erase" THEN {} ELSE {i}
  BY <1>1
<1> QED  BY <1>1, <1>2 DEF MarkIn, AimsIn

(* A line that neither concerns p nor answers its latest intent leaves p   *)
(* as it was.                                                              *)
LEMMA OthersKeepMark ==
  ASSUME NEW L \in Seq(Line), NEW e \in Line, NEW p, ~Concerns(e, p),
         \A i : LatestIn(L, p, i) => L[i].id # e.id
  PROVE  MarkIn(Append(L, e), p) = MarkIn(L, p) /\ AimsIn(Append(L, e), p) = AimsIn(L, p)
<1>1. PICK M \in Seq(Line) : M = Append(L, e)
  BY AppendShape
<1>2. DOMAIN L \subseteq DOMAIN M /\ \A k \in DOMAIN L : M[k] = L[k]
  BY <1>1, AppendShape
<1>3. ASSUME NEW i PROVE LatestIn(M, p, i) <=> LatestIn(L, p, i)
  BY <1>1, LatestAfter
<1>4. ASSUME NEW i, LatestIn(L, p, i) PROVE AnswersIn(M, i) = AnswersIn(L, i)
  <2>1. i \in DOMAIN L /\ e.id # L[i].id
    BY <1>4 DEF LatestIn
  <2>2. AnswersIn(Append(L, e), i) =
          AnswersIn(L, i) \cup (IF e.id = L[i].id THEN {e.state} ELSE {})
    BY <2>1, AnswersAfter
  <2> QED  BY <1>1, <2>1, <2>2
<1>5. ASSUME NEW i, LatestIn(L, p, i)
      PROVE  MarkIn(M, p) = MarkIn(L, p) /\ AimsIn(M, p) = AimsIn(L, p)
  <2>1. LatestIn(M, p, i) /\ AnswersIn(M, i) = AnswersIn(L, i) /\ M[i] = L[i]
    BY <1>2, <1>3, <1>4, <1>5 DEF LatestIn
  <2>2. /\ MarkIn(L, p) = IF AnswersIn(L, i) = {} THEN "open"
                           ELSE IF "failed" \in AnswersIn(L, i) THEN "suspect"
                           ELSE "settled"
        /\ AimsIn(L, p) = IF L[i].op = "erase" THEN {}
                          ELSE Image \cap {L[i].src, L[i].bak}
    BY <1>5, MarkOfLatest
  <2>3. /\ MarkIn(M, p) = IF AnswersIn(M, i) = {} THEN "open"
                           ELSE IF "failed" \in AnswersIn(M, i) THEN "suspect"
                           ELSE "settled"
        /\ AimsIn(M, p) = IF M[i].op = "erase" THEN {}
                          ELSE Image \cap {M[i].src, M[i].bak}
    BY <2>1, MarkOfLatest
  <2> QED  BY <2>1, <2>2, <2>3
<1>6. CASE ~\E i : LatestIn(L, p, i)
  <2>1. ~\E i : LatestIn(M, p, i)
    BY <1>3, <1>6
  <2>2. MarkIn(M, p) = "settled" /\ MarkIn(L, p) = "settled"
    BY <1>6, <2>1 DEF MarkIn
  <2>3. AimsIn(M, p) = {} /\ AimsIn(L, p) = {}
    BY <1>6, <2>1 DEF AimsIn
  <2> QED  BY <1>1, <2>2, <2>3
<1> QED  BY <1>1, <1>5, <1>6

LEMMA OneTouch ==
  ASSUME device \in [Partitions -> Contents], NEW p \in Partitions, OnlyTouches(p, Contents)
  PROVE  device'[p] \in Contents /\ device' = [device EXCEPT ![p] = device'[p]]
  BY DEF OnlyTouches

(* The partition of an operation whose intent is the last line is open. *)
LEMMA OpenWhileUnderway ==
  ASSUME NEW L \in Seq(Line), NEW e, L # <<>>, L[Len(L)] = e, IsIntent(e), ~e.dry
  PROVE  MarkIn(L, e.part) = "open"
<1>1. Len(L) \in DOMAIN L /\ \A k \in DOMAIN L : k <= Len(L)
  OBVIOUS
<1>2. LatestIn(L, e.part, Len(L))
  BY <1>1 DEF LatestIn, Concerns
<1>3. AnswersIn(L, Len(L)) = {}
  BY <1>1 DEF AnswersIn, Answers
<1> QED  BY <1>2, <1>3, MarkOfLatest

(* Its outcome marks it, and leaves what it aimed at. *)
LEMMA OutcomeMarks ==
  ASSUME NEW L \in Seq(Line), NEW e, L # <<>>, L[Len(L)] = e, IsIntent(e), ~e.dry,
         NEW o \in Line, o.id = e.id, \A p : ~Concerns(o, p)
  PROVE  /\ MarkIn(Append(L, o), e.part) = IF o.state = "failed" THEN "suspect"
                                           ELSE "settled"
         /\ AimsIn(Append(L, o), e.part) = AimsIn(L, e.part)
         /\ AimsIn(L, e.part) = IF e.op = "erase" THEN {} ELSE Image \cap {e.src, e.bak}
<1>1. PICK n \in Nat : n = Len(L)
  OBVIOUS
<1>2. PICK M \in Seq(Line) : M = Append(L, o)
  BY AppendShape
<1>3. n \in DOMAIN L /\ L[n] = e /\ M[n] = e /\ \A k \in DOMAIN L : k <= n
  BY <1>1, <1>2, AppendShape
<1>4. LatestIn(L, e.part, n)
  BY <1>3 DEF LatestIn, Concerns
<1>5. LatestIn(M, e.part, n)
  BY <1>2, <1>4, LatestAfter
<1>6. AnswersIn(M, n) = {o.state}
  BY <1>1, <1>2, <1>3, AnswersAfter
<1>7. /\ MarkIn(M, e.part) = IF AnswersIn(M, n) = {} THEN "open"
                             ELSE IF "failed" \in AnswersIn(M, n) THEN "suspect"
                             ELSE "settled"
      /\ AimsIn(M, e.part) = IF M[n].op = "erase" THEN {}
                             ELSE Image \cap {M[n].src, M[n].bak}
  BY <1>5, MarkOfLatest
<1>8. AimsIn(L, e.part) = IF L[n].op = "erase" THEN {}
                          ELSE Image \cap {L[n].src, L[n].bak}
  BY <1>4, MarkOfLatest
<1> QED  BY <1>2, <1>3, <1>6, <1>7, <1>8

LEMMA MarkIsIn ==
  /\ \A p : Mark(p) = MarkIn(log, p) /\ Aims(p) = AimsIn(log, p)
  /\ \A p : Mark(p)' = MarkIn(log', p) /\ Aims(p)' = AimsIn(log', p)
  BY DEF Mark, MarkIn, Aims, AimsIn, LatestFor, LatestIn, AnswersTo, AnswersIn

(* A step that changes neither the device nor what the journal says of any *)
(* partition is no step of the promise.                                    *)
LEMMA PromiseStutters ==
  ASSUME UNCHANGED device,
         \A p \in Partitions : /\ MarkIn(log', p) = MarkIn(log, p)
                               /\ AimsIn(log', p) = AimsIn(log, p)
  PROVE  [Promise!Next]_Promise!vars
<1>1. /\ [p \in Partitions |-> Mark(p)]' = [p \in Partitions |-> Mark(p)]
      /\ [p \in Partitions |-> Aims(p)]' = [p \in Partitions |-> Aims(p)]
  BY MarkIsIn
<1> QED  BY <1>1 DEF Promise!vars

(* An intent reaches the disk: its partition is open, unless in a dry run. *)
LEMMA IntentOpens ==
  ASSUME TypeOK, LogOK, WholeLog, NEW e \in IntentLine, e.ended, e.id = ids + 1,
         log' = AppendLine(log, e), UNCHANGED device
  PROVE  WholeLog' /\ [Promise!Next]_Promise!vars
<1>1. /\ e \in Line /\ IsIntent(e) /\ e.state # "illegible" /\ e.part \in Partitions
      /\ log \in Seq(Line) /\ ids \in Nat
  BY DEF TypeOK, Line, IntentLine, IsIntent
<1>2. log' = Append(log, e) /\ WholeLog'
  BY <1>1, WholeAppend
<1>3. \A i \in DOMAIN log : log[i].id # e.id
  <2>1. \A i \in DOMAIN log : log[i].id <= ids /\ log[i].id \in Nat
    BY <1>1 DEF LogOK, WholeLog, Line, IntentLine, OutcomeLine, IllegibleLine
  <2> QED  BY <1>1, <2>1
<1>4. ASSUME NEW p, ~Concerns(e, p)
      PROVE  MarkIn(log', p) = MarkIn(log, p) /\ AimsIn(log', p) = AimsIn(log, p)
  <2>1. \A i : LatestIn(log, p, i) => log[i].id # e.id
    BY <1>3 DEF LatestIn
  <2> QED  BY <1>1, <1>2, <1>4, <2>1, OthersKeepMark
<1>5. CASE e.dry
  <2>1. \A p : ~Concerns(e, p)
    BY <1>5 DEF Concerns
  <2> QED  BY <1>2, <1>4, <2>1, PromiseStutters
<1>6. CASE ~e.dry
  <2>1. Concerns(e, e.part) /\ \A q : q # e.part => ~Concerns(e, q)
    BY <1>1, <1>6 DEF Concerns
  <2>2. MarkIn(log', e.part) = "open"
    <3>1. LatestIn(log', e.part, Len(log) + 1)
      BY <1>1, <1>2, <2>1, LatestAfter
    <3>2. AnswersIn(log', Len(log) + 1) = {}
      BY <1>1, <1>2, AnswersAfter
    <3>3. log' \in Seq(Line)
      BY <1>1, <1>2, AppendShape
    <3> QED  BY <3>1, <3>2, <3>3, MarkOfLatest
  <2> DEFINE M == [p \in Partitions |-> Mark(p)]
             A == [p \in Partitions |-> Aims(p)]
  <2>3. M' = [M EXCEPT ![e.part] = "open"]
    BY <1>1, <1>4, <2>1, <2>2, MarkIsIn
  <2>4. A' \in [Partitions -> SUBSET Image]
    <3>1. \A p \in Partitions : AimsIn(log', p) \in SUBSET Image
      BY DEF AimsIn
    <3> QED  BY <3>1, MarkIsIn
  <2>5. \A q \in Partitions \ {e.part} : A'[q] = A[q]
    BY <1>4, <2>1, MarkIsIn
  <2>6. Promise!Open(e.part)
    BY <2>3, <2>4, <2>5 DEF Promise!Open, Promise!Image, Image
  <2> QED  BY <1>1, <1>2, <2>6 DEF Promise!Next
<1> QED  BY <1>5, <1>6

(* Bytes move under an intent on disk: its partition was open. *)
LEMMA MovesChange ==
  ASSUME TypeOK, WholeLog, Moves
  PROVE  WholeLog' /\ [Promise!Next]_Promise!vars
<1>1. log' = log /\ log \in Seq(Line) /\ device \in [Partitions -> Contents]
  BY DEF TypeOK, Moves
<1>2. WholeLog'
  BY <1>1 DEF WholeLog, Damaged, Unterminated
<1>3. /\ cur \in IntentLine /\ cur.part \in Partitions /\ IsIntent(cur)
      /\ log # <<>> /\ log[Len(log)] = cur
  BY DEF Moves, Underway, WholeLog, IntentLine, IsIntent
<1>4. CASE cur.dry
  <2>1. UNCHANGED device
    BY <1>1, <1>3, <1>4 DEF Moves, OnlyTouches
  <2> QED  BY <1>1, <1>2, <2>1, PromiseStutters
<1>5. CASE ~cur.dry
  <2>1. MarkIn(log, cur.part) = "open"
    BY <1>1, <1>3, <1>5, OpenWhileUnderway
  <2>2. /\ device'[cur.part] \in Contents
        /\ device' = [device EXCEPT ![cur.part] = device'[cur.part]]
    BY <1>1, <1>3, OneTouch DEF Moves
  <2>3. /\ [p \in Partitions |-> Mark(p)]' = [p \in Partitions |-> Mark(p)]
        /\ [p \in Partitions |-> Aims(p)]' = [p \in Partitions |-> Aims(p)]
    BY <1>1, MarkIsIn
  <2>4. Promise!Change(cur.part)
    BY <1>3, <2>1, <2>2, <2>3, MarkIsIn DEF Promise!Change, Promise!Contents, Contents
  <2> QED  BY <1>2, <1>3, <2>4 DEF Promise!Next
<1> QED  BY <1>4, <1>5

(* The outcome of the operation under way reaches the disk: its partition  *)
(* was open, and is settled, or suspect if the operation failed.           *)
LEMMA OutcomeSettles ==
  ASSUME TypeOK, LogOK, WholeLog, NEW st \in Outcomes, Closes(st),
         log' = AppendLine(log, Outcome(cur.id, st))
  PROVE  WholeLog' /\ [Promise!Next]_Promise!vars
<1> DEFINE o == Outcome(cur.id, st)
<1>1. log \in Seq(Line) /\ device \in [Partitions -> Contents]
  BY DEF TypeOK
<1>2. /\ cur \in IntentLine /\ cur.part \in Partitions /\ IsIntent(cur)
      /\ cur.src \in Image /\ cur.id \in Nat /\ cur.state = "intent"
      /\ log # <<>> /\ log[Len(log)] = cur
  BY DEF Closes, Underway, WholeLog, IntentLine, IsIntent
<1>3. /\ o \in Line /\ o.id = cur.id /\ o.state = st /\ o.ended
      /\ o.state # "illegible" /\ ~IsIntent(o)
  BY <1>2, OutcomeIsLine DEF Outcomes, Outcome, IsIntent
<1>4. log' = AppendLine(log, o)
  OBVIOUS
<1> HIDE DEF o
<1>5. log' = Append(log, o) /\ WholeLog'
  BY <1>1, <1>3, <1>4, WholeAppend
<1>6. \A p : ~Concerns(o, p)
  BY <1>3 DEF Concerns
<1>7. ASSUME NEW p, ~Concerns(cur, p)
      PROVE  MarkIn(log', p) = MarkIn(log, p) /\ AimsIn(log', p) = AimsIn(log, p)
  <2>1. ASSUME NEW i, LatestIn(log, p, i) PROVE log[i].id # o.id
    <3>1. i \in 1 .. Len(log) /\ Concerns(log[i], p) /\ i # Len(log) /\ Len(log) \in DOMAIN log
      BY <1>1, <1>2, <1>7, <2>1 DEF LatestIn
    <3>2. log[i].id < cur.id
      BY <1>1, <1>2, <3>1 DEF LogOK, WholeLog, Concerns
    <3>3. log[i].id \in Nat
      BY <1>1, <3>1 DEF Line, IntentLine, OutcomeLine, IllegibleLine
    <3> QED  BY <1>2, <1>3, <3>2, <3>3
  <2> QED  BY <1>1, <1>3, <1>5, <1>6, <2>1, OthersKeepMark
<1>8. CASE cur.dry
  <2>1. UNCHANGED device
    BY <1>1, <1>2, <1>8 DEF Closes, OnlyTouches
  <2>2. \A p : ~Concerns(cur, p)
    BY <1>8 DEF Concerns
  <2> QED  BY <1>5, <1>7, <2>1, <2>2, PromiseStutters
<1>9. CASE ~cur.dry
  <2> DEFINE M == [p \in Partitions |-> Mark(p)]
             A == [p \in Partitions |-> Aims(p)]
  <2>1. Concerns(cur, cur.part) /\ \A q : q # cur.part => ~Concerns(cur, q)
    BY <1>2, <1>9 DEF Concerns
  <2>2. /\ device'[cur.part] \in Contents
        /\ device' = [device EXCEPT ![cur.part] = device'[cur.part]]
    BY <1>1, <1>2, OneTouch DEF Closes
  <2>3. MarkIn(log, cur.part) = "open"
    BY <1>1, <1>2, <1>9, OpenWhileUnderway
  <2>4. /\ MarkIn(log', cur.part) = IF st = "failed" THEN "suspect" ELSE "settled"
        /\ AimsIn(log', cur.part) = AimsIn(log, cur.part)
        /\ AimsIn(log, cur.part) =
             IF cur.op = "erase" THEN {} ELSE Image \cap {cur.src, cur.bak}
    <3>1. /\ MarkIn(Append(log, o), cur.part) = IF o.state = "failed" THEN "suspect"
                                                ELSE "settled"
          /\ AimsIn(Append(log, o), cur.part) = AimsIn(log, cur.part)
          /\ AimsIn(log, cur.part) =
               IF cur.op = "erase" THEN {} ELSE Image \cap {cur.src, cur.bak}
      BY <1>1, <1>2, <1>3, <1>6, <1>9, OutcomeMarks
    <3> QED  BY <1>3, <1>5, <3>1
  <2>5. M' = [M EXCEPT ![cur.part] = IF st = "failed" THEN "suspect" ELSE "settled"]
    BY <1>2, <1>7, <2>1, <2>4, MarkIsIn
  <2>6. A' = A
    BY <1>7, <2>1, <2>4, MarkIsIn
  <2>7. M[cur.part] = "open" /\ A[cur.part] = AimsIn(log, cur.part)
    BY <1>2, <2>3, MarkIsIn
  <2>8. CASE st = "failed"
    <3>1. Promise!Suspect(cur.part)
      BY <2>2, <2>5, <2>6, <2>7, <2>8 DEF Promise!Suspect, Promise!Contents, Contents
    <3> QED  BY <1>2, <1>5, <3>1 DEF Promise!Next
  <2>9. CASE st # "failed"
    <3>1. AimsIn(log, cur.part) # {} =>
            \E img \in AimsIn(log, cur.part) : Carries(device'[cur.part], img)
      <4>1. CASE cur.op # "erase" /\ st = "done"
        BY <1>2, <1>9, <2>4, <4>1 DEF Closes
      <4>2. CASE cur.op # "erase" /\ st = "rolled_back"
        BY <2>4, <4>2 DEF Closes
      <4> QED  BY <2>4, <2>9, <4>1, <4>2 DEF Outcomes
    <3>2. Promise!Settle(cur.part)
      BY <2>2, <2>5, <2>6, <2>7, <2>9, <3>1
         DEF Promise!Settle, Promise!Contents, Contents, Promise!Carries, Carries,
             Promise!Overlay, Overlay
    <3> QED  BY <1>2, <1>5, <3>2 DEF Promise!Next
  <2> QED  BY <2>8, <2>9
<1> QED  BY <1>8, <1>9

LEMMA StepKeepsPromise ==
  ASSUME ~CanTear, IInv, WholeLog, [Next]_vars
  PROVE  WholeLog' /\ [Promise!Next]_Promise!vars
<1>1. TypeOK /\ LogOK
  BY DEF IInv
<1>2. CASE Request
  <2>1. PICK op \in Ops, p \in Partitions, src \in Image, bak \in Image :
          Begin(op, p, src, bak)
    BY <1>2, RequestFacts
  <2> DEFINE e == Intent(op, p, src, bak)
  <2>2. e \in IntentLine /\ e.id = ids + 1 /\ UNCHANGED device
    BY <1>1, <2>1, BeginFacts
  <2>3. e.ended /\ log' = AppendLine(log, e)
    BY <2>1 DEF Begin, Record, Intent
  <2> HIDE DEF e
  <2> QED  BY <1>1, <2>2, <2>3, IntentOpens
<1>3. CASE Progress
  <2>1. ASSUME NEW st \in Outcomes, Closes(st)
        PROVE  log' = AppendLine(log, Outcome(cur.id, st))
    BY <2>1 DEF Closes, Finish, Record
  <2> QED  BY <1>1, <1>3, <2>1, ProgressCases, OutcomeSettles, MovesChange
<1>4. CASE Die /\ stage # "idle"
  BY <1>1, <1>4, DieMoves, MovesChange
<1>5. CASE UNCHANGED <<device, log>>
  <2>1. WholeLog'
    BY <1>5 DEF WholeLog, Damaged, Unterminated
  <2> QED  BY <1>5, <2>1, PromiseStutters
<1>6. \/ Request \/ Progress
      \/ Die /\ stage # "idle"
      \/ UNCHANGED <<device, log>>
  BY DEF Next, Surroundings, Start, GrantToken, GrantRescueToken, TokenExpires, Die, vars
<1> QED  BY <1>2, <1>3, <1>4, <1>5, <1>6

LEMMA InitKeepsPromise == Init => WholeLog /\ Promise!Init
<1> SUFFICES ASSUME Init PROVE WholeLog /\ Promise!Init
  OBVIOUS
<1>1. device = Factory /\ log = <<>>
  BY DEF Init
<1>2. WholeLog
  BY <1>1 DEF WholeLog, Damaged, Unterminated
<1>3. \A p : MarkIn(log, p) = "settled" /\ AimsIn(log, p) = {}
  BY <1>1 DEF MarkIn, AimsIn, LatestIn
<1>4. /\ [p \in Partitions |-> Mark(p)] = [p \in Partitions |-> "settled"]
      /\ [p \in Partitions |-> Aims(p)] = [p \in Partitions |-> {}]
  BY <1>3, MarkIsIn
<1> QED  BY <1>1, <1>2, <1>4 DEF Promise!Init

(* The session implements the write-ahead promise, whatever it is asked to *)
(* write and wherever its process dies, as long as no append is cut short: *)
(* a partition changes only while an operation on it is open, and is       *)
(* settled only when it carries an image that operation named.             *)
THEOREM SessionKeepsThePromise == ASSUME ~CanTear PROVE Spec => ImplementsPromise
<1>1. Init => WholeLog /\ Promise!Init
  BY InitKeepsPromise
<1>2. IInv /\ WholeLog /\ [Next]_vars => WholeLog' /\ [Promise!Next]_Promise!vars
  BY StepKeepsPromise
<1> QED  BY <1>1, <1>2, AlwaysIInv, PTL DEF Spec, ImplementsPromise, Promise!Spec
=============================================================================
