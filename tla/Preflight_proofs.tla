-------------------------- MODULE Preflight_proofs --------------------------
(***************************************************************************)
(* Preflight and the writes it authorises, for every device, every set of  *)
(* images, and any number of processes that share the device and the       *)
(* journal.                                                                *)
(***************************************************************************)
EXTENDS PreflightProps, DeviceSession_proofs

(* The intent of the operation under way is the only open one. *)
NoOtherOpen == Damaged(log) \/ Unfinished(log) \subseteq {cur}

NoneOpen == Damaged(log) \/ IsClean(log)

(* Outside the writes of a token the session is idle; while the round trip *)
(* is under way, it is the operation the journal ends with.                *)
ChecksOK ==
  /\ check = "off" => stage \in {"down", "idle"}
  /\ check \notin {"off", "passed", "rescue"} => stage = "idle"
  /\ check \in {"passed", "rescue"} => stage # "down" /\ token \in Token
  /\ check \notin {"passed", "rescue"} => token = NoToken
  /\ check \in {"read", "begun", "written", "proven"} => original \in Image
  /\ check \in {"begun", "written"} =>
       /\ Underway /\ cur.op = "preflight_write_roundtrip"
       /\ cur.part = Roundtrip /\ cur.src = original /\ cur.dry = dry
  /\ check = "written" => ~dry

ProvenOK == check \in {"proven", "passed"} => Damaged(log) \/ RoundTrips("done") # {}

(* What journal_clean found still holds, but for the operation under way.  *)
CleanOK ==
  /\ check \in {"read", "proven"} /\ ~bad => NoneOpen
  /\ check \in {"begun", "written"} /\ ~bad => NoOtherOpen
  /\ check = "passed" /\ stage = "idle" => NoneOpen
  /\ check = "passed" /\ Active => NoOtherOpen

PInv == PTypeOK /\ IInv /\ ChecksOK /\ ProvenOK /\ CleanOK

-----------------------------------------------------------------------------
(* What a line more makes of the open intents and of the round trips.      *)

LEMMA OpenAfterIntent ==
  ASSUME NEW L \in Seq(Line), NEW e \in Line
  PROVE  Unfinished(Append(L, e)) \subseteq Unfinished(L) \cup {e}
<1> DEFINE M == Append(L, e)
<1>1. /\ DOMAIN L = 1 .. Len(L) /\ DOMAIN M = 1 .. Len(L) + 1 /\ Len(L) \in Nat
      /\ \A k \in 1 .. Len(L) : M[k] = L[k]
      /\ M[Len(L) + 1] = e
  OBVIOUS
<1> HIDE DEF M
<1>2. ASSUME NEW k \in DOMAIN M, IsIntent(M[k]), ~\E j \in DOMAIN M : Answers(M, j, k)
      PROVE  M[k] \in Unfinished(L) \cup {e}
  <2>1. CASE k = Len(L) + 1
    BY <1>1, <2>1
  <2>2. CASE k \in 1 .. Len(L)
    <3>1. ~\E j \in DOMAIN L : Answers(L, j, k)
      BY <1>1, <1>2, <2>2 DEF Answers
    <3> QED  BY <1>1, <1>2, <2>2, <3>1 DEF Unfinished
  <2> QED  BY <1>1, <2>1, <2>2
<1>3. Unfinished(M) \subseteq Unfinished(L) \cup {e}
  BY <1>2 DEF Unfinished
<1> QED  BY <1>3 DEF M

(* The outcome of the last operation closes it. *)
LEMMA OpenAfterOutcome ==
  ASSUME NEW L \in Seq(Line), L # <<>>, NEW o \in Line, ~IsIntent(o),
         o.id = L[Len(L)].id, Unfinished(L) \subseteq {L[Len(L)]}
  PROVE  IsClean(Append(L, o))
<1> DEFINE M == Append(L, o)
           n == Len(L)
<1>1. /\ DOMAIN L = 1 .. n /\ DOMAIN M = 1 .. n + 1 /\ n \in Nat
      /\ \A k \in 1 .. n : M[k] = L[k]
      /\ M[n + 1] = o
  OBVIOUS
<1> HIDE DEF M, n
<1>2. ASSUME NEW k \in DOMAIN M, IsIntent(M[k]), ~\E j \in DOMAIN M : Answers(M, j, k)
      PROVE  FALSE
  <2>1. k \in 1 .. n
    BY <1>1, <1>2
  <2>2. ~\E j \in DOMAIN L : Answers(L, j, k)
    BY <1>1, <1>2, <2>1 DEF Answers
  <2>3. L[k] \in Unfinished(L)
    BY <1>1, <1>2, <2>1, <2>2 DEF Unfinished
  <2>4. L[k].id = o.id
    BY <2>3
  <2>5. n + 1 \in DOMAIN M /\ Answers(M, n + 1, k)
    BY <1>1, <2>1, <2>4 DEF Answers
  <2> QED  BY <1>2, <2>5
<1>3. Unfinished(M) = {}
  BY <1>2 DEF Unfinished
<1> QED  BY <1>3 DEF IsClean, M

LEMMA RoundTripsStay ==
  ASSUME log \in Seq(Line), NEW outcome, log' = log \/ \E l : log' = Append(log, l)
  PROVE  RoundTrips(outcome) \subseteq RoundTrips(outcome)'
<1>1. /\ DOMAIN log \subseteq DOMAIN log'
      /\ \A k \in DOMAIN log : log'[k] = log[k]
  OBVIOUS
<1>2. \A i, j \in DOMAIN log : Answers(log, j, i) => Answers(log', j, i)
  BY <1>1 DEF Answers
<1>3. ASSUME NEW i \in RoundTrips(outcome) PROVE i \in RoundTrips(outcome)'
  <2>1. /\ i \in DOMAIN log /\ IsIntent(log[i]) /\ log[i].op = "preflight_write_roundtrip"
        /\ ~log[i].dry /\ outcome \in AnswersTo(i)
    BY <1>3 DEF RoundTrips
  <2>2. PICK k \in DOMAIN log : Answers(log, k, i) /\ log[k].state = outcome
    BY <2>1 DEF AnswersTo
  <2>3. k \in DOMAIN log' /\ Answers(log', k, i) /\ log'[k].state = outcome
    BY <1>1, <1>2, <2>1, <2>2
  <2>4. outcome \in AnswersTo(i)'
    BY <2>3 DEF AnswersTo
  <2> QED  BY <1>1, <2>1, <2>4 DEF RoundTrips
<1> QED  BY <1>3

(* The same, of the journal after any step of the session. *)
LEMMA ProvenStays ==
  ASSUME IInv, OneAppend, Damaged(log) \/ RoundTrips("done") # {}
  PROVE  Damaged(log') \/ RoundTrips("done")' # {}
<1> SUFFICES ASSUME ~Damaged(log') PROVE RoundTrips("done")' # {}
  OBVIOUS
<1>1. log \in Seq(Line)
  BY DEF IInv, TypeOK
<1>2. ~Damaged(log) /\ (log' = log \/ \E l : log' = Append(log, l))
  BY <1>1, AppendedFacts DEF OneAppend
<1> QED  BY <1>1, <1>2, RoundTripsStay

-----------------------------------------------------------------------------
(* Steps of preflight, and what they keep of the session. *)

(* The process died, or was never there: nothing is known. *)
LEMMA DownHolds ==
  ASSUME IInv', NoChecks, stage' = "down", token' = NoToken
  PROVE  PInv'
<1>1. PTypeOK'
  BY DEF IInv, PTypeOK, NoChecks, Checks
<1>2. ChecksOK' /\ ProvenOK' /\ CleanOK'
  BY DEF NoChecks, ChecksOK, ProvenOK, CleanOK
<1> QED  BY <1>1, <1>2 DEF PInv

LEMMA FinishSplit ==
  ASSUME NEW st, Finish(st)
  PROVE  \/ /\ log' = AppendLine(log, Outcome(cur.id, st))
            /\ stage' = "idle" /\ cur' = NoEntry /\ token' = token
         \/ Dead
BY DEF Finish, Record

(* The session invariant where neither device nor journal changes. *)
LEMMA StillHolds ==
  ASSUME IInv, stage = "idle", UNCHANGED <<device, log, ids, stage, cur, dry>>,
         token' \in Token \cup {NoToken}
  PROVE  IInv'
<1>1. TypeOK' /\ CurOK'
  BY DEF IInv, TypeOK, CurOK, Active
<1> QED  BY <1>1, OutsideHolds

(* ChecksRefuse, ChecksPass, SkipWrite, Verdict, ConfirmUnlock and Rescue  *)
(* touch neither device nor journal.                                       *)
LEMMA ReadingHolds ==
  ASSUME PInv,
         ChecksRefuse \/ ChecksPass \/ SkipWrite \/ Verdict \/ ConfirmUnlock \/ Rescue
  PROVE  PInv'
<1>1. /\ IInv /\ check \in Checks /\ bad \in BOOLEAN /\ backed \in BOOLEAN
      /\ original \in Image \cup {NoImage}
      /\ device[Roundtrip] \in Contents
  BY RoundtripAssumption DEF PInv, PTypeOK, TypeOK
<1>2. UNCHANGED <<device, log, ids, stage, cur, dry>>
  BY DEF ChecksRefuse, ChecksPass, SkipWrite, Verdict, ConfirmUnlock, Rescue,
         GrantRescueToken, vars
<1>3. stage = "idle"
  BY DEF PInv, ChecksOK, ChecksRefuse, ChecksPass, SkipWrite, Verdict, ConfirmUnlock, Rescue,
         GrantRescueToken
<1>4. /\ NoneOpen' <=> NoneOpen
      /\ Damaged(log)' <=> Damaged(log)
      /\ RoundTrips("done")' = RoundTrips("done")
  BY <1>2 DEF NoneOpen, Damaged, RoundTrips, AnswersTo
<1>5. CASE ChecksRefuse
  <2>1. check = "off" /\ token' = token /\ check' = "refused" /\ bad' = TRUE
        /\ UNCHANGED <<original, backed>>
    BY <1>5 DEF ChecksRefuse, vars
  <2>2. token = NoToken
    BY <2>1 DEF PInv, ChecksOK
  <2>3. IInv'
    BY <1>1, <1>2, <1>3, <2>1, <2>2, StillHolds
  <2>4. PTypeOK'
    BY <1>1, <2>1, <2>3 DEF PTypeOK, IInv, Checks
  <2>5. ChecksOK' /\ ProvenOK' /\ CleanOK'
    BY <1>2, <1>3, <2>1, <2>2 DEF ChecksOK, ProvenOK, CleanOK
  <2> QED  BY <2>3, <2>4, <2>5 DEF PInv
<1>6. CASE ChecksPass
  <2>1. /\ check = "off" /\ token' = token /\ check' = "read" /\ backed' \in BOOLEAN
        /\ \E fault \in BOOLEAN : bad' = (fault \/ ~IsClean(log))
        /\ \E first, second \in ReadsOf(device[Roundtrip]) :
             SameHash(first, second) /\ original' = first
    BY <1>6 DEF ChecksPass, vars
  <2>2. token = NoToken
    BY <2>1 DEF PInv, ChecksOK
  <2>3. IInv'
    BY <1>1, <1>2, <1>3, <2>1, <2>2, StillHolds
  <2>4. original' \in Image
    BY <1>1, <2>1, BlocksAssumption DEF ReadsOf, SameHash, Contents, Image
  <2>5. bad' \in BOOLEAN /\ (~bad' => IsClean(log))
    BY <2>1
  <2>6. PTypeOK'
    BY <2>1, <2>3, <2>4, <2>5 DEF PTypeOK, IInv, Checks
  <2>7. ~bad' => NoneOpen'
    BY <1>4, <2>5 DEF NoneOpen
  <2>8. ChecksOK' /\ ProvenOK' /\ CleanOK'
    BY <1>2, <1>3, <2>1, <2>2, <2>4, <2>7 DEF ChecksOK, ProvenOK, CleanOK
  <2> QED  BY <2>3, <2>6, <2>8 DEF PInv
<1>7. CASE SkipWrite
  <2>1. check = "read" /\ token' = token /\ check' \in {"refused", "over"}
        /\ UNCHANGED <<bad, original, backed>>
    BY <1>7 DEF SkipWrite, Refusal, vars
  <2>2. token = NoToken
    BY <2>1 DEF PInv, ChecksOK
  <2>3. IInv'
    BY <1>1, <1>2, <1>3, <2>1, <2>2, StillHolds
  <2>4. PTypeOK'
    BY <1>1, <2>1, <2>3 DEF PTypeOK, IInv, Checks
  <2>5. ChecksOK' /\ ProvenOK' /\ CleanOK'
    BY <1>2, <1>3, <2>1, <2>2 DEF ChecksOK, ProvenOK, CleanOK
  <2> QED  BY <2>3, <2>4, <2>5 DEF PInv
<1>8. CASE Verdict
  <2> DEFINE ok == ~bad /\ backed
  <2>1. /\ check = "proven" /\ check' = IF ok THEN "passed" ELSE "refused"
        /\ bad' = ~ok /\ UNCHANGED <<original, backed>>
        /\ token' = IF ok THEN [proven |-> TRUE, backup |-> TRUE, ack |-> FALSE,
                                expert |-> FALSE, fresh |-> TRUE] ELSE NoToken
    BY <1>8 DEF Verdict
  <2>2. CASE ok
    <3>1. token' \in Token /\ check' = "passed" /\ bad' \in BOOLEAN
      BY <2>1, <2>2 DEF Token
    <3>2. IInv'
      BY <1>1, <1>2, <1>3, <3>1, StillHolds
    <3>3. PTypeOK'
      BY <1>1, <2>1, <3>1, <3>2 DEF PTypeOK, IInv, Checks
    <3>4. NoneOpen /\ (Damaged(log) \/ RoundTrips("done") # {})
      BY <2>1, <2>2 DEF PInv, CleanOK, ProvenOK
    <3>5. ~Active'
      BY <1>2, <1>3 DEF Active
    <3>6. ChecksOK' /\ ProvenOK' /\ CleanOK'
      BY <1>2, <1>3, <1>4, <3>1, <3>4, <3>5 DEF ChecksOK, ProvenOK, CleanOK
    <3> QED  BY <3>2, <3>3, <3>6 DEF PInv
  <2>3. CASE ~ok
    <3>1. token' = NoToken /\ check' = "refused" /\ bad' \in BOOLEAN
      BY <2>1, <2>3
    <3>2. IInv'
      BY <1>1, <1>2, <1>3, <3>1, StillHolds
    <3>3. PTypeOK'
      BY <1>1, <2>1, <3>1, <3>2 DEF PTypeOK, IInv, Checks
    <3>4. ChecksOK' /\ ProvenOK' /\ CleanOK'
      BY <1>2, <1>3, <3>1 DEF ChecksOK, ProvenOK, CleanOK
    <3> QED  BY <3>2, <3>3, <3>4 DEF PInv
  <2> QED  BY <2>2, <2>3
<1>9. CASE ConfirmUnlock
  <2>1. check = "passed" /\ UNCHANGED <<check, bad, original, backed>>
        /\ token' = [token EXCEPT !.expert = TRUE]
    BY <1>9 DEF ConfirmUnlock, checkVars
  <2>2. token \in Token
    BY <2>1 DEF PInv, ChecksOK
  <2>3. token' \in Token
    BY <2>1, <2>2 DEF Token
  <2>4. IInv'
    BY <1>1, <1>2, <1>3, <2>3, StillHolds
  <2>5. PTypeOK'
    BY <1>1, <2>1, <2>4 DEF PTypeOK, IInv
  <2>6. NoneOpen /\ (Damaged(log) \/ RoundTrips("done") # {})
    BY <1>3, <2>1 DEF PInv, CleanOK, ProvenOK
  <2>7. ~Active'
    BY <1>2, <1>3 DEF Active
  <2>8. ChecksOK' /\ ProvenOK' /\ CleanOK'
    BY <1>2, <1>3, <1>4, <2>1, <2>3, <2>6, <2>7 DEF ChecksOK, ProvenOK, CleanOK
  <2> QED  BY <2>4, <2>5, <2>8 DEF PInv
<1>10. CASE Rescue
  <2>1. check' = "rescue" /\ UNCHANGED <<bad, original, backed>>
        /\ token' = [proven |-> TRUE, backup |-> TRUE, ack |-> FALSE,
                     expert |-> TRUE, fresh |-> TRUE]
    BY <1>10 DEF Rescue, GrantRescueToken
  <2>2. token' \in Token
    BY <2>1 DEF Token
  <2>3. IInv'
    BY <1>1, <1>2, <1>3, <2>2, StillHolds
  <2>4. PTypeOK'
    BY <1>1, <2>1, <2>3 DEF PTypeOK, IInv, Checks
  <2>5. ChecksOK' /\ ProvenOK' /\ CleanOK'
    BY <1>2, <1>3, <2>1, <2>2 DEF ChecksOK, ProvenOK, CleanOK
  <2> QED  BY <2>3, <2>4, <2>5 DEF PInv
<1> QED  BY <1>5, <1>6, <1>7, <1>8, <1>9, <1>10

LEMMA RoundtripBegins == ASSUME PInv, RoundtripBegin PROVE PInv'
<1> DEFINE e == Intent("preflight_write_roundtrip", Roundtrip, original, NoImage)
<1>1. /\ check = "read" /\ ids' = ids + 1 /\ Record(e, "idle", e) /\ Arrive("begun", bad)
      /\ UNCHANGED <<device, dry>>
  BY DEF RoundtripBegin
<1>2. /\ IInv /\ TypeOK /\ LogOK /\ JournalExplainsDevice /\ log \in Seq(Line)
      /\ stage = "idle" /\ token = NoToken /\ original \in Image
      /\ bad \in BOOLEAN /\ backed \in BOOLEAN
      /\ ~bad => NoneOpen
  BY <1>1 DEF PInv, IInv, TypeOK, PTypeOK, ChecksOK, CleanOK
<1>3. /\ e \in IntentLine /\ e \in Line /\ e.id = ids + 1 /\ e.part = Roundtrip
      /\ e.op = "preflight_write_roundtrip" /\ e.src = original /\ e.dry = dry
  BY <1>2, RoundtripAssumption DEF Intent, IntentLine, Line, Ops, TypeOK
<1> HIDE DEF e
<1>4. \/ log' = AppendLine(log, e) /\ stage' = "idle" /\ cur' = e /\ token' = token
      \/ log' \in TornAppends(log, e) /\ Dead
  BY <1>1 DEF Record
<1>5. log' \in Appended(log, e)
  BY <1>4 DEF Appended
<1>6. LogOK' /\ JournalExplainsDevice'
  BY <1>1, <1>2, <1>3, <1>5, IntentKeepsLog
<1>7. TypeOK'
  BY <1>1, <1>2, <1>3, <1>4, <1>5, AppendedFacts DEF TypeOK, Stages, Dead
<1>8. CurOK'
  BY <1>4 DEF CurOK, Active, Dead
<1>9. IInv'
  BY <1>6, <1>7, <1>8 DEF IInv
<1>10. CASE Dead
  <2>1. stage' = "down" /\ token' = NoToken /\ NoChecks
    BY <1>1, <1>10 DEF Dead, Arrive
  <2> QED  BY <1>9, <2>1, DownHolds
<1>11. CASE log' = AppendLine(log, e) /\ stage' = "idle" /\ cur' = e /\ token' = token
  <2>1. check' = "begun" /\ UNCHANGED <<bad, original, backed>>
    BY <1>1, <1>11 DEF Arrive
  <2>2. Damaged(log') \/ (~Damaged(log) /\ log' = Append(log, e))
    BY <1>2, <1>3, <1>11, AppendLineFacts
  <2>3. Append(log, e) # <<>> /\ Append(log, e)[Len(Append(log, e))] = e
    BY <1>2, <1>3
  <2>4. Underway'
    BY <1>3, <1>11, <2>2, <2>3 DEF Underway
  <2>5. ~bad => NoOtherOpen'
    <3>1. Unfinished(Append(log, e)) \subseteq Unfinished(log) \cup {e}
      BY <1>2, <1>3, OpenAfterIntent
    <3> QED  BY <1>2, <1>11, <2>2, <3>1 DEF NoneOpen, NoOtherOpen, IsClean
  <2>6. PTypeOK'
    BY <1>2, <1>7, <2>1 DEF PTypeOK, Checks
  <2>7. ChecksOK'
    BY <1>1, <1>2, <1>3, <1>11, <2>1, <2>4 DEF ChecksOK
  <2>8. ProvenOK' /\ CleanOK'
    BY <2>1, <2>5 DEF ProvenOK, CleanOK
  <2> QED  BY <1>9, <2>6, <2>7, <2>8 DEF PInv
<1> QED  BY <1>4, <1>10, <1>11

(* What is known while the round trip is under way. *)
LEMMA RoundtripFacts ==
  ASSUME PInv, check \in {"begun", "written"}
  PROVE  /\ IInv /\ TypeOK /\ Underway /\ cur \in IntentLine
         /\ cur.part = Roundtrip /\ Roundtrip \in Partitions
         /\ cur.op = "preflight_write_roundtrip"
         /\ cur.src = original /\ original \in Image /\ cur.dry = dry
         /\ stage = "idle" /\ token = NoToken
         /\ device[Roundtrip] \in Contents /\ device \in [Partitions -> Contents]
         /\ log \in Seq(Line) /\ (~bad => NoOtherOpen)
         /\ bad \in BOOLEAN /\ backed \in BOOLEAN
<1>1. IInv /\ TypeOK /\ Underway
  BY DEF PInv, PTypeOK, ChecksOK
<1> QED  BY <1>1, RoundtripAssumption DEF PInv, PTypeOK, ChecksOK, CleanOK, TypeOK, Underway

(* Bytes sent to the round-trip partition, wherever they stop. *)
LEMMA RoundtripTouches ==
  ASSUME PInv, check \in {"begun", "written"},
         \/ UNCHANGED device
         \/ Touch(Roundtrip, Landed(device[Roundtrip], original))
         \/ Touch(Roundtrip, Interrupted(device[Roundtrip], original))
         \/ Touch(Roundtrip, {device[Roundtrip]})
  PROVE  OnlyTouches(cur.part, Contents)
<1>1. /\ device \in [Partitions -> Contents] /\ Roundtrip \in Partitions
      /\ cur.part = Roundtrip /\ device[Roundtrip] \in Contents /\ original \in Image
  BY RoundtripFacts
<1>2. /\ Landed(device[Roundtrip], original) \subseteq Contents
      /\ Interrupted(device[Roundtrip], original) \subseteq Contents
      /\ {device[Roundtrip]} \subseteq Contents
  BY <1>1, WritesKeepContents
<1>3. CASE UNCHANGED device
  BY <1>1, <1>3 DEF OnlyTouches
<1>4. ASSUME NEW S, S \subseteq Contents, Touch(Roundtrip, S)
      PROVE  OnlyTouches(cur.part, Contents)
  <2>1. OnlyTouches(Roundtrip, S)
    BY <1>1, <1>4, TouchFacts
  <2> QED  BY <1>1, <1>4, <2>1 DEF OnlyTouches
<1> QED  BY <1>2, <1>3, <1>4

(* A round trip that wrote, or died writing: nothing is recorded. *)
LEMMA RoundtripSilent ==
  ASSUME PInv, check \in {"begun", "written"}, Moves,
         \/ UNCHANGED <<stage, cur, token>>
         \/ Dead
  PROVE  IInv'
<1>1. /\ TypeOK /\ LogOK /\ Underway /\ JournalExplainsDevice /\ stage = "idle"
      /\ token = NoToken
  BY RoundtripFacts DEF IInv
<1>2. "failed" \in Outcomes /\ log' \in Appended(log, Outcome(cur.id, "failed"))
  BY DEF Outcomes, Appended, TornAppends, Moves
<1>3. LogOK' /\ JournalExplainsDevice'
  BY <1>1, <1>2, OutcomeKeepsLog DEF Moves
<1>4. TypeOK'
  BY <1>1 DEF TypeOK, Stages, OnlyTouches, Dead, Moves
<1>5. CurOK'
  BY <1>1 DEF CurOK, Active, Dead, Moves
<1> QED  BY <1>3, <1>4, <1>5 DEF IInv

LEMMA RoundtripMoves == ASSUME PInv, RoundtripWrite PROVE Moves
<1>1. check = "begun" /\ ~dry /\ UNCHANGED <<log, ids, dry>>
  BY DEF RoundtripWrite
<1>2. OnlyTouches(cur.part, Contents)
  BY <1>1, RoundtripTouches DEF RoundtripWrite
<1> QED  BY <1>1, <1>2, RoundtripFacts DEF Moves

LEMMA RoundtripWrites == ASSUME PInv, RoundtripWrite PROVE PInv'
<1>1. /\ check = "begun" /\ ~dry /\ check' = "written"
      /\ Touch(Roundtrip, Landed(device[Roundtrip], original))
      /\ UNCHANGED <<log, ids, stage, cur, dry, token, bad, original, backed>>
  BY DEF RoundtripWrite
<1>2. Moves
  BY RoundtripMoves
<1>3. IInv'
  BY <1>1, <1>2, RoundtripSilent
<1>4. PTypeOK'
  BY <1>1, <1>3 DEF PInv, PTypeOK, IInv, Checks
<1>5. (Damaged(log)' <=> Damaged(log)) /\ (NoOtherOpen' <=> NoOtherOpen)
  BY <1>1 DEF Damaged, NoOtherOpen
<1>6. Underway'
  BY <1>1, <1>5, RoundtripFacts DEF Underway
<1>7. ChecksOK'
  BY <1>1, <1>6, RoundtripFacts DEF ChecksOK
<1>8. ProvenOK' /\ CleanOK'
  BY <1>1, <1>5, RoundtripFacts DEF ProvenOK, CleanOK
<1> QED  BY <1>3, <1>4, <1>7, <1>8 DEF PInv

(* The round trip is answered, truthfully. *)
LEMMA RoundtripCloses ==
  ASSUME PInv, RoundtripDry \/ RoundtripWriteRaises \/ RoundtripMatches \/ RoundtripFails
  PROVE  \E st \in Outcomes :
           /\ Closes(st)
           /\ \/ /\ st = "done" /\ dry /\ Arrive(Refusal(bad), bad)
              \/ /\ st = "failed" /\ Arrive("refused", TRUE)
              \/ /\ st = "done" /\ check = "written" /\ Arrive("proven", bad)
<1>1. check \in {"begun", "written"} /\ UNCHANGED <<ids, dry>>
  BY DEF RoundtripDry, RoundtripWriteRaises, RoundtripMatches, RoundtripFails
<1>2. OnlyTouches(cur.part, Contents)
  BY <1>1, RoundtripTouches
     DEF RoundtripDry, RoundtripWriteRaises, RoundtripMatches, RoundtripFails
<1>3. /\ Underway /\ cur.part = Roundtrip /\ cur.src = original /\ cur.dry = dry
      /\ original \in Image /\ device[Roundtrip] \in Contents
  BY <1>1, RoundtripFacts
<1>4. PICK st \in Outcomes :
        /\ Finish(st)
        /\ \/ /\ st = "done" /\ dry /\ UNCHANGED device /\ Arrive(Refusal(bad), bad)
           \/ /\ st = "failed" /\ (dry => UNCHANGED device) /\ Arrive("refused", TRUE)
           \/ /\ st = "done" /\ check = "written" /\ UNCHANGED device
              /\ \E after \in ReadsOf(device[Roundtrip]) : SameHash(after, original)
              /\ Arrive("proven", bad)
  BY DEF RoundtripDry, RoundtripWriteRaises, RoundtripMatches, RoundtripFails, Outcomes
<1>5. ASSUME NEW after \in ReadsOf(device[Roundtrip]), SameHash(after, original)
      PROVE  Carries(device[Roundtrip], original)
  BY <1>3, <1>5, BlocksAssumption DEF ReadsOf, SameHash, Carries, Overlay, Contents, Image
<1>6. Closes(st)
  <2>1. cur.dry => device'[cur.part] = device[cur.part]
    BY <1>3, <1>4
  <2>2. st = "done" /\ ~cur.dry => Carries(device'[cur.part], cur.src)
    BY <1>3, <1>4, <1>5
  <2>3. st # "rolled_back"
    BY <1>4
  <2> QED  BY <1>1, <1>2, <1>3, <1>4, <2>1, <2>2, <2>3 DEF Closes
<1> QED  BY <1>4, <1>6

LEMMA RoundtripEnds ==
  ASSUME PInv, RoundtripDry \/ RoundtripWriteRaises \/ RoundtripMatches \/ RoundtripFails
  PROVE  PInv'
<1>1. check \in {"begun", "written"} /\ UNCHANGED <<ids, dry>>
  BY DEF RoundtripDry, RoundtripWriteRaises, RoundtripMatches, RoundtripFails
<1>2. /\ IInv /\ TypeOK /\ Underway /\ cur \in IntentLine
      /\ cur.part = Roundtrip /\ cur.op = "preflight_write_roundtrip"
      /\ cur.src = original /\ original \in Image /\ cur.dry = dry
      /\ stage = "idle" /\ token = NoToken
      /\ device[Roundtrip] \in Contents
      /\ log \in Seq(Line) /\ (~bad => NoOtherOpen)
      /\ bad \in BOOLEAN /\ backed \in BOOLEAN
  BY <1>1, RoundtripFacts
<1>3. PICK st \in Outcomes :
        /\ Closes(st)
        /\ \/ /\ st = "done" /\ dry /\ Arrive(Refusal(bad), bad)
           \/ /\ st = "failed" /\ Arrive("refused", TRUE)
           \/ /\ st = "done" /\ check = "written" /\ Arrive("proven", bad)
  BY RoundtripCloses
<1>4. IInv' /\ Finish(st)
  BY <1>2, <1>3, FinishHolds DEF Closes
<1>5. CASE Dead
  <2>1. stage' = "down" /\ token' = NoToken /\ NoChecks
    BY <1>3, <1>5 DEF Dead, Arrive
  <2> QED  BY <1>4, <2>1, DownHolds
<1>6. CASE /\ log' = AppendLine(log, Outcome(cur.id, st))
           /\ stage' = "idle" /\ cur' = NoEntry /\ token' = token
  <2>1. CASE check' \in {"refused", "over"}
    <3>1. bad' \in BOOLEAN /\ UNCHANGED <<original, backed>>
      BY <1>2, <1>3, <1>6 DEF Arrive
    <3>2. PTypeOK'
      BY <1>2, <1>4, <2>1, <3>1 DEF PTypeOK, IInv, Checks
    <3>3. ChecksOK' /\ ProvenOK' /\ CleanOK'
      BY <1>2, <1>6, <2>1 DEF ChecksOK, ProvenOK, CleanOK
    <3> QED  BY <1>4, <3>2, <3>3 DEF PInv
  <2>2. CASE /\ st = "done" /\ check = "written" /\ check' = "proven"
             /\ UNCHANGED <<bad, original, backed>>
    <3> DEFINE o == Outcome(cur.id, "done")
    <3>0. PICK n \in Nat : n = Len(log)
      BY <1>2
    <3>1. o \in Line /\ o.id = cur.id /\ o.state = "done" /\ ~IsIntent(o)
      BY <1>2, OutcomeIsLine DEF IntentLine, IsIntent, Outcomes
    <3>2. log' = AppendLine(log, o)
      BY <1>6, <2>2
    <3> HIDE DEF o
    <3>3. Damaged(log') \/ (~Damaged(log) /\ log' = Append(log, o))
      BY <1>2, <3>1, <3>2, AppendLineFacts
    <3>4. ASSUME ~Damaged(log') PROVE log # <<>> /\ log[n] = cur /\ log' = Append(log, o)
      BY <1>2, <3>0, <3>3, <3>4 DEF Underway
    <3>5. ~dry
      BY <2>2 DEF PInv, ChecksOK
    <3>6. ASSUME ~Damaged(log') PROVE RoundTrips("done")' # {}
      <4>1. /\ n \in Nat /\ n \in DOMAIN log /\ n \in DOMAIN log' /\ n + 1 \in DOMAIN log'
            /\ log'[n] = cur /\ log'[n + 1] = o /\ n + 1 > n
        BY <1>2, <3>0, <3>1, <3>4, <3>6
      <4>2. Answers(log', n + 1, n)
        BY <3>1, <4>1 DEF Answers
      <4>3. "done" \in AnswersTo(n)'
        BY <3>1, <4>1, <4>2 DEF AnswersTo
      <4>4. IsIntent(cur)
        BY <1>2 DEF IntentLine, IsIntent
      <4>5. n \in RoundTrips("done")'
        BY <1>2, <3>5, <4>1, <4>3, <4>4 DEF RoundTrips
      <4> QED  BY <4>5
    <3>7. ~bad => NoneOpen'
      <4>1. ASSUME ~bad, ~Damaged(log') PROVE IsClean(log')
        <5>1. Unfinished(log) \subseteq {log[n]}
          BY <1>2, <3>3, <3>4, <4>1 DEF NoOtherOpen
        <5>2. o.id = log[n].id
          BY <3>1, <3>4, <4>1
        <5> QED  BY <1>2, <3>0, <3>1, <3>4, <4>1, <5>1, <5>2, OpenAfterOutcome
      <4> QED  BY <4>1 DEF NoneOpen
    <3>8. PTypeOK'
      BY <1>2, <1>4, <2>2 DEF PTypeOK, IInv, Checks
    <3>9. ChecksOK'
      BY <1>2, <1>6, <2>2 DEF ChecksOK
    <3>10. ProvenOK' /\ CleanOK'
      BY <2>2, <3>6, <3>7 DEF ProvenOK, CleanOK
    <3> QED  BY <1>4, <3>8, <3>9, <3>10 DEF PInv
  <2> QED  BY <1>3, <1>6, <2>1, <2>2 DEF Arrive, Refusal
<1> QED  BY <1>3, <1>4, <1>5, <1>6, FinishSplit

-----------------------------------------------------------------------------
(* Steps of the session, under the token of a preflight or of a rescue.    *)

(* The process lives on, with a token: what preflight found stays true if  *)
(* the journal still has no other open operation.                          *)
LEMMA AuthorisedHolds ==
  ASSUME PInv, IInv', OneAppend, check \in {"passed", "rescue"}, stage' # "down",
         token' \in Token, UNCHANGED checkVars,
         check = "passed" /\ stage' = "idle" => NoneOpen',
         check = "passed" /\ Active' => NoOtherOpen'
  PROVE  PInv'
<1>1. PTypeOK'
  BY DEF PInv, PTypeOK, IInv, checkVars
<1>2. ChecksOK'
  BY DEF ChecksOK, checkVars
<1>3. ProvenOK'
  <2>1. check = "passed" => Damaged(log') \/ RoundTrips("done")' # {}
    BY ProvenStays DEF PInv, ProvenOK
  <2> QED  BY <2>1 DEF ProvenOK, checkVars
<1>4. CleanOK'
  BY DEF CleanOK, checkVars
<1> QED  BY <1>1, <1>2, <1>3, <1>4 DEF PInv

LEMMA SessionHolds ==
  ASSUME PInv, Request \/ Progress \/ Start \/ TokenExpires, Stay
  PROVE  PInv'
<1>1. /\ IInv /\ Next /\ log \in Seq(Line) /\ stage \in Stages
  BY DEF PInv, IInv, TypeOK, Next, Surroundings
<1>2. IInv'
  BY <1>1, NextHolds
<1>3. OneAppend
  BY <1>1, StepAppends
<1>4. stage' # "down" => UNCHANGED checkVars
  BY DEF Stay, Arrive, checkVars
<1>5. stage' = "down" => NoChecks
  BY DEF Stay, Arrive
<1>6. CASE Request
  <2>1. stage = "idle" /\ token \in Token
    BY <1>1, <1>6, RequestFacts
  <2>2. PICK op \in Ops, p \in Partitions, src \in Image, bak \in Image : Begin(op, p, src, bak)
    BY <1>1, <1>6, RequestFacts
  <2> DEFINE e == Intent(op, p, src, bak)
  <2>3. /\ e \in IntentLine
        /\ \/ /\ log' = AppendLine(log, e)
              /\ stage' = "begun" /\ cur' = e /\ token' = token
           \/ stage' = "down" /\ cur' = NoEntry /\ token' = NoToken
    BY <1>1, <2>2, BeginFacts DEF IInv
  <2> HIDE DEF e
  <2>4. CASE stage' = "down" /\ token' = NoToken
    BY <1>2, <1>5, <2>4, DownHolds
  <2>5. CASE log' = AppendLine(log, e) /\ stage' = "begun" /\ cur' = e /\ token' = token
    <3>1. check \in {"passed", "rescue"}
      BY <2>1, TokenAssumption DEF PInv, ChecksOK
    <3>2. check = "passed" => NoOtherOpen'
      <4>1. e \in Line
        BY <2>3 DEF Line
      <4>2. Damaged(log') \/ (~Damaged(log) /\ log' = Append(log, e))
        BY <1>1, <2>5, <4>1, AppendLineFacts
      <4>3. Unfinished(Append(log, e)) \subseteq Unfinished(log) \cup {e}
        BY <1>1, <4>1, OpenAfterIntent
      <4>4. check = "passed" => NoneOpen
        BY <2>1 DEF PInv, CleanOK
      <4> QED  BY <2>5, <4>2, <4>3, <4>4 DEF NoneOpen, NoOtherOpen, IsClean
    <3>3. stage' # "down" /\ stage' # "idle"
      BY <2>5
    <3> QED  BY <1>2, <1>3, <1>4, <2>1, <2>5, <3>1, <3>2, <3>3, AuthorisedHolds
  <2> QED  BY <2>3, <2>4, <2>5
<1>7. CASE Progress
  <2>1. Active /\ token \in Token
    BY <1>1, <1>7, ProgressCases DEF IInv, CurOK
  <2>2. check \in {"passed", "rescue"}
    BY <2>1, TokenAssumption DEF PInv, ChecksOK
  <2>3. check = "passed" => NoOtherOpen
    BY <2>1 DEF PInv, CleanOK
  <2>4. CASE UNCHANGED <<log, cur, token>> /\ Active'
    <3>1. stage' # "down" /\ stage' # "idle"
      BY <2>4 DEF Active
    <3>2. check = "passed" => NoOtherOpen'
      BY <2>3, <2>4 DEF NoOtherOpen, Damaged
    <3> QED  BY <1>2, <1>3, <1>4, <2>1, <2>2, <2>4, <3>1, <3>2, AuthorisedHolds
  <2>5. ASSUME NEW st \in Outcomes, Finish(st) PROVE PInv'
    <3>1. CASE Dead
      BY <1>2, <1>5, <3>1, DownHolds DEF Dead
    <3>2. CASE /\ log' = AppendLine(log, Outcome(cur.id, st))
               /\ stage' = "idle" /\ cur' = NoEntry /\ token' = token
      <4> DEFINE o == Outcome(cur.id, st)
      <4>1. cur \in IntentLine /\ Underway
        BY <1>1, <2>1, ActiveFacts
      <4>2. o \in Line /\ o.id = cur.id /\ ~IsIntent(o)
        BY <4>1, OutcomeIsLine DEF IntentLine, IsIntent, Outcomes
      <4>3. log' = AppendLine(log, o)
        BY <3>2
      <4> HIDE DEF o
      <4>4. Damaged(log') \/ (~Damaged(log) /\ log' = Append(log, o))
        BY <1>1, <4>2, <4>3, AppendLineFacts
      <4>5. ASSUME check = "passed", ~Damaged(log') PROVE IsClean(log')
        <5>1. log # <<>> /\ log[Len(log)] = cur /\ log' = Append(log, o)
          BY <4>1, <4>4, <4>5 DEF Underway
        <5>2. Unfinished(log) \subseteq {log[Len(log)]}
          BY <2>3, <4>4, <4>5, <5>1 DEF NoOtherOpen
        <5>3. o.id = log[Len(log)].id
          BY <4>2, <5>1
        <5> QED  BY <1>1, <4>2, <5>1, <5>2, <5>3, OpenAfterOutcome
      <4>6. check = "passed" => NoneOpen'
        BY <4>5 DEF NoneOpen
      <4>7. stage' # "down" /\ ~Active'
        BY <3>2 DEF Active
      <4> QED  BY <1>2, <1>3, <1>4, <2>1, <2>2, <3>2, <4>6, <4>7, AuthorisedHolds
    <3> QED  BY <2>5, <3>1, <3>2, FinishSplit
  <2>6. (\E st \in Outcomes : Finish(st)) \/ (UNCHANGED <<log, cur, token>> /\ Active')
    BY <1>1, <1>7, ProgressCases DEF Closes, Moves, Active
  <2> QED  BY <2>4, <2>5, <2>6
<1>8. CASE Start
  <2>1. stage = "down" /\ stage' = "idle" /\ token' = token
    BY <1>8 DEF Start
  <2>2. check = "off" /\ token = NoToken /\ UNCHANGED checkVars
    BY <1>4, <2>1 DEF PInv, ChecksOK
  <2>3. PTypeOK'
    BY <1>2, <2>2 DEF PInv, PTypeOK, IInv, checkVars
  <2>4. ChecksOK' /\ ProvenOK' /\ CleanOK'
    BY <2>1, <2>2 DEF ChecksOK, ProvenOK, CleanOK, checkVars
  <2> QED  BY <1>2, <2>3, <2>4 DEF PInv
<1>9. CASE TokenExpires
  <2>1. token # NoToken /\ token' = [token EXCEPT !.fresh = FALSE]
        /\ UNCHANGED <<device, log, ids, stage, cur, dry>>
    BY <1>9 DEF TokenExpires
  <2>2. check \in {"passed", "rescue"} /\ token \in Token /\ stage # "down"
    BY <2>1 DEF PInv, ChecksOK
  <2>3. token' \in Token
    BY <2>1, <2>2 DEF Token
  <2>4. (NoneOpen' <=> NoneOpen) /\ (NoOtherOpen' <=> NoOtherOpen) /\ (Active' <=> Active)
    BY <2>1 DEF NoneOpen, NoOtherOpen, Damaged, Active
  <2>5. /\ check = "passed" /\ stage' = "idle" => NoneOpen'
        /\ check = "passed" /\ Active' => NoOtherOpen'
    BY <2>1, <2>4 DEF PInv, CleanOK
  <2> QED  BY <1>2, <1>3, <1>4, <2>1, <2>2, <2>3, <2>5, AuthorisedHolds
<1> QED  BY <1>6, <1>7, <1>8, <1>9

LEMMA RoundtripDies ==
  ASSUME PInv, PDie, check = "begun"
  PROVE  Moves /\ Dead
<1>1. /\ Touch(Roundtrip, IF dry THEN {device[Roundtrip]}
                          ELSE Interrupted(device[Roundtrip], original))
      /\ Dead /\ UNCHANGED <<log, ids, dry>>
  BY DEF PDie
<1>2. OnlyTouches(cur.part, Contents)
  BY <1>1, RoundtripTouches
<1>3. cur.dry => device'[cur.part] = device[cur.part]
  BY <1>1, RoundtripFacts DEF Touch
<1> QED  BY <1>1, <1>2, <1>3, RoundtripFacts DEF Moves

LEMMA PDieHolds == ASSUME PInv, PDie PROVE PInv'
<1>1. NoChecks /\ Dead
  BY DEF PDie, Die
<1>2. IInv'
  <2>1. CASE Die
    BY <2>1, DieHolds DEF PInv
  <2>2. CASE check = "begun"
    BY <2>2, RoundtripDies, RoundtripSilent
  <2> QED  BY <2>1, <2>2 DEF PDie
<1> QED  BY <1>1, <1>2, DownHolds DEF Dead

-----------------------------------------------------------------------------
LEMMA PInitHolds == ASSUME PInit PROVE PInv
<1>1. IInv
  BY InitHolds DEF PInit
<1>2. PTypeOK
  BY <1>1 DEF PInit, PTypeOK, IInv, Checks
<1>3. ChecksOK /\ ProvenOK /\ CleanOK
  BY DEF PInit, Init, ChecksOK, ProvenOK, CleanOK
<1> QED  BY <1>1, <1>2, <1>3 DEF PInv

LEMMA PStutter == ASSUME PInv, UNCHANGED pvars PROVE PInv'
<1>1. UNCHANGED vars /\ UNCHANGED checkVars
  BY DEF pvars
<1>2. IInv'
  BY <1>1, NextHolds DEF PInv
<1>3. UNCHANGED <<device, log, ids, stage, cur, dry, token, check, bad, original, backed>>
  BY <1>1 DEF vars, checkVars
<1>4. PTypeOK'
  BY <1>2, <1>3 DEF PInv, PTypeOK, IInv
<1>5. ChecksOK' /\ ProvenOK' /\ CleanOK'
  BY <1>3 DEF PInv, ChecksOK, ProvenOK, CleanOK, Underway, Active, Damaged, NoneOpen,
              NoOtherOpen, RoundTrips, AnswersTo
<1> QED  BY <1>2, <1>4, <1>5 DEF PInv

LEMMA PNextHolds == ASSUME PInv, PNext PROVE PInv'
BY ReadingHolds, RoundtripBegins, RoundtripWrites, RoundtripEnds, SessionHolds, PDieHolds
   DEF PNext, Preflighting

LEMMA AlwaysPInv == PSpec => []PInv
<1>1. PInit => PInv
  BY PInitHolds
<1>2. PInv /\ [PNext]_pvars => PInv'
  BY PNextHolds, PStutter
<1> QED  BY <1>1, <1>2, PTL DEF PSpec

(* The journal explains the device also when preflights and rescues come   *)
(* before the writes: the round trip of misc is recorded like any other    *)
(* operation, and says done only when the read-back was misc's own bytes.  *)
THEOREM PreflightKeepsTheJournalTrue == PSpec => []JournalExplainsDevice
<1>1. PInv => JournalExplainsDevice
  BY DEF PInv, IInv
<1> QED  BY <1>1, AlwaysPInv, PTL

(* Where there is a token of a preflight the journal on disk has the round *)
(* trip that proved the write path, or an older process damaged it.        *)
THEOREM TokensAreProven == PSpec => []TokenMeansProven
<1>1. PInv => TokenMeansProven
  BY DEF PInv, ProvenOK, TokenMeansProven
<1> QED  BY <1>1, AlwaysPInv, PTL

(* Between the operations of such a token nothing in the journal is        *)
(* unfinished: what was unfinished before failed the preflight, and the    *)
(* session answers what it begins.                                         *)
THEOREM TokensFindACleanJournal == PSpec => []TokenMeansCleanJournal
<1>1. PInv => TokenMeansCleanJournal
  BY DEF PInv, CleanOK, NoneOpen, TokenMeansCleanJournal
<1> QED  BY <1>1, AlwaysPInv, PTL

(* Without a token only the round trip touches the device, only the        *)
(* round-trip partition, never in a dry run, and under an intent on disk.  *)
THEOREM UnprovenTouches == PSpec => UnprovenTouchesRoundtripOnly
<1> DEFINE Only == \A p \in Partitions : device'[p] # device[p] /\ token = NoToken =>
       /\ p = Roundtrip /\ ~dry
       /\ Damaged(log) \/ \E l \in Unfinished(log) :
            Concerns(l, p) /\ l.op = "preflight_write_roundtrip"
<1>1. ASSUME PInv, [PNext]_pvars PROVE Only
  <2> SUFFICES ASSUME NEW p \in Partitions, device'[p] # device[p], token = NoToken
               PROVE  /\ p = Roundtrip /\ ~dry
                      /\ Damaged(log) \/ \E l \in Unfinished(log) :
                           Concerns(l, p) /\ l.op = "preflight_write_roundtrip"
    OBVIOUS
  <2>1. ~[Next]_vars
    <3>1. ASSUME [Next]_vars PROVE FALSE
      <4>1. Active
        BY <1>1, <3>1, StepTouches DEF PInv
      <4> QED  BY <1>1, <4>1, TokenAssumption DEF PInv, IInv, CurOK
    <3> QED  BY <3>1
  <2>2. /\ check = "begun" /\ ~dry /\ \E S : Touch(Roundtrip, S)
    <3>1. ~UNCHANGED device
      OBVIOUS
    <3>2. \/ RoundtripWrite \/ RoundtripWriteRaises
          \/ /\ check = "begun"
             /\ Touch(Roundtrip, IF dry THEN {device[Roundtrip]}
                                 ELSE Interrupted(device[Roundtrip], original))
      BY <1>1, <2>1, <3>1
         DEF PNext, Preflighting, pvars, vars, Next, Surroundings, ChecksRefuse, ChecksPass,
             SkipWrite, RoundtripBegin, RoundtripDry, RoundtripMatches, RoundtripFails,
             Verdict, ConfirmUnlock, Rescue, GrantRescueToken, PDie
    <3>3. dry => ~Touch(Roundtrip, {device[Roundtrip]})
      BY <1>1, <3>1 DEF Touch, PInv, PTypeOK, TypeOK
    <3> QED  BY <3>2, <3>3 DEF RoundtripWrite, RoundtripWriteRaises
  <2>3. p = Roundtrip
    BY <1>1, <2>2 DEF Touch, PInv, PTypeOK, TypeOK
  <2>4. /\ Underway /\ cur.op = "preflight_write_roundtrip" /\ cur.part = Roundtrip
        /\ cur.dry = dry /\ cur \in IntentLine /\ log \in Seq(Line)
    BY <1>1, <2>2, RoundtripFacts
  <2>5. ASSUME ~Damaged(log)
        PROVE  cur \in Unfinished(log) /\ IsIntent(cur)
    <3>1. log # <<>> /\ log[Len(log)] = cur
      BY <2>4, <2>5 DEF Underway
    <3>2. Len(log) \in DOMAIN log /\ \A j \in DOMAIN log : ~(j > Len(log))
      BY <2>4, <3>1
    <3>3. IsIntent(cur)
      BY <2>4 DEF IntentLine, IsIntent
    <3> QED  BY <3>1, <3>2, <3>3 DEF Unfinished, Answers
  <2> QED  BY <2>2, <2>3, <2>4, <2>5 DEF Concerns
<1>2. PInv /\ [PNext]_pvars => [Only]_pvars
  BY <1>1
<1>3. PSpec => [][Only]_pvars
  BY <1>2, AlwaysPInv, PTL DEF PSpec
<1> QED  BY <1>3 DEF UnprovenTouchesRoundtripOnly

(* Under a token - a preflight's or a rescue's - a partition changes only  *)
(* outside a dry run, a CATASTROPHIC one only if the user confirmed at     *)
(* expert level, and, unless an older process damaged the journal, under   *)
(* an unfinished intent that names its backup and, if the token came from  *)
(* a preflight, after a round trip that is on record as done.  With        *)
(* UnprovenTouches this says of every byte any process changes why it may. *)
ProvenTouch(p) ==
  /\ ~dry
  /\ Classify(p, Overrides) = CATASTROPHIC => token.expert
  /\ Damaged(log) \/ /\ \E l \in Unfinished(log) : Concerns(l, p) /\ l.bak \in Backups
                     /\ check = "passed" => RoundTrips("done") # {}

ProvenTouches ==
  [][\A p \in Partitions : device'[p] # device[p] /\ token # NoToken => ProvenTouch(p)]_pvars

(* A write of bytes needs everything preflight and the confirmation        *)
(* establish, at the moment of the write: preflight.py's token, the rescue *)
(* command's own, and session.py's checks of both.                         *)
THEOREM TouchesAreProven == PSpec => ProvenTouches
<1> DEFINE Only == \A p \in Partitions :
                     device'[p] # device[p] /\ token # NoToken => ProvenTouch(p)
<1>1. ASSUME PInv, [PNext]_pvars PROVE Only
  <2> SUFFICES ASSUME NEW p \in Partitions, device'[p] # device[p], token # NoToken
               PROVE  ProvenTouch(p)
    OBVIOUS
  <2>1. check \in {"passed", "rescue"}
    BY <1>1 DEF PInv, ChecksOK
  <2>2. [Next]_vars
    <3>1. ~UNCHANGED device
      OBVIOUS
    <3> QED  BY <1>1, <2>1, <3>1
         DEF PNext, Preflighting, pvars, vars, Next, Surroundings, ChecksRefuse, ChecksPass,
             SkipWrite, RoundtripBegin, RoundtripDry, RoundtripWrite, RoundtripWriteRaises,
             RoundtripMatches, RoundtripFails, Verdict, ConfirmUnlock, Rescue,
             GrantRescueToken, PDie
  <2>3. Active /\ ~dry /\ ~cur.dry /\ cur.part = p
    BY <1>1, <2>2, StepTouches DEF PInv
  <2>4. /\ cur \in IntentLine /\ cur.bak \in Backups
        /\ Classify(p, Overrides) = CATASTROPHIC => token.expert
        /\ Damaged(log) \/ (log # <<>> /\ log[Len(log)] = cur)
    BY <1>1, <2>3 DEF PInv, IInv, CurOK
  <2>5. ASSUME ~Damaged(log)
        PROVE  cur \in Unfinished(log) /\ Concerns(cur, p)
    <3>1. log # <<>> /\ log[Len(log)] = cur /\ log \in Seq(Line)
      BY <1>1, <2>4, <2>5 DEF PInv, IInv, TypeOK
    <3>2. Len(log) \in DOMAIN log /\ \A j \in DOMAIN log : ~(j > Len(log))
      BY <3>1
    <3>3. IsIntent(cur)
      BY <2>4 DEF IntentLine, IsIntent
    <3> QED  BY <2>3, <3>1, <3>2, <3>3 DEF Unfinished, Answers, Concerns
  <2>6. check = "passed" => Damaged(log) \/ RoundTrips("done") # {}
    BY <1>1 DEF PInv, ProvenOK
  <2> QED  BY <2>3, <2>4, <2>5, <2>6 DEF ProvenTouch
<1>2. PInv /\ [PNext]_pvars => [Only]_pvars
  BY <1>1
<1>3. PSpec => [][Only]_pvars
  BY <1>2, AlwaysPInv, PTL DEF PSpec
<1> QED  BY <1>3 DEF ProvenTouches

-----------------------------------------------------------------------------
(* What preflights and rescues write to the journal is a line more, too.   *)

LEMMA RoundtripAppends == ASSUME PInv, RoundtripBegin PROVE OneAppend
<1> DEFINE e == Intent("preflight_write_roundtrip", Roundtrip, original, NoImage)
<1>1. check = "read" /\ Record(e, "idle", e)
  BY DEF RoundtripBegin
<1>2. original \in Image /\ TypeOK
  BY <1>1 DEF PInv, IInv, ChecksOK
<1>3. e \in Line
  BY <1>2, RoundtripAssumption DEF Intent, IntentLine, Ops, TypeOK, Line
<1>4. e.op = "preflight_write_roundtrip"
  BY DEF Intent
<1>5. log' \in Appended(log, e)
  BY <1>1 DEF Record, Appended
<1> QED
  BY <1>3, <1>4, <1>5 DEF OneAppend, Vetted

LEMMA PStepAppends == ASSUME PInv, [PNext]_pvars PROVE OneAppend
<1>1. CASE RoundtripDry \/ RoundtripWriteRaises \/ RoundtripMatches \/ RoundtripFails
  <2>1. PICK st \in Outcomes : Closes(st)
    BY <1>1, RoundtripCloses
  <2>2. Finish(st) /\ cur \in IntentLine /\ TypeOK
    BY <2>1 DEF Closes, Underway, PInv, IInv
  <2> QED  BY <2>2, FinishAppends
<1>2. CASE Request \/ Progress \/ Start \/ TokenExpires \/ Die
  BY <1>2, StepAppends DEF PInv, Next, Surroundings
<1>3. CASE UNCHANGED log
  BY <1>3 DEF OneAppend
<1>4. \/ RoundtripBegin \/ UNCHANGED log
      \/ RoundtripDry \/ RoundtripWriteRaises \/ RoundtripMatches \/ RoundtripFails
      \/ Request \/ Progress \/ Start \/ TokenExpires \/ Die
  BY DEF PNext, Preflighting, ChecksRefuse, ChecksPass, SkipWrite, RoundtripWrite, Verdict,
         ConfirmUnlock, Rescue, GrantRescueToken, PDie, pvars, vars
<1> QED  BY <1>1, <1>2, <1>3, <1>4, RoundtripAppends

(* A preflight is no way around those refusals: but for the intent of its  *)
(* own round trip, the journal is told of no operation without a token that*)
(* is not stale, a backup and, for a write, a verdict for the partition.   *)
THEOREM PreflightVouches == PSpec => IntentsAreVouchedFor
<1>1. PInv /\ [PNext]_pvars => [NewIntentsAreVouchedFor]_vars
  BY PStepAppends, VettedAppends DEF PInv, IInv, TypeOK
<1> QED  BY <1>1, AlwaysPInv, PTL DEF PSpec, IntentsAreVouchedFor

(* A record that reached the disk whole stays as it is, through the        *)
(* preflights and deaths of any number of later processes.                 *)
THEOREM PreflightOnlyAppends == PSpec => EarlierRecordsSurvive
<1>1. PInv /\ [PNext]_pvars => [AppendOnly]_vars
  BY PStepAppends, AppendedFacts DEF PInv, IInv, TypeOK, OneAppend, AppendOnly
<1> QED  BY <1>1, AlwaysPInv, PTL DEF PSpec, EarlierRecordsSurvive

-----------------------------------------------------------------------------
(* The refinement, with preflights and rescues before the writes.          *)

LEMMA PStepKeepsPromise ==
  ASSUME ~CanTear, PInv, WholeLog, [PNext]_pvars
  PROVE  WholeLog' /\ [Promise!Next]_Promise!vars
<1>1. IInv /\ TypeOK /\ LogOK
  BY DEF PInv, IInv
<1>2. CASE UNCHANGED <<device, log>>
  <2>1. WholeLog'
    BY <1>2 DEF WholeLog, Damaged, Unterminated
  <2> QED  BY <1>2, <2>1, PromiseStutters
<1>3. CASE RoundtripBegin
  <2> DEFINE e == Intent("preflight_write_roundtrip", Roundtrip, original, NoImage)
  <2>1. check = "read" /\ Record(e, "idle", e) /\ UNCHANGED device
    BY <1>3 DEF RoundtripBegin
  <2>2. e \in IntentLine /\ e.id = ids + 1 /\ e.ended
    <3>1. original \in Image
      BY <2>1 DEF PInv, ChecksOK
    <3> QED  BY <1>1, <3>1, RoundtripAssumption DEF Intent, IntentLine, Ops, TypeOK
  <2>3. log' = AppendLine(log, e)
    BY <2>1 DEF Record
  <2> HIDE DEF e
  <2> QED  BY <1>1, <2>1, <2>2, <2>3, IntentOpens
<1>4. CASE RoundtripWrite
  BY <1>1, <1>4, RoundtripMoves, MovesChange
<1>5. CASE RoundtripDry \/ RoundtripWriteRaises \/ RoundtripMatches \/ RoundtripFails
  <2>1. PICK st \in Outcomes : Closes(st)
    BY <1>5, RoundtripCloses
  <2>2. log' = AppendLine(log, Outcome(cur.id, st))
    BY <2>1 DEF Closes, Finish, Record
  <2> QED  BY <1>1, <2>1, <2>2, OutcomeSettles
<1>6. CASE Request \/ Progress \/ Start \/ TokenExpires \/ Die
  BY <1>1, <1>6, StepKeepsPromise DEF Next, Surroundings
<1>7. CASE PDie /\ ~Die
  <2>1. check = "begun"
    BY <1>7 DEF PDie
  <2>2. Moves
    BY <1>7, <2>1, RoundtripDies
  <2> QED  BY <1>1, <2>2, MovesChange
<1>8. ChecksRefuse \/ ChecksPass \/ SkipWrite \/ Verdict \/ ConfirmUnlock \/ Rescue
        => UNCHANGED <<device, log>>
  BY DEF ChecksRefuse, ChecksPass, SkipWrite, Verdict, ConfirmUnlock, Rescue,
         GrantRescueToken, vars
<1>9. UNCHANGED pvars => UNCHANGED <<device, log>>
  BY DEF pvars, vars
<1> QED  BY <1>2, <1>3, <1>4, <1>5, <1>6, <1>7, <1>8, <1>9 DEF PNext, Preflighting

(* The composition implements the write-ahead promise too: the round trip  *)
(* of the preflight is one of its operations, and settled only when misc   *)
(* carries its own bytes again.                                            *)
THEOREM PreflightKeepsThePromise == ASSUME ~CanTear PROVE PSpec => ImplementsPromise
<1>1. PInit => WholeLog /\ Promise!Init
  BY InitKeepsPromise DEF PInit
<1>2. PInv /\ WholeLog /\ [PNext]_pvars => WholeLog' /\ [Promise!Next]_Promise!vars
  BY PStepKeepsPromise
<1> QED  BY <1>1, <1>2, AlwaysPInv, PTL DEF PSpec, ImplementsPromise, Promise!Spec
=============================================================================
