---------------------------- MODULE SessionProps ----------------------------
(***************************************************************************)
(* What makes DeviceSession correct: how the journal, the device and the   *)
(* process of the moment relate, over any number of deaths and restarts.   *)
(***************************************************************************)
EXTENDS DeviceSession

(* Line l is the intent of an operation that may touch partition p. *)
Concerns(l, p) == IsIntent(l) /\ ~l.dry /\ l.part = p

(* Line i is the last such intent for p. *)
LatestFor(p, i) ==
  /\ i \in DOMAIN log
  /\ Concerns(log[i], p)
  /\ \A k \in DOMAIN log : Concerns(log[k], p) => k <= i

-----------------------------------------------------------------------------
(* "Every partition write records its intent to disk, and fsyncs, before   *)
(* any bytes reach the device" (journal.py:3-4), as far as it is true: when*)
(* a partition changes, the journal on disk holds an unanswered intent     *)
(* that names that partition and its backup; unless an earlier process     *)
(* died inside an append and left the journal damaged.                     *)
Announced ==
  \A p \in Partitions : device'[p] # device[p] =>
    \/ Damaged(log)
    \/ \E l \in Unfinished(log) : Concerns(l, p) /\ l.bak \in Backups

IntentBeforeBytes == [][Announced]_vars

(* The same without the exception, which is how journal.py puts it. *)
IntentAlwaysBeforeBytes ==
  [][\A p \in Partitions : device'[p] # device[p] =>
       \E l \in Unfinished(log) : Concerns(l, p)]_vars

(* The journal explains the device.  A partition no operation names holds  *)
(* what it held at the start.  If the last operation on it is recorded as  *)
(* done, the partition carries every byte of the image that was to be      *)
(* written; as rolled back, every byte of the backup.  This relates what   *)
(* write() concludes from one read-back, which may be truncated or noisy,  *)
(* to what the device really holds at any later time.  An erase is exempt: *)
(* it is never read back.                                                  *)
JournalExplainsDevice ==
  Damaged(log) \/ \A p \in Partitions :
    /\ (\A i \in DOMAIN log : ~Concerns(log[i], p)) => device[p] = Factory[p]
    /\ \A i, j \in DOMAIN log : LatestFor(p, i) /\ Answers(log, j, i) =>
         /\ log[j].state = "done" /\ log[i].op # "erase"
              => Carries(device[p], log[i].src)
         /\ log[j].state = "rolled_back" => Carries(device[p], log[i].bak)

(* A line that reached the disk whole stays as it is: no append, and no    *)
(* death inside one, changes an earlier record ("everything before it is   *)
(* still good", journal.py:102-103).                                       *)
AppendOnly ==
  \A i \in DOMAIN log : log[i].ended => i \in DOMAIN log' /\ log'[i] = log[i]

EarlierRecordsSurvive == [][AppendOnly]_vars

(* What the session makes sure of before intent l: a token that is not     *)
(* stale, an expert one for a CATASTROPHIC partition, a backup to go back  *)
(* to and, for a write, a verdict on some image for that very partition.   *)
(* Which image the verdict is about the session has no way to ask: that is *)
(* the callers' part.                                                      *)
Vouched(l) ==
  /\ token # NoToken /\ token.fresh
  /\ Classify(l.part, Overrides) = CATASTROPHIC => token.expert
  /\ l.bak \in Backups
  /\ l.op = "write" => Passes[l.part] # {}

(* No intent to write or erase reaches the journal but under that: whatever*)
(* tokens were issued before, by a preflight, a confirmed unlock or a      *)
(* rescue, however long ago and to whichever process, and whatever reports *)
(* on other partitions the caller holds.  Only the round trip of the       *)
(* preflight goes past it: it comes before there is a token.               *)
NewIntentsAreVouchedFor ==
  \A i \in DOMAIN log' \ DOMAIN log :
    IsIntent(log'[i]) /\ log'[i].op # "preflight_write_roundtrip"
      => Vouched(log'[i])

IntentsAreVouchedFor == [][NewIntentsAreVouchedFor]_vars

(* A byte changes only in a process that was not asked for a dry run, that *)
(* still holds a token, and on a CATASTROPHIC partition an expert one.  A  *)
(* token dies with its process, so no restart inherits it.                 *)
Authorised ==
  \A p \in Partitions : device'[p] # device[p] =>
    /\ ~dry
    /\ token # NoToken
    /\ Classify(p, Overrides) = CATASTROPHIC => token.expert

BytesNeedAuthority == [][Authorised]_vars

(* Every intent gets an answer: an operation under way ends with an outcome*)
(* on record, unless the process dies.                                     *)
EveryIntentAnswered ==
  \A n \in 1 .. MaxOps :
    (stage # "down" /\ cur # NoEntry /\ cur.id = n)
      ~> (stage = "down" \/ \E j \in DOMAIN log : log[j] \in OutcomeLine
                                                  /\ log[j].id = n)

-----------------------------------------------------------------------------
(* Refinement: a partition is open while its last operation is unanswered, *)
(* suspect when that failed, and settled otherwise.                        *)
AnswersTo(i) == {log[j].state : j \in {k \in DOMAIN log : Answers(log, k, i)}}

Mark(p) ==
  IF \E i \in DOMAIN log : LatestFor(p, i) /\ AnswersTo(i) = {} THEN "open"
  ELSE IF \E i \in DOMAIN log : LatestFor(p, i) /\ "failed" \in AnswersTo(i)
       THEN "suspect"
  ELSE "settled"

(* The images the last operation on p named: an erase promises nothing. *)
Aims(p) ==
  Image \cap UNION {{log[i].src, log[i].bak} : i \in
           {k \in DOMAIN log : LatestFor(p, k) /\ log[k].op # "erase"}}

Promise == INSTANCE WriteAhead WITH
  held <- device,
  mark <- [p \in Partitions |-> Mark(p)],
  aims <- [p \in Partitions |-> Aims(p)]

(* The session implements the write-ahead promise, as long as no append is *)
(* ever cut short.                                                         *)
ImplementsPromise == Promise!Spec

-----------------------------------------------------------------------------
(* Statements of the documentation that the code does not keep. *)

(* "journal clean: a previous run may have left a partition half-written"  *)
(* (SAFETY.md:35): a clean journal is to mean that none is.  A partition   *)
(* is whole when it holds what it held at first, or carries every byte of  *)
(* some image or backup.                                                   *)
Whole(p) ==
  device[p] = Factory[p] \/ \E img \in Sources \cup Backups : Carries(device[p], img)

CleanMeansWhole ==
  stage = "idle" /\ IsClean(log) => \A p \in Partitions : Whole(p)

(* "Resolve the items above and run it again" (preflight.py:59): once an   *)
(* interrupted partition was written again and verified, nothing about it  *)
(* is unfinished.                                                          *)
RestoredIsResolved ==
  ~Damaged(log) /\ stage = "idle" =>
    \A l \in Unfinished(log) : ~\E i, j \in DOMAIN log :
      /\ LatestFor(l.part, i) /\ log[i].id > l.id
      /\ Answers(log, j, i) /\ log[j].state \in {"done", "rolled_back"}

=============================================================================
