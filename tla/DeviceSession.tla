--------------------------- MODULE DeviceSession ---------------------------
(***************************************************************************)
(* Guarded partition writes (boox/safety/session.py).                      *)
(*                                                                         *)
(* One process at a time runs the tool; it may die between any two steps   *)
(* and inside any step that takes time, and be started again.  What        *)
(* survives it is the device and the journal.  The steps of write() and    *)
(* erase() are the points between which a death leaves something           *)
(* different behind: intent on disk, bytes sent, read back, rolled back.   *)
(***************************************************************************)
EXTENDS Tiers, Images, Journal

CONSTANTS
  Partitions,  \* the partitions of the device: records of base and slot
  Overrides,   \* the profile's tier_overrides
  Factory,     \* what each partition holds before the tool first touches it
  Sources,     \* the image files a command may ask to write
  Passes,      \* the sources the verifier accepts, partition by partition
  Backups,     \* the images a backup may hold for a partition
  NoImage, NoEntry, NoToken,
  CanTear,     \* may a death cut a journal append short?
  MaxOps       \* bound: operations ever begun, over all processes

ASSUME SessionAssumption ==
  /\ Partitions \subseteq [base : STRING, slot : Slots]
  /\ Factory \in [Partitions -> Contents]
  /\ Sources \subseteq Image
  /\ Passes \in [Partitions -> SUBSET Sources]
  /\ Backups \subseteq Image
  /\ NoImage \notin Image
  /\ CanTear \in BOOLEAN
  /\ MaxOps \in Nat

VARIABLES
  device,  \* what each partition holds
  log,     \* the journal file
  ids,     \* how many operation ids were ever drawn: uuid4 never repeats
  stage,   \* where the process is
  cur,     \* the intent record of the operation under way
  dry,     \* the process was started with --dry-run
  token    \* the write token the process holds

vars == <<device, log, ids, stage, cur, dry, token>>

Stages == {"down", "idle", "begun", "written", "mismatch", "rewritten"}

Token == [proven : BOOLEAN, backup : BOOLEAN, ack : BOOLEAN,
          expert : BOOLEAN, fresh : BOOLEAN]

ASSUME TokenAssumption == NoToken \notin Token

Ops == {"write", "erase", "preflight_write_roundtrip"}

IntentLine ==
  [id : Nat, state : {"intent"}, ended : BOOLEAN, op : Ops, part : Partitions,
   src : Image, bak : Image \cup {NoImage}, dry : BOOLEAN]

OutcomeLine == [id : Nat, state : Outcomes, ended : BOOLEAN]

IllegibleLine == [id : {0}, state : {"illegible"}, ended : BOOLEAN]

Line == IntentLine \cup OutcomeLine \cup IllegibleLine

(* The shape of the state. *)
TypeOK ==
  /\ device \in [Partitions -> Contents]
  /\ log \in Seq(Line)
  /\ ids \in Nat
  /\ stage \in Stages
  /\ cur \in IntentLine \cup {NoEntry}
  /\ dry \in BOOLEAN
  /\ token \in Token \cup {NoToken}

Init ==
  /\ device = Factory
  /\ log = <<>>
  /\ ids = 0
  /\ stage = "down"
  /\ cur = NoEntry
  /\ dry = FALSE
  /\ token = NoToken

-----------------------------------------------------------------------------
(* Write tokens. *)

CheckUsable(t) == t.fresh /\ t.proven /\ t.backup

(* A slip: the expert gate is forgotten. *)
AuthorizeSlip(t, tier) ==
  CheckUsable(t) /\ (tier = DANGEROUS => t.ack \/ t.expert)

Authorize(t, tier) ==
  /\ CheckUsable(t)
  /\ tier = DANGEROUS => t.ack \/ t.expert
  /\ tier = CATASTROPHIC => t.expert

(* The verifier's report on an image for a target.  It names the target,   *)
(* and carries neither the image nor its digest.                           *)
Report(img, target) == [ok |-> img \in Passes[target], target |-> target]

-----------------------------------------------------------------------------
(* One journal append, as the last thing a step does.  Either it returns   *)
(* and the process goes on, or the process dies inside it.                 *)

Dead == stage' = "down" /\ cur' = NoEntry /\ token' = NoToken

(* A slip: the line stays in a buffer. *)
RecordSlip(line, next, entry) ==
  log' = log /\ stage' = next /\ cur' = entry /\ UNCHANGED token

Record(line, next, entry) ==
  \/ /\ log' = AppendLine(log, line)
     /\ stage' = next
     /\ cur' = entry
     /\ UNCHANGED token
  \/ /\ CanTear
     /\ log' \in TornAppends(log, line)
     /\ Dead

Intent(op, p, src, bak) ==
  [id |-> ids + 1, state |-> "intent", ended |-> TRUE, op |-> op, part |-> p,
   src |-> src, bak |-> bak, dry |-> dry]

Begin(op, p, src, bak) ==
  /\ ids < MaxOps
  /\ ids' = ids + 1
  /\ LET entry == Intent(op, p, src, bak) IN Record(entry, "begun", entry)
  /\ UNCHANGED <<device, dry>>

Finish(state) == Record(Outcome(cur.id, state), "idle", NoEntry)

(* The device's partition p takes one of the contents in the set. *)
Touch(p, contents) ==
  \E c \in contents : device' = [device EXCEPT ![p] = c]

-----------------------------------------------------------------------------
(* The process and its surroundings. *)

Start ==
  /\ stage = "down"
  /\ stage' = "idle"
  /\ dry' \in BOOLEAN
  /\ UNCHANGED <<device, log, ids, cur, token>>

(* A token issued by a passed preflight, by the unlock command after its   *)
(* phrase was typed, or by rescue.  An expert token is one of the last two.*)
GrantToken ==
  /\ stage = "idle" /\ ~dry
  /\ token' \in [proven : {TRUE}, backup : {TRUE}, ack : {FALSE},
                 expert : BOOLEAN, fresh : {TRUE}]
  /\ UNCHANGED <<device, log, ids, stage, cur, dry>>

(* Rescue issues its token without a preflight, so in a dry run too. *)
GrantRescueToken ==
  /\ stage = "idle"
  /\ token' = [proven |-> TRUE, backup |-> TRUE, ack |-> FALSE,
               expert |-> TRUE, fresh |-> TRUE]
  /\ UNCHANGED <<device, log, ids, stage, cur, dry>>

(* An hour passes. *)
TokenExpires ==
  /\ token # NoToken
  /\ token' = [token EXCEPT !.fresh = FALSE]
  /\ UNCHANGED <<device, log, ids, stage, cur, dry>>

(* The process exits, or is killed, outside a journal append.  A transfer  *)
(* under way stops where it is.                                            *)
Die ==
  /\ stage # "down"
  /\ IF stage = "begun" /\ ~dry
       THEN Touch(cur.part, Interrupted(device[cur.part], cur.src))
     ELSE IF stage = "mismatch"
       THEN Touch(cur.part, Interrupted(device[cur.part], cur.bak))
     ELSE UNCHANGED device
  /\ Dead
  /\ UNCHANGED <<log, ids, dry>>

-----------------------------------------------------------------------------
(* A slip: any report that passed will do. *)
BeginWriteSlip(p, src, bak, report) ==
  /\ stage = "idle" /\ token # NoToken
  /\ Authorize(token, Classify(p, Overrides))
  /\ report.ok
  /\ bak # NoImage
  /\ Begin("write", p, src, bak)

(* DeviceSession.write: the refusals, then the intent record. *)
BeginWrite(p, src, bak, report) ==
  /\ stage = "idle" /\ token # NoToken
  /\ Authorize(token, Classify(p, Overrides))
  /\ report.ok
  /\ report.target = p
  /\ bak # NoImage
  /\ Begin("write", p, src, bak)

(* DeviceSession.erase: no verifier report, no source. *)
BeginErase(p, bak) ==
  /\ stage = "idle" /\ token # NoToken
  /\ Authorize(token, Classify(p, Overrides))
  /\ bak # NoImage
  /\ Begin("erase", p, Blank, bak)

(* A dry run stops after the intent, and says done. *)
DryRunDone ==
  /\ stage = "begun" /\ cur.dry
  /\ Finish("done")
  /\ UNCHANGED <<device, ids, dry>>

BackendWrite ==
  /\ stage = "begun" /\ ~cur.dry /\ cur.op = "write"
  /\ Touch(cur.part, Landed(device[cur.part], cur.src))
  /\ stage' = "written"
  /\ UNCHANGED <<log, ids, cur, dry, token>>

(* The backend raised: no rollback, the operation is recorded as failed. *)
BackendRaises ==
  /\ stage = "begun" /\ ~cur.dry
  /\ Touch(cur.part, Interrupted(device[cur.part], cur.src))
  /\ Finish("failed")
  /\ UNCHANGED <<ids, dry>>

(* An erase that returned is done; nothing is read back. *)
BackendErase ==
  /\ stage = "begun" /\ ~cur.dry /\ cur.op = "erase"
  /\ Touch(cur.part, Landed(device[cur.part], cur.src))
  /\ Finish("done")
  /\ UNCHANGED <<ids, dry>>

ReadBackMatches ==
  /\ stage = "written"
  /\ \E got \in ReadsOf(device[cur.part]) : Matches(got, cur.src)
  /\ Finish("done")
  /\ UNCHANGED <<device, ids, dry>>

ReadBackDiffers ==
  /\ stage = "written"
  /\ \E got \in ReadsOf(device[cur.part]) : ~Matches(got, cur.src)
  /\ stage' = "mismatch"
  /\ UNCHANGED <<device, log, ids, cur, dry, token>>

(* A slip: the exception passes without a record. *)
ReadBackRaisesSlip ==
  /\ stage = "written"
  /\ stage' = "idle" /\ cur' = NoEntry
  /\ UNCHANGED <<device, log, ids, dry, token>>

ReadBackRaises ==
  /\ stage = "written"
  /\ Finish("failed")
  /\ UNCHANGED <<device, ids, dry>>

(* _rollback: write the backup, read it back, record what happened. *)
RollbackWrite ==
  /\ stage = "mismatch"
  /\ Touch(cur.part, Landed(device[cur.part], cur.bak))
  /\ stage' = "rewritten"
  /\ UNCHANGED <<log, ids, cur, dry, token>>

RollbackWriteRaises ==
  /\ stage = "mismatch"
  /\ Touch(cur.part, Interrupted(device[cur.part], cur.bak))
  /\ Finish("failed")
  /\ UNCHANGED <<ids, dry>>

RollbackVerified ==
  /\ stage = "rewritten"
  /\ \E got \in ReadsOf(device[cur.part]) : Matches(got, cur.bak)
  /\ Finish("rolled_back")
  /\ UNCHANGED <<device, ids, dry>>

RollbackUnverified ==
  /\ stage = "rewritten"
  /\ Finish("failed")
  /\ UNCHANGED <<device, ids, dry>>

-----------------------------------------------------------------------------
(* What a command asks for.  The report it hands in may have been made on  *)
(* any image: on another file, or on this one before it changed.           *)
Request ==
  \E p \in Partitions, bak \in Backups \cup {NoImage} :
    \/ BeginErase(p, bak)
    \/ \E src, seen \in Sources, target \in Partitions :
         BeginWrite(p, src, bak, Report(seen, target))

(* What the process does on its own once an intent is on disk. *)
Progress ==
  \/ DryRunDone
  \/ BackendWrite \/ BackendRaises \/ BackendErase
  \/ ReadBackMatches \/ ReadBackDiffers \/ ReadBackRaises
  \/ RollbackWrite \/ RollbackWriteRaises
  \/ RollbackVerified \/ RollbackUnverified

Surroundings == Start \/ GrantToken \/ GrantRescueToken \/ TokenExpires \/ Die

Next == Request \/ Progress \/ Surroundings

Spec == Init /\ [][Next]_vars

(* The program is sequential and every call of a backend has a timeout, so *)
(* a step it can take is taken, unless the process dies first.             *)
FairSpec == Spec /\ WF_vars(Progress)
=============================================================================
