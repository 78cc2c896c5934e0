------------------------------- MODULE Unlock -------------------------------
(***************************************************************************)
(* Replacing the bootloader and putting it back, with more than one tablet *)
(* on the desk (boox/ops/unlock.py, rescue.py, safety/backup.py, and the   *)
(* identity a session keeps, safety/session.py).                           *)
(*                                                                         *)
(* unlock writes a foreign bootloader to the slots asked for, then an FRP  *)
(* blob, then erases devinfo.  Each of these may be refused or fail after  *)
(* the ones before it were done.  What stands behind them is the latest    *)
(* backup, of the tablet whose identity it carries.                        *)
(*                                                                         *)
(* A write is one step here: DeviceSession is what happens inside it, and  *)
(* Preflight is what happens before the token.                             *)
(***************************************************************************)
EXTENDS Identity

CONSTANTS
  Tablets,      \* of one model; also what a partition holds from the factory
  Reports,      \* Reports[t]: the identities EDL tools may print for t
  Plans,        \* the unlock commands considered, see Plan
  Coverages,    \* the sets of partitions a backup is taken of
  Orders,       \* the partitions a rescue is asked for, in order
  SwapsMidway,  \* may the owner plug in another tablet during a command?
  None,         \* no command
  MaxBackups,   \* bound: backup directories
  MaxCommands   \* bound: unlocks and rescues ever begun

Parts == {"abl_a", "abl_b", "frp", "devinfo"}

Identities == [hwid : STRING \cup {Unknown}, jtag_id : STRING \cup {Unknown},
               serial : STRING \cup {Unknown}, pbl_hash : Seq(STRING)]

(* frp: no image, a proper one, or one that is all zeroes. *)
Plan == [slots : Seq({"a", "b"}) \ {<<>>}, frp : {"none", "blob", "blank"},
         erase : BOOLEAN]

ASSUME UnlockAssumption ==
  /\ {"foreign", "blob", "blank", "spoilt"} \cap Tablets = {}
  /\ Reports \in [Tablets -> (SUBSET Identities) \ {{}}]
  /\ Plans \subseteq Plan
  /\ Coverages \subseteq SUBSET Parts
  /\ Orders \subseteq Seq(Parts)
  /\ SwapsMidway \in BOOLEAN
  /\ MaxBackups \in Nat /\ MaxCommands \in Nat

(* A tablet's name stands for its own stock bytes. *)
Content == Tablets \cup {"foreign", "blob", "blank", "spoilt"}

VARIABLES
  attached,  \* the tablet on the cable
  flash,     \* flash[t][p]: what partition p of tablet t holds
  mode,      \* mode[t]: "edl", or "left" once it was told to restart
  backups,   \* the backup directories of the workspace
  newest,    \* which of them was touched last
  clean,     \* the journal has no unfinished operation
  at,        \* where the process is
  job,       \* the command under way
  begun,     \* how many commands were begun
  unsure     \* history: a command began without comparing serial numbers

uvars == <<attached, flash, mode, backups, newest, clean, at, job, begun, unsure>>

world == <<attached, mode, backups, newest, begun, unsure>>

Step == [op : {"write", "erase"}, part : Parts, image : Content]

(* What the manifest says: the identity, and the images by their sums.     *)
(* whole: the files match it; of is history, the tablet they were read of. *)
Backup == [id : Identities, of : Tablets, whole : BOOLEAN,
           images : UNION {[S -> Content] : S \in SUBSET Parts}]

(* seen is the identity the session keeps, and the token carries. *)
Job == [kind : {"unlock", "rescue"}, seen : Identities, backup : 1 .. MaxBackups,
        todo : Seq(Step), sent : UNION {[S -> Content] : S \in SUBSET Parts},
        fresh : BOOLEAN]

ASSUME NoCommandAssumption == None \notin Job

(* The shape of the state; a command is under way just when there is a job.*)
UTypeOK ==
  /\ attached \in Tablets
  /\ flash \in [Tablets -> [Parts -> Content]]
  /\ mode \in [Tablets -> {"edl", "left"}]
  /\ backups \in Seq(Backup) /\ Len(backups) <= MaxBackups
  /\ newest \in 0 .. Len(backups)
  /\ clean \in BOOLEAN
  /\ at \in {"none", "asking", "writing"}
  /\ job \in Job \cup {None}
  /\ at = "none" <=> job = None
  /\ begun \in 0 .. MaxCommands /\ unsure \in BOOLEAN

UInit ==
  /\ attached \in Tablets
  /\ flash = [t \in Tablets |-> [p \in Parts |-> t]]
  /\ mode = [t \in Tablets |-> "left"]
  /\ backups = <<>> /\ newest = 0 /\ clean = TRUE
  /\ at = "none" /\ job = None /\ begun = 0 /\ unsure = FALSE

-----------------------------------------------------------------------------
End == at' = "none" /\ job' = None

(* The one field that differs between tablets of a model (sahara.py:48-50).*)
SerialsKnown(n, id) == id.serial # Unknown /\ backups[n].id.serial # Unknown

(* Commands are begun one at a time. *)
Begin(command) ==
  /\ at = "none" /\ begun < MaxCommands
  /\ begun' = begun + 1
  /\ job' = command
  /\ unsure' = (unsure \/ ~SerialsKnown(command.backup, command.seen))
  /\ UNCHANGED <<attached, flash, backups, newest, clean>>

Slot(s) == IF s = "a" THEN "abl_a" ELSE "abl_b"

(* The steps of a plan, in the order unlock.run takes them. *)
Steps(plan) ==
  [i \in DOMAIN plan.slots |->
     [op |-> "write", part |-> Slot(plan.slots[i]), image |-> "foreign"]]
  \o (IF plan.frp = "none" THEN <<>>
      ELSE <<[op |-> "write", part |-> "frp", image |-> plan.frp]>>)
  \o (IF plan.erase
        THEN <<[op |-> "erase", part |-> "devinfo", image |-> "blank"]>> ELSE <<>>)

Targets(steps) == {steps[i].part : i \in DOMAIN steps}

(* A slip: files that were altered since are not noticed. *)
UsableSlip(n, id) == Mismatch(backups[n].id, id) = {}

(* require_intact and require_same_device. *)
Usable(n, id) == backups[n].whole /\ Mismatch(backups[n].id, id) = {}

-----------------------------------------------------------------------------
(* Directory n, a new one or one that holds a backup, holds backup b and   *)
(* was touched last.                                                       *)
Put(n, b) ==
  /\ backups' = IF n \in DOMAIN backups THEN [backups EXCEPT ![n] = b]
                ELSE Append(backups, b)
  /\ newest' = n

(* boox backup of the partitions S into directory n, which --dest may name:*)
(* whatever the tool was told of the tablet goes into the manifest, nothing*)
(* at all included.                                                        *)
TakeBackup(n, S, id) ==
  /\ at = "none" /\ n <= MaxBackups
  /\ S # {} /\ id \in Reports[attached]
  /\ Put(n, [id |-> id, of |-> attached, whole |-> TRUE,
             images |-> [p \in S |-> flash[attached][p]]])
  /\ \E m \in {"edl", "left"} : mode' = [mode EXCEPT ![attached] = m]  \* --reboot or not
  /\ UNCHANGED <<attached, flash, clean, at, job, begun, unsure>>

(* It dies, or a read does not repeat, before the manifest of a directory  *)
(* is replaced, or somebody alters its files: what matched the manifest may*)
(* not, and the other way round.                                           *)
FilesChange(n, whole) ==
  /\ at = "none"
  /\ Put(n, [backups[n] EXCEPT !.whole = whole])
  /\ mode' \in {mode, [mode EXCEPT ![attached] = "edl"]}
  /\ UNCHANGED <<attached, flash, clean, at, job, begun, unsure>>

(* unlock.run up to the phrase.  The latest backup covers what is written; *)
(* preflight insists on a clean journal and on being told an identity.     *)
UnlockBegin(plan, id) ==
  /\ id \in Reports[attached]
  /\ backups # <<>> /\ Usable(newest, id)
  /\ Targets(Steps(plan)) \subseteq DOMAIN backups[newest].images
  /\ clean /\ Known(id)
  /\ mode' = [mode EXCEPT ![attached] = "edl"]
  /\ at' = "asking"
  /\ Begin([kind |-> "unlock", seen |-> id, backup |-> newest,
            todo |-> Steps(plan), sent |-> <<>>, fresh |-> TRUE])

(* Refused for any reason once the tablet was sent to EDL; a death in the  *)
(* write test of preflight leaves an unfinished operation.                 *)
UnlockRefused ==
  /\ at = "none"
  /\ mode' = [mode EXCEPT ![attached] = "edl"]
  /\ clean' \in {clean, FALSE}
  /\ UNCHANGED <<attached, flash, backups, newest, at, job, begun, unsure>>

(* The phrase is typed, after any time. *)
Confirm ==
  /\ at = "asking"
  /\ at' = "writing"
  /\ UNCHANGED <<attached, flash, mode, backups, newest, clean, job, begun, unsure>>

(* rescue.restore of some partitions, in some order, from any backup.  It  *)
(* does not bring the tablet to EDL, and is content with an identity that  *)
(* says nothing.                                                           *)
RescueBegin(n, parts, id) ==
  /\ mode[attached] = "edl" /\ id \in Reports[attached]
  /\ n \in DOMAIN backups /\ Usable(n, id)
  /\ {parts[i] : i \in DOMAIN parts} \subseteq DOMAIN backups[n].images
  /\ at' = "writing" /\ UNCHANGED mode
  /\ Begin([kind |-> "rescue", seen |-> id, backup |-> n,
            todo |-> [i \in DOMAIN parts |->
              [op |-> "write", part |-> parts[i],
               image |-> backups[n].images[parts[i]]]],
            sent |-> <<>>, fresh |-> TRUE])

-----------------------------------------------------------------------------
(* The steps of a command, one after the other. *)

Now == Head(job.todo)

(* The verifier refuses an image that is all zeroes; it may take a spoilt  *)
(* one, whose damage it does not see.                                      *)
CanStep ==
  /\ at = "writing" /\ job.todo # <<>> /\ job.fresh
  /\ Now.op = "write" => Now.image # "blank"

(* The step is done: a write was read back, an erase said so. *)
Advance ==
  job' = [job EXCEPT !.todo = Tail(@),
            !.sent = IF Now.op = "erase" THEN @
                     ELSE [p \in DOMAIN @ \cup {Now.part} |->
                             IF p = Now.part THEN Now.image ELSE @[p]]]

Holds(c) == flash' = [flash EXCEPT ![attached][Now.part] = c]

Write ==
  /\ CanStep /\ Now.op = "write"
  /\ Holds(Now.image)
  /\ Advance
  /\ UNCHANGED <<world, clean, at>>

(* An erase is not read back. *)
Erase ==
  /\ CanStep /\ Now.op = "erase"
  /\ \E c \in {"blank", "spoilt"} : Holds(c)
  /\ Advance
  /\ UNCHANGED <<world, clean, at>>

(* As it was, all of it, part of it, or rolled back to the backup's copy. *)
Left ==
  {flash[attached][Now.part], Now.image, "spoilt"}
  \cup (IF Now.op = "erase" THEN {} ELSE {backups[job.backup].images[Now.part]})

(* A slip: the next step is taken all the same. *)
StepFailsSlip ==
  /\ CanStep
  /\ \E c \in Left : Holds(c)
  /\ Advance
  /\ UNCHANGED <<world, clean, at>>

StepFails ==
  /\ CanStep
  /\ \E c \in Left : Holds(c)
  /\ End
  /\ UNCHANGED <<world, clean>>

StepDies ==
  /\ CanStep
  /\ \E c \in Left : Holds(c)
  /\ clean' = FALSE
  /\ End
  /\ UNCHANGED world

(* The tablet is told to restart: by unlock always, by rescue if asked to. *)
Finish ==
  /\ at = "writing" /\ job.todo = <<>>
  /\ mode' = [mode EXCEPT ![attached] = "left"]
  /\ End
  /\ UNCHANGED <<attached, flash, backups, newest, clean, begun, unsure>>

(* The phrase was not typed, the verifier refuses the next image, the token*)
(* is an hour old, the process is killed between two steps, a rescue was   *)
(* not asked to restart the tablet.                                        *)
Stops ==
  /\ at # "none"
  /\ End
  /\ UNCHANGED <<world, flash, clean>>

TokenExpires ==
  /\ at # "none" /\ job.fresh
  /\ job' = [job EXCEPT !.fresh = FALSE]
  /\ UNCHANGED <<world, flash, clean, at>>

(* The owner plugs in a tablet. *)
Swap(t) ==
  /\ at = "none" \/ SwapsMidway
  /\ attached' = t
  /\ UNCHANGED <<flash, mode, backups, newest, clean, at, job, begun, unsure>>

(* The owner forces the tablet into EDL with its keys or a cable. *)
ForceEdl ==
  /\ at = "none"
  /\ mode' = [mode EXCEPT ![attached] = "edl"]
  /\ UNCHANGED <<attached, flash, backups, newest, clean, at, job, begun, unsure>>

-----------------------------------------------------------------------------
UNext ==
  \/ \E n \in 1 .. Len(backups) + 1, S \in Coverages :
       \E id \in Reports[attached] : TakeBackup(n, S, id)
  \/ \E n \in DOMAIN backups, whole \in BOOLEAN : FilesChange(n, whole)
  \/ \E plan \in Plans : \E id \in Reports[attached] : UnlockBegin(plan, id)
  \/ UnlockRefused \/ Confirm
  \/ \E n \in 1 .. MaxBackups, parts \in Orders :
       \E id \in Reports[attached] : RescueBegin(n, parts, id)
  \/ Write \/ Erase \/ StepFails \/ StepDies
  \/ Finish \/ Stops \/ TokenExpires
  \/ \E t \in Tablets : Swap(t)
  \/ ForceEdl

USpec == UInit /\ [][UNext]_uvars
=============================================================================
