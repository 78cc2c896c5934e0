------------------------------ MODULE Rooting ------------------------------
(***************************************************************************)
(* Rooting, unrooting and rescue (boox/ops/root.py, rescue.py, cli.py)     *)
(* over the backups of a workspace (boox/safety/backup.py).                *)
(*                                                                         *)
(* One process at a time runs one command.  Between two commands, and      *)
(* between the steps of one, Android updates itself into the other slot,   *)
(* the owner patches files in Magisk, and the process may die.  What a     *)
(* command knew when it ended is in the workspace: the backups, the stock  *)
(* firmware, the journal and the plan that prepare leaves to apply.        *)
(*                                                                         *)
(* Of the device only the partition that carries the ramdisk is modelled,  *)
(* once for each slot.  A write is one step here: DeviceSession is what    *)
(* happens inside it.                                                      *)
(***************************************************************************)
EXTENDS Naturals, Sequences, Functions

CONSTANTS
  Builds,     \* firmware builds for this device, oldest first
  Files,      \* the image files the owner may hand to apply
  Releases,   \* the stock firmware the owner may fetch
  Foreign,    \* the kernel of another model
  Spoilt,     \* a kernel half overwritten
  None,       \* no image, no build, no backup, no plan
  Torn,       \* a plan or a firmware manifest that does not decode
  MaxBackups  \* bound: backup directories

ASSUME RootingAssumption ==
  /\ Builds \subseteq Nat
  /\ {Foreign, Spoilt, None, Torn} \cap Builds = {}
  /\ Foreign # Spoilt /\ None # Torn
  /\ MaxBackups \in Nat

AB == {"a", "b"}
Other(s) == IF s = "a" THEN "b" ELSE "a"

(* A boot image: its kernel, which tells its build, and its ramdisk. *)
Image == [kernel : Builds \cup {Foreign, Spoilt},
          ramdisk : {"stock", "patched", "torn"}]

Stock(b) == [kernel |-> b, ramdisk |-> "stock"]

ASSUME FilesAssumption ==
  Files \subseteq Image /\ Releases \subseteq Builds \cup {Foreign}

(* Images of some of the slots. *)
Pictures == UNION {[S -> Image] : S \in SUBSET AB}

(* An image of another model is not taken to start. *)
Bootable(img) == img.kernel \notin {Foreign, Spoilt} /\ img.ramdisk # "torn"

VARIABLES
  flash,    \* the image in each slot
  up,       \* the slot Android runs from, or "edl"
  boots,    \* the slot the next start will take
  backups,  \* the backup directories that have a manifest, oldest first
  newest,   \* which of them was touched last
  golden,   \* the stock firmware in the workspace: a build, or another model's
  plan,     \* root-state.json
  clean,    \* the journal has no unfinished operation
  at,       \* where the process is
  job       \* what the command under way knows

rvars == <<flash, up, boots, backups, newest, golden, plan, clean, at, job>>

device    == <<flash, up, boots>>
workspace == <<backups, newest, golden, plan, clean>>

(* A backup directory: the images that its manifest names, as its files    *)
(* hold them, and whether they have the sums the manifest says.  A manifest*)
(* that does not decode names none.                                        *)
Backup == [state : {"intact", "altered", "torn"}, images : Pictures]

(* Backup.load, and Backup.require_intact. *)
Loads(b)  == b.state # "torn"
Intact(b) == b.state = "intact"

Plan   == [slot : AB, backup : 1 .. MaxBackups]

ASSUME PlanAssumption == {None, Torn} \cap Plan = {}

NoJob == [kind |-> "none"]

RTypeOK ==
  /\ flash \in [AB -> Image]
  /\ up \in AB \cup {"edl"} /\ boots \in AB
  /\ backups \in Seq(Backup)
  /\ newest \in 0 .. Len(backups)
  /\ golden \in Builds \cup {Foreign, None, Torn}
  /\ plan \in Plan \cup {None, Torn}
  /\ clean \in BOOLEAN
  /\ at \in {"none", "backing", "staging", "planning", "writing", "slotless"}

RInit ==
  /\ \E b \in Builds : flash = [s \in AB |-> Stock(b)]
  /\ up = "a" /\ boots = "a"
  /\ backups = <<>> /\ newest = 0 /\ golden = None /\ plan = None
  /\ clean = TRUE
  /\ at = "none" /\ job = NoJob

-----------------------------------------------------------------------------
(* The workspace and the verifier. *)

(* A slip: a torn manifest is not noticed. *)
LatestSlip == IF backups = <<>> THEN None ELSE newest

(* Backup.latest, as latest_backup() hands it on: of the directories with a*)
(* manifest the one touched last; none if that manifest does not decode.   *)
Latest == IF backups = <<>> \/ ~Loads(backups[newest]) THEN None ELSE newest

(* What a partial function holds for s, as a set. *)
At(images, s) == IF s \in DOMAIN images THEN {images[s]} ELSE {}

(* The image in the stock firmware, which knows base names only and is not *)
(* asked for its model.                                                    *)
Firmware == IF golden \in Builds \cup {Foreign} THEN {Stock(golden)} ELSE {}

(* The trusted images for a slot: in the latest backup, whose sums nobody  *)
(* looks at here, and in the stock firmware.                               *)
References(s) ==
  (IF Latest = None THEN {} ELSE At(backups[Latest].images, s)) \cup Firmware

(* A slip: provenance is not asked for. *)
VerifiedSlip(img, refs) == img.ramdisk # "stock" /\ \E r \in refs : r # img

(* verify_candidate with require_root_patch: the kernel is one of the      *)
(* references', the ramdisk is not a stock one, and some reference differs.*)
(* A ramdisk that cannot be decoded is a warning only.                     *)
Verified(img, refs) ==
  /\ \E r \in refs : r.kernel = img.kernel
  /\ img.ramdisk # "stock"
  /\ \E r \in refs : r.ramdisk # img.ramdisk \/ r.kernel # img.kernel

(* What a write that stopped half way may leave: the kernel comes first. *)
Half(old, new) ==
  {old, new} \cup
  [kernel : {new.kernel} \cup (IF old.kernel = new.kernel THEN {} ELSE {Spoilt}),
   ramdisk : {"torn"}]

-----------------------------------------------------------------------------
(* Starting and ending a command. *)

(* The process ends. *)
End == at' = "none" /\ job' = NoJob

(* The device starts from the slot it is told to; if that slot does not    *)
(* start, the owner is left with EDL.                                      *)
Restart ==
  /\ up' = IF Bootable(flash[boots]) THEN boots ELSE "edl"
  /\ UNCHANGED <<flash, boots>>

EnterEdl == up' = "edl" /\ UNCHANGED <<flash, boots>>

InAndroid == up # "edl"

-----------------------------------------------------------------------------
(* boox backup and boox root prepare. *)

(* A directory that is not there yet: the workspace names it. *)
NewDir == Len(backups) + 1

(* boox backup, of all partitions or of some, into a new directory or,     *)
(* with --dest, into one that holds a backup.                              *)
BackupBegin(slots, to) ==
  /\ at = "none"
  /\ EnterEdl
  /\ at' = "backing"
  /\ job' = [kind |-> "backup", slots |-> slots, to |-> to]
  /\ UNCHANGED workspace

(* boox root prepare: the slot is what Android runs from at this moment. *)
PrepareBegin ==
  /\ at = "none" /\ InAndroid
  /\ EnterEdl
  /\ at' = "backing"
  /\ job' = [kind |-> "prepare", slots |-> AB, to |-> NewDir, slot |-> up]
  /\ UNCHANGED workspace

(* A slip: nobody looks whether there is a backup to reuse. *)
PrepareReuseUnchecked ==
  /\ at = "none" /\ InAndroid
  /\ EnterEdl
  /\ at' = "staging"
  /\ job' = [kind |-> "prepare", slot |-> up, backup |-> Latest]
  /\ UNCHANGED workspace

(* boox root prepare --skip-backup *)
PrepareReuse ==
  /\ at = "none" /\ InAndroid
  /\ Latest # None
  /\ EnterEdl
  /\ at' = "staging"
  /\ job' = [kind |-> "prepare", slot |-> up, backup |-> Latest]
  /\ UNCHANGED workspace

(* There is no backup that latest_backup() can load. *)
PrepareReuseRefused ==
  /\ at = "none" /\ InAndroid
  /\ Latest = None
  /\ EnterEdl
  /\ UNCHANGED <<workspace, at, job>>

Snapshot == [s \in job.slots |-> flash[s]]

(* The directory job.to holds backup b and was touched last. *)
Put(b) ==
  /\ job.to <= MaxBackups
  /\ backups' = IF job.to = NewDir THEN Append(backups, b)
                ELSE [backups EXCEPT ![job.to] = b]
  /\ newest' = job.to

(* What the command does once its backup is made. *)
BackedUp ==
  IF job.kind = "backup" THEN End
  ELSE /\ at' = "staging"
       /\ job' = [kind |-> "prepare", slot |-> job.slot, backup |-> job.to]

(* A slip: every backup goes to the same directory. *)
CreateSlip ==
  /\ at = "backing"
  /\ backups' = <<[state |-> "intact", images |-> Snapshot]>>
  /\ newest' = 1
  /\ BackedUp
  /\ UNCHANGED <<device, golden, plan, clean>>

(* backup.create: every partition twice, then the manifest, which names    *)
(* these partitions and no other; until a directory has one it is not a    *)
(* backup to anybody.                                                      *)
Create ==
  /\ at = "backing"
  /\ Put([state |-> "intact", images |-> Snapshot])
  /\ BackedUp
  /\ UNCHANGED <<device, golden, plan, clean>>

(* The process dies while it writes the manifest, which names no image. *)
CreateTorn ==
  /\ at = "backing"
  /\ Put([state |-> "torn", images |-> <<>>])
  /\ End
  /\ UNCHANGED <<device, golden, plan, clean>>

(* What replacing images may do to backup b: its manifest still has the    *)
(* sums of the old.  Where these did not match before they may match again.*)
Altered(b, images) ==
  IF images = b.images THEN {b}
  ELSE [state : IF Intact(b) THEN {"altered"} ELSE {"altered", "intact"},
        images : {images}]

(* It dies, or a read does not repeat, when some images were replaced.     *)
CreateStops ==
  /\ at = "backing" /\ job.to \in DOMAIN backups
  /\ LET old == backups[job.to] IN
       \E replaced \in SUBSET (job.slots \cap DOMAIN old.images) :
         \E b \in Altered(old, [s \in DOMAIN old.images |->
                               IF s \in replaced THEN flash[s] ELSE old.images[s]]) : Put(b)
  /\ End
  /\ UNCHANGED <<device, golden, plan, clean>>

(* The tablet is restarted, into whatever slot is next, and the stock      *)
(* image pushed to it.  What Magisk or the owner make of that is not       *)
(* remembered: apply is offered any file.                                  *)
Stage ==
  /\ at = "staging"
  /\ Restart
  /\ IF up' = "edl" THEN End ELSE at' = "planning" /\ UNCHANGED job
  /\ UNCHANGED workspace

(* A death in the writing of the plan leaves half of it. *)
WritePlan ==
  /\ at = "planning"
  /\ plan' \in {[slot |-> job.slot, backup |-> job.backup], Torn}
  /\ End
  /\ UNCHANGED <<device, backups, newest, golden, clean>>

-----------------------------------------------------------------------------
(* boox root apply *)

(* A command that is going to write each slot of left, in that order, the  *)
(* image images has for it, with the copy in baks to roll back to.  safe is*)
(* history: could both slots start when it began?                          *)
Writing(kind, left, images, baks) ==
  /\ at' = "writing"
  /\ job' = [kind |-> kind, left |-> left, done |-> {},
             images |-> images, baks |-> baks,
             safe |-> \A s \in AB : Bootable(flash[s])]

(* The refusals, the verification against the latest backup and the stock  *)
(* firmware, and preflight, which may fail for many reasons and does so    *)
(* when the journal has an unfinished operation.  A firmware manifest that *)
(* does not decode ends the process: GoldenFirmware.load raises an error   *)
(* that golden() does not expect.  img is the one patched file on the      *)
(* tablet, or the one --patched names.                                     *)
ApplyBegin(img, both) ==
  /\ at = "none" /\ plan \in Plan
  /\ clean /\ golden # Torn
  /\ Intact(backups[plan.backup])
  /\ Verified(img, References(plan.slot))
  /\ EnterEdl
  /\ Writing("apply",
             IF both THEN <<plan.slot, Other(plan.slot)>> ELSE <<plan.slot>>,
             [s \in AB |-> img], backups[plan.backup].images)
  /\ UNCHANGED workspace

(* Refused, for any reason, once the device was sent to EDL.  (Before that,*)
(* and without a plan that can be read, nothing changes at all.)           *)
ApplyRefused ==
  /\ at = "none" /\ plan \in Plan
  /\ EnterEdl
  /\ UNCHANGED <<workspace, at, job>>

(* The process dies in the write test of preflight, of apply or of doctor. *)
PreflightDies ==
  /\ at = "none" /\ clean
  /\ EnterEdl
  /\ clean' = FALSE
  /\ UNCHANGED <<backups, newest, golden, plan, at, job>>

-----------------------------------------------------------------------------
(* boox unroot and boox rescue restore *)

(* Where restore takes images from: a backup that is intact, or the        *)
(* firmware, whose model and sums nobody looks at.                         *)
FromNamed  == {b.images : b \in {c \in Range(backups) : Intact(c)}}
FromLatest ==
  IF Latest = None THEN {}
  ELSE {b.images : b \in {c \in {backups[Latest]} : Intact(c)}}
FromGolden == {[s \in AB |-> img] : img \in Firmware}

(* rescue.restore for these slots, from a source that has a copy of each.  *)
(* The image is its own backup and its own reference, so that only a file  *)
(* that is no boot image at all is refused.  The token asks whether there  *)
(* is stock firmware, which ends the process if its manifest is torn.      *)
Restore(kind, slots, sources) ==
  /\ golden # Torn
  /\ \E images \in sources :
       /\ Range(slots) \subseteq DOMAIN images
       /\ Writing(kind, slots, images, images)

(* boox unroot --slot s; there is no way to name a backup. *)
Unroot(s) ==
  /\ at = "none"
  /\ EnterEdl
  /\ Restore("unroot", <<s>>, FromLatest \cup FromGolden)
  /\ UNCHANGED workspace

(* boox unroot: the slot is asked of adb, after the device was sent to EDL,*)
(* when there is no adb to ask; the command says so and stops.             *)
UnrootUnslotted ==
  /\ at = "none"
  /\ EnterEdl
  /\ at' = "slotless"
  /\ UNCHANGED <<workspace, job>>

(* boox rescue restore: of one slot or both, from any backup or firmware. *)
Rescue(slots) ==
  /\ at = "none" /\ up = "edl"
  /\ Restore("rescue", slots, FromNamed \cup FromGolden)
  /\ UNCHANGED <<device, workspace>>

-----------------------------------------------------------------------------
(* The writes of a command, one slot after the other. *)

Target == Head(job.left)

(* root.py verifies the first target before preflight, the second now. *)
Fits ==
  job.kind = "apply" /\ Target # plan.slot =>
    LET refs == References(Target)
    IN  Verified(job.images[Target],
                 IF refs = {} THEN References(plan.slot) ELSE refs)

CanWrite == at = "writing" /\ job.left # <<>> /\ Fits /\ Target \in DOMAIN job.baks

Write ==
  /\ CanWrite
  /\ flash' = [flash EXCEPT ![Target] = job.images[Target]]
  /\ job' = [job EXCEPT !.left = Tail(@), !.done = @ \cup {Target}]
  /\ UNCHANGED <<up, boots, workspace, at>>

(* What a failed write leaves: as it was, written, half written, rolled    *)
(* back or half rolled back.                                               *)
Leave ==
  \E img \in Half(flash[Target], job.images[Target])
             \cup Half(flash[Target], job.baks[Target]) :
    flash' = [flash EXCEPT ![Target] = img]

(* A slip: the command goes on with its next slot. *)
WriteFailsSlip ==
  /\ CanWrite
  /\ Leave
  /\ job' = [job EXCEPT !.left = Tail(@)]
  /\ UNCHANGED <<up, boots, workspace, at>>

(* write() raised, and the journal has the outcome. *)
WriteFails ==
  /\ CanWrite
  /\ Leave
  /\ End
  /\ UNCHANGED <<up, boots, workspace>>

(* The process dies in it, and leaves an unfinished operation. *)
WriteDies ==
  /\ CanWrite
  /\ Leave
  /\ clean' = FALSE
  /\ End
  /\ UNCHANGED <<up, boots, backups, newest, golden, plan>>

(* A rescue leaves the device in EDL; apply forgets the plan. *)
Finish ==
  /\ at = "writing" /\ job.left = <<>>
  /\ IF job.kind = "rescue" THEN UNCHANGED device ELSE Restart
  /\ plan' = IF job.kind = "apply" THEN None ELSE plan
  /\ End
  /\ UNCHANGED <<backups, newest, golden, clean>>

(* The process dies, or an error ends it, between its steps: a second image*)
(* that does not fit, no backup of the target, a token that expired, a read*)
(* that did not repeat.                                                    *)
Stops ==
  /\ at # "none"
  /\ End
  /\ UNCHANGED <<device, workspace>>

-----------------------------------------------------------------------------
(* Android and the owner. *)

(* A full update goes to the slot that does not run, and is next to start. *)
Update ==
  /\ InAndroid /\ boots = up
  /\ \E b \in {c \in Builds : c > flash[up].kernel} :
       flash' = [flash EXCEPT ![Other(up)] = Stock(b)]
  /\ boots' = Other(up)
  /\ UNCHANGED <<up, workspace, at, job>>

OwnerRestarts ==
  /\ at = "none"
  /\ Restart
  /\ UNCHANGED <<workspace, at, job>>

(* boox firmware fetch, as a whole: of any release, with --model or --upx  *)
(* also of another model, and a death may leave half a manifest.           *)
FetchFirmware ==
  /\ at = "none"
  /\ golden' \in Releases \cup {Torn}
  /\ UNCHANGED <<device, backups, newest, plan, clean, at, job>>

-----------------------------------------------------------------------------
RNext ==
  \/ \E slots \in (SUBSET AB) \ {{}}, to \in 1 .. NewDir : BackupBegin(slots, to)
  \/ PrepareBegin \/ PrepareReuse \/ PrepareReuseRefused
  \/ Create \/ CreateTorn \/ CreateStops \/ Stage \/ WritePlan
  \/ \E img \in Files, both \in BOOLEAN : ApplyBegin(img, both)
  \/ ApplyRefused \/ PreflightDies
  \/ \E s \in AB : Unroot(s)
  \/ UnrootUnslotted
  \/ \E slots \in {<<"a">>, <<"b">>, <<"a", "b">>} : Rescue(slots)
  \/ Write \/ WriteFails \/ WriteDies
  \/ Finish \/ Stops
  \/ Update \/ OwnerRestarts \/ FetchFirmware

RSpec == RInit /\ [][RNext]_rvars
=============================================================================
