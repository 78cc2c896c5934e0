--------------------------- MODULE Unlock_proofs ---------------------------
(***************************************************************************)
(* Replacing and putting back the bootloaders of any number of tablets of  *)
(* one model, whatever the EDL tools say of them, with steps that fail and *)
(* commands that end anywhere.                                             *)
(***************************************************************************)
EXTENDS UnlockProps, SequenceTheorems, TLAPS

(* What is no tablet's own: it may be found on any of them. *)
Junk == {"foreign", "blob", "blank", "spoilt"}

Pictures == UNION {[S -> Content] : S \in SUBSET Parts}

(* No other tablet is in these images. *)
Of(t, images) == \A p \in DOMAIN images : images[p] \in {t} \cup Junk

(* A backup has the identity and the bytes of the tablet it was taken of. *)
BackupsOK ==
  \A n \in DOMAIN backups :
    backups[n].id \in Reports[backups[n].of] /\ Of(backups[n].of, backups[n].images)

(* The command writes what is of the attached tablet or of none, and its   *)
(* backup is of the attached tablet.                                       *)
JobOK ==
  /\ backups[job.backup].of = attached /\ backups[job.backup].whole
  /\ \A i \in 1 .. Len(job.todo) : job.todo[i].image \in {attached} \cup Junk

(* There is a copy of what will be touched; what was sent is there; a      *)
(* partition that is erased is never written.                              *)
SentOK ==
  /\ job.backup \in DOMAIN backups
  /\ \A i \in 1 .. Len(job.todo) : job.todo[i].part \in DOMAIN backups[job.backup].images
  /\ \A p \in DOMAIN job.sent : flash[attached][p] = job.sent[p]
  /\ \A i \in 1 .. Len(job.todo) : job.todo[i].op = "erase" =>
       /\ job.todo[i].part \notin DOMAIN job.sent
       /\ \A j \in 1 .. Len(job.todo) :
            job.todo[j].op = "write" => job.todo[j].part # job.todo[i].part

UInv ==
  /\ UTypeOK
  /\ backups # <<>> => newest # 0
  /\ at # "none" => SentOK
  /\ NeverAnotherTablets
  /\ ~unsure => BackupsOK
  /\ ~unsure /\ at # "none" => JobOK

(* Serial numbers tell tablets apart: where two are known, and the same,   *)
(* they are of one tablet.                                                 *)
SerialsDiffer ==
  \A t, u \in Tablets : \A id \in Reports[t], other \in Reports[u] :
    id.serial # Unknown /\ id.serial = other.serial => t = u

-----------------------------------------------------------------------------
(* The steps of a plan, and of a command. *)

LEMMA JunkIsContent == Junk \subseteq Content /\ Junk \cap Tablets = {}
BY UnlockAssumption DEF Junk, Content

(* Unlock writes bootloaders and FRP blobs, none of them a tablet's own,   *)
(* and erases devinfo.                                                     *)
Unlocking ==
  [op : {"write"}, part : {"abl_a", "abl_b", "frp"}, image : Junk]
  \cup [op : {"erase"}, part : {"devinfo"}, image : Junk]

LEMMA UnlockingFacts ==
  /\ Unlocking \subseteq Step
  /\ \A step \in Unlocking :
       /\ step.part \in Parts /\ step.image \in Junk
       /\ step.op = "erase" => step.part = "devinfo"
       /\ step.op = "write" => step.part # "devinfo"
BY JunkIsContent DEF Unlocking, Step, Parts

LEMMA StepsFacts == ASSUME NEW plan \in Plan PROVE Steps(plan) \in Seq(Unlocking)
<1> DEFINE loaders == [i \in DOMAIN plan.slots |->
                         [op |-> "write", part |-> Slot(plan.slots[i]), image |-> "foreign"]]
           blob == IF plan.frp = "none" THEN <<>>
                   ELSE <<[op |-> "write", part |-> "frp", image |-> plan.frp]>>
           wipe == IF plan.erase
                     THEN <<[op |-> "erase", part |-> "devinfo", image |-> "blank"]>> ELSE <<>>
<1>1. plan.slots \in Seq({"a", "b"}) /\ plan.frp \in {"none", "blob", "blank"}
  BY DEF Plan
<1>2. loaders \in Seq(Unlocking)
  <2>1. Len(plan.slots) \in Nat /\ DOMAIN plan.slots = 1 .. Len(plan.slots)
    BY <1>1
  <2>2. \A i \in 1 .. Len(plan.slots) : Slot(plan.slots[i]) \in {"abl_a", "abl_b", "frp"}
    BY DEF Slot
  <2>3. loaders \in [1 .. Len(plan.slots) -> Unlocking]
    BY <2>1, <2>2 DEF Unlocking, Junk
  <2> QED  BY <2>1, <2>3, SeqDef
<1>3. blob \in Seq(Unlocking)
  <2>1. CASE plan.frp = "none"
    BY <2>1
  <2>2. CASE plan.frp \in Junk
    <3>1. [op |-> "write", part |-> "frp", image |-> plan.frp] \in Unlocking
      BY <2>2 DEF Unlocking
    <3>2. plan.frp # "none"
      BY <2>2 DEF Junk
    <3> QED  BY <3>1, <3>2
  <2> QED  BY <1>1, <2>1, <2>2 DEF Junk
<1>4. wipe \in Seq(Unlocking)
  <2>1. [op |-> "erase", part |-> "devinfo", image |-> "blank"] \in Unlocking
    BY DEF Unlocking, Junk
  <2> QED  BY <2>1
<1>5. Steps(plan) = (loaders \o blob) \o wipe
  BY DEF Steps
<1> HIDE DEF loaders, blob, wipe
<1> QED  BY <1>2, <1>3, <1>4, <1>5

LEMMA JobFacts ==
  ASSUME UInv, at # "none"
  PROVE  /\ job \in Job /\ job.backup \in DOMAIN backups
         /\ job.todo \in Seq(Step) /\ job.sent \in Pictures
         /\ DOMAIN job.sent \in SUBSET Parts
         /\ \A p \in DOMAIN job.sent : job.sent[p] \in Content
         /\ job.seen \in Identities /\ job.fresh \in BOOLEAN
<1>1. job \in Job /\ job.backup \in DOMAIN backups
  BY DEF UInv, UTypeOK, SentOK
<1>2. job.sent \in Pictures
  BY <1>1 DEF Job, Pictures
<1> QED  BY <1>1, <1>2 DEF Job, Pictures

LEMMA NowFacts ==
  ASSUME UInv, CanStep
  PROVE  /\ at = "writing" /\ job \in Job
         /\ 1 \in 1 .. Len(job.todo) /\ Now = job.todo[1]
         /\ Now \in Step /\ Now.part \in Parts /\ Now.image \in Content
         /\ Now.op \in {"write", "erase"}
         /\ Tail(job.todo) \in Seq(Step)
         /\ \A i \in 1 .. Len(Tail(job.todo)) :
              i + 1 \in 1 .. Len(job.todo) /\ Tail(job.todo)[i] = job.todo[i + 1]
<1>1. at = "writing" /\ job.todo # <<>> /\ job \in Job /\ job.todo \in Seq(Step)
  BY JobFacts DEF CanStep
<1>2. Len(job.todo) \in Nat /\ Len(job.todo) # 0
  BY <1>1, EmptySeq
<1>3. 1 \in 1 .. Len(job.todo) /\ Now = job.todo[1] /\ Now \in Step
  BY <1>1, <1>2 DEF Now
<1>4. /\ Tail(job.todo) \in Seq(Step)
      /\ \A i \in 1 .. Len(Tail(job.todo)) :
              i + 1 \in 1 .. Len(job.todo) /\ Tail(job.todo)[i] = job.todo[i + 1]
  BY <1>1, <1>2
<1> QED  BY <1>1, <1>3, <1>4 DEF Step

(* Two known serial numbers that do not mismatch are of one tablet. *)
LEMMA SameTablet ==
  ASSUME SerialsDiffer, NEW n, NEW t \in Tablets, NEW u \in Tablets, NEW id \in Reports[u],
         Usable(n, id), SerialsKnown(n, id), backups[n].id \in Reports[t]
  PROVE  t = u
<1>1. Mismatch(backups[n].id, id) = {} /\ id.serial # Unknown /\ backups[n].id.serial # Unknown
  BY DEF Usable, SerialsKnown
<1>2. "serial" \in Fields
  BY DEF Fields
<1>3. backups[n].id["serial"] = id["serial"]
  BY <1>1, <1>2 DEF Mismatch
<1> QED  BY <1>1, <1>3 DEF SerialsDiffer

-----------------------------------------------------------------------------
(* What is left alone. *)

LEMMA UInitInv == ASSUME UInit PROVE UInv
<1>1. backups = <<>> /\ backups \in Seq(Backup) /\ Len(backups) = 0 /\ DOMAIN backups = {}
  BY DEF UInit
<1>2. \A t \in Tablets, p \in Parts : flash[t][p] = t
  BY DEF UInit
<1>3. flash \in [Tablets -> [Parts -> Content]]
  BY DEF UInit, Content
<1>4. UTypeOK
  <2>1. attached \in Tablets /\ mode \in [Tablets -> {"edl", "left"}]
    BY DEF UInit
  <2>2. backups \in Seq(Backup) /\ Len(backups) <= MaxBackups /\ newest \in 0 .. Len(backups)
    BY <1>1, UnlockAssumption DEF UInit
  <2>3. clean \in BOOLEAN /\ unsure \in BOOLEAN
    BY DEF UInit
  <2>4. begun \in 0 .. MaxCommands
    BY UnlockAssumption DEF UInit
  <2>5. at = "none" /\ job = None
    BY DEF UInit
  <2> QED  BY <1>3, <2>1, <2>2, <2>3, <2>4, <2>5 DEF UTypeOK
<1>5. at = "none"
  BY DEF UInit
<1> QED  BY <1>1, <1>2, <1>4, <1>5 DEF UInv, NeverAnotherTablets, BackupsOK

(* No command is under way, and no partition is touched. *)
LEMMA AtRest ==
  ASSUME UInv, UNCHANGED <<flash, backups, newest, unsure>>, at' = "none", job' = None,
         attached' \in Tablets, mode' \in [Tablets -> {"edl", "left"}],
         clean' \in BOOLEAN, begun' = begun
  PROVE  UInv'
<1>1. UTypeOK'
  BY DEF UInv, UTypeOK
<1>2. NeverAnotherTablets'
  BY DEF UInv, NeverAnotherTablets
<1> QED  BY <1>1, <1>2 DEF UInv, BackupsOK

LEMMA QuietStep ==
  ASSUME ~SwapsMidway, UInv,
         \/ UnlockRefused \/ Finish \/ Stops \/ ForceEdl
         \/ \E t \in Tablets : Swap(t)
  PROVE  UInv'
<1>1. /\ attached \in Tablets /\ mode \in [Tablets -> {"edl", "left"}] /\ clean \in BOOLEAN
      /\ at = "none" <=> job = None
  BY DEF UInv, UTypeOK
<1>2. CASE UnlockRefused
  BY <1>1, <1>2, AtRest DEF UnlockRefused
<1>3. CASE Finish
  BY <1>1, <1>3, AtRest DEF Finish, End
<1>4. CASE Stops
  BY <1>1, <1>4, AtRest DEF Stops, End, world
<1>5. CASE ForceEdl
  BY <1>1, <1>5, AtRest DEF ForceEdl
<1>6. ASSUME NEW t \in Tablets, Swap(t) PROVE UInv'
  BY <1>1, <1>6, AtRest DEF Swap
<1> QED  BY <1>2, <1>3, <1>4, <1>5, <1>6

LEMMA WaitingStep ==
  ASSUME UInv, Confirm \/ TokenExpires
  PROVE  UInv'
<1>1. /\ at # "none" /\ at' \in {"asking", "writing"}
      /\ UNCHANGED <<attached, flash, mode, backups, newest, clean, begun, unsure>>
      /\ job' = job \/ job' = [job EXCEPT !.fresh = FALSE]
  BY DEF Confirm, TokenExpires, UInv, UTypeOK, world
<1>2. job \in Job
  BY <1>1, JobFacts
<1>3. /\ job' \in Job /\ job'.todo = job.todo /\ job'.sent = job.sent
      /\ job'.backup = job.backup
  BY <1>1, <1>2 DEF Job
<1>4. UTypeOK'
  BY <1>1, <1>3, NoCommandAssumption DEF UInv, UTypeOK
<1>5. NeverAnotherTablets'
  BY <1>1 DEF UInv, NeverAnotherTablets
<1>6. SentOK'
  BY <1>1, <1>3 DEF UInv, SentOK
<1>7. ~unsure' => JobOK'
  BY <1>1, <1>3 DEF UInv, JobOK
<1>8. ~unsure' => BackupsOK'
  BY <1>1 DEF UInv, BackupsOK
<1> QED  BY <1>1, <1>4, <1>5, <1>6, <1>7, <1>8 DEF UInv

-----------------------------------------------------------------------------
(* Beginning. *)

(* One directory changes, or is new; the others are what they were. *)
LEMMA PutFacts ==
  ASSUME UInv, NEW n \in 1 .. Len(backups) + 1, n <= MaxBackups, NEW b \in Backup, Put(n, b)
  PROVE  /\ backups' \in Seq(Backup) /\ Len(backups') <= MaxBackups
         /\ newest' \in 0 .. Len(backups') /\ newest' # 0
         /\ n \in DOMAIN backups' /\ backups'[n] = b
         /\ \A i \in DOMAIN backups' : i # n => i \in DOMAIN backups /\ backups'[i] = backups[i]
         /\ \A i \in DOMAIN backups : i \in DOMAIN backups'
         /\ n \in DOMAIN backups => Len(backups') = Len(backups)
<1>1. /\ backups \in Seq(Backup) /\ Len(backups) \in Nat /\ MaxBackups \in Nat
      /\ DOMAIN backups = 1 .. Len(backups) /\ Len(backups) <= MaxBackups /\ newest' = n
  BY UnlockAssumption DEF UInv, UTypeOK, Put
<1>2. CASE n \notin DOMAIN backups
  <2>1. n = Len(backups) + 1 /\ backups' = Append(backups, b)
    <3>1. n = Len(backups) + 1
      BY <1>1, <1>2
    <3> QED  BY <1>2, <3>1 DEF Put
  <2>2. /\ backups' \in Seq(Backup) /\ Len(backups') = Len(backups) + 1
        /\ \A i \in 1 .. Len(backups) : backups'[i] = backups[i]
        /\ backups'[Len(backups) + 1] = b
    BY <1>1, <2>1
  <2>3. DOMAIN backups' = 1 .. Len(backups) + 1
    BY <2>2
  <2>4. Len(backups') <= MaxBackups /\ newest' \in 0 .. Len(backups') /\ newest' # 0
    BY <1>1, <2>1, <2>2
  <2>5. /\ n \in DOMAIN backups' /\ backups'[n] = b
        /\ \A i \in DOMAIN backups' : i # n => i \in DOMAIN backups /\ backups'[i] = backups[i]
        /\ \A i \in DOMAIN backups : i \in DOMAIN backups'
    BY <1>1, <2>1, <2>2, <2>3
  <2> QED  BY <1>2, <2>2, <2>4, <2>5
<1>3. CASE n \in DOMAIN backups
  <2>1. backups' = [backups EXCEPT ![n] = b]
    BY <1>3 DEF Put
  <2>2. /\ backups' \in Seq(Backup) /\ Len(backups') = Len(backups)
        /\ DOMAIN backups' = DOMAIN backups
        /\ \A i \in DOMAIN backups : backups'[i] = IF i = n THEN b ELSE backups[i]
    BY <1>1, <1>3, <2>1
  <2> QED  BY <1>1, <1>3, <2>1, <2>2
<1> QED  BY <1>2, <1>3

(* Nothing but a directory changes, and it has what its tablet has. *)
LEMMA PutStep ==
  ASSUME UInv, NEW n \in 1 .. Len(backups) + 1, n <= MaxBackups, NEW b \in Backup, Put(n, b),
         at = "none", mode' \in [Tablets -> {"edl", "left"}],
         UNCHANGED <<attached, flash, clean, at, job, begun, unsure>>,
         ~unsure => b.id \in Reports[b.of] /\ Of(b.of, b.images)
  PROVE  UInv'
<1>1. UTypeOK'
  BY PutFacts DEF UInv, UTypeOK
<1>2. ~unsure' => BackupsOK'
  <2> SUFFICES ASSUME ~unsure, NEW i \in DOMAIN backups'
               PROVE  backups'[i].id \in Reports[backups'[i].of]
                      /\ Of(backups'[i].of, backups'[i].images)
    BY DEF BackupsOK, Of
  <2>1. CASE i = n
    BY <2>1, PutFacts
  <2>2. CASE i # n
    BY <2>2, PutFacts DEF UInv, BackupsOK
  <2> QED  BY <2>1, <2>2
<1> QED  BY <1>1, <1>2, PutFacts DEF UInv, NeverAnotherTablets

LEMMA TakenFacts ==
  ASSUME UInv, NEW S \in Coverages, NEW id \in Reports[attached]
  PROVE  /\ [id |-> id, of |-> attached, whole |-> TRUE,
             images |-> [p \in S |-> flash[attached][p]]] \in Backup
         /\ ~unsure => Of(attached, [p \in S |-> flash[attached][p]])
<1> DEFINE images == [p \in S |-> flash[attached][p]]
<1>1. attached \in Tablets /\ flash[attached] \in [Parts -> Content]
  BY DEF UInv, UTypeOK
<1>2. S \in SUBSET Parts /\ id \in Identities
  BY <1>1, UnlockAssumption
<1>3. images \in [S -> Content]
  BY <1>1, <1>2
<1>4. ASSUME ~unsure PROVE Of(attached, images)
  <2>1. \A p \in Parts : flash[attached][p] \in {attached} \cup Junk
    BY <1>1, <1>4 DEF UInv, NeverAnotherTablets, Content, Junk
  <2> QED  BY <1>2, <2>1 DEF Of
<1> QED  BY <1>1, <1>2, <1>3, <1>4 DEF Backup

LEMMA TakeBackupStep ==
  ASSUME UInv, NEW n \in 1 .. Len(backups) + 1, NEW S \in Coverages,
         NEW id \in Reports[attached], TakeBackup(n, S, id)
  PROVE  UInv'
<1> DEFINE b == [id |-> id, of |-> attached, whole |-> TRUE,
                 images |-> [p \in S |-> flash[attached][p]]]
<1>1. /\ at = "none" /\ n <= MaxBackups /\ Put(n, b)
      /\ mode' \in [Tablets -> {"edl", "left"}]
      /\ UNCHANGED <<attached, flash, clean, at, job, begun, unsure>>
  BY DEF TakeBackup, UInv, UTypeOK
<1>2. b \in Backup /\ b.id \in Reports[b.of] /\ (~unsure => Of(b.of, b.images))
  BY TakenFacts
<1> HIDE DEF b
<1> QED  BY <1>1, <1>2, PutStep

LEMMA FilesChangeStep ==
  ASSUME UInv, NEW n \in DOMAIN backups, NEW whole \in BOOLEAN, FilesChange(n, whole)
  PROVE  UInv'
<1> DEFINE b == [backups[n] EXCEPT !.whole = whole]
<1>1. /\ at = "none" /\ Put(n, b)
      /\ mode' \in [Tablets -> {"edl", "left"}]
      /\ UNCHANGED <<attached, flash, clean, at, job, begun, unsure>>
  BY DEF FilesChange, UInv, UTypeOK
<1>2. /\ backups \in Seq(Backup) /\ n \in 1 .. Len(backups) + 1 /\ n <= MaxBackups
      /\ backups[n] \in Backup
  BY UnlockAssumption DEF UInv, UTypeOK
<1>3. b \in Backup /\ b.id = backups[n].id /\ b.of = backups[n].of /\ b.images = backups[n].images
  BY <1>2 DEF Backup
<1>4. ~unsure => b.id \in Reports[b.of] /\ Of(b.of, b.images)
  BY <1>3 DEF UInv, BackupsOK
<1> HIDE DEF b
<1> QED  BY <1>1, <1>2, <1>3, <1>4, PutStep

(* A command that is begun: what it writes has a copy in a backup of the   *)
(* same tablet.                                                            *)
LEMMA BeginStep ==
  ASSUME SerialsDiffer, UInv,
         NEW n \in DOMAIN backups, NEW id \in Reports[attached], NEW command \in Job,
         command.backup = n, command.seen = id, command.sent = <<>>,
         Usable(n, id), Begin(command), at' \in {"asking", "writing"},
         mode' \in [Tablets -> {"edl", "left"}],
         \A i \in 1 .. Len(command.todo) :
           /\ command.todo[i].part \in DOMAIN backups[n].images
           /\ command.todo[i].image \in Junk \cup {backups[n].images[command.todo[i].part]}
           /\ \/ \A j \in 1 .. Len(command.todo) :
                   command.todo[j].op = "write" => command.todo[j].part # command.todo[i].part
              \/ command.todo[i].op # "erase"
  PROVE  UInv'
<1>1. /\ begun < MaxCommands /\ begun' = begun + 1 /\ job' = command
      /\ unsure' = (unsure \/ ~SerialsKnown(n, id))
      /\ UNCHANGED <<attached, flash, backups, newest, clean>>
  BY DEF Begin
<1>2. attached \in Tablets
  BY DEF UInv, UTypeOK
<1>3. unsure \in BOOLEAN /\ unsure' \in BOOLEAN
  BY <1>1 DEF UInv, UTypeOK
<1>4. begun' \in 0 .. MaxCommands
  BY <1>1, UnlockAssumption DEF UInv, UTypeOK
<1>5. UTypeOK'
  BY <1>1, <1>3, <1>4, NoCommandAssumption DEF UInv, UTypeOK
<1>6. ~unsure' => ~unsure /\ SerialsKnown(n, id)
  BY <1>1, <1>3
<1>7. NeverAnotherTablets'
  BY <1>1, <1>6 DEF UInv, NeverAnotherTablets
<1>8. ~unsure' => BackupsOK'
  BY <1>1, <1>6 DEF UInv, BackupsOK
<1>9. SentOK'
  BY <1>1 DEF SentOK
<1>10. ASSUME ~unsure' PROVE JobOK'
  <2>1. backups[n].of \in Tablets
    <3>1. backups[n] \in Backup
      BY DEF UInv, UTypeOK
    <3> QED  BY <3>1 DEF Backup
  <2>2. backups[n].id \in Reports[backups[n].of] /\ Of(backups[n].of, backups[n].images)
    BY <1>6, <1>10 DEF UInv, BackupsOK
  <2>3. backups[n].of = attached
    BY <1>2, <1>6, <1>10, <2>1, <2>2, SameTablet
  <2>4. \A i \in 1 .. Len(command.todo) : command.todo[i].image \in {attached} \cup Junk
    BY <2>2, <2>3 DEF Of
  <2> QED  BY <1>1, <2>3, <2>4 DEF JobOK, Usable
<1> QED  BY <1>1, <1>5, <1>7, <1>8, <1>9, <1>10 DEF UInv

LEMMA UnlockBeginStep ==
  ASSUME SerialsDiffer, UInv, NEW plan \in Plans, NEW id \in Reports[attached],
         UnlockBegin(plan, id)
  PROVE  UInv'
<1> DEFINE command == [kind |-> "unlock", seen |-> id, backup |-> newest,
                       todo |-> Steps(plan), sent |-> <<>>, fresh |-> TRUE]
<1>1. /\ backups # <<>> /\ Usable(newest, id) /\ Begin(command) /\ at' = "asking"
      /\ Targets(Steps(plan)) \subseteq DOMAIN backups[newest].images
      /\ mode' \in [Tablets -> {"edl", "left"}]
  BY DEF UnlockBegin, UInv, UTypeOK
<1>2. /\ backups \in Seq(Backup) /\ Len(backups) \in Nat /\ newest \in 0 .. Len(backups)
      /\ newest # 0 /\ DOMAIN backups = 1 .. Len(backups) /\ Len(backups) <= MaxBackups
  BY <1>1 DEF UInv, UTypeOK
<1>3. newest \in DOMAIN backups /\ newest \in 1 .. MaxBackups
  BY <1>2, UnlockAssumption
<1>4. Steps(plan) \in Seq(Unlocking)
  BY StepsFacts, UnlockAssumption
<1>5. Steps(plan) \in Seq(Step) /\ DOMAIN Steps(plan) = 1 .. Len(Steps(plan))
  BY <1>4, UnlockingFacts
<1>6. \A i \in 1 .. Len(Steps(plan)) :
        /\ Steps(plan)[i] \in Unlocking
        /\ Steps(plan)[i].part \in DOMAIN backups[newest].images
  BY <1>1, <1>4, <1>5 DEF Targets
<1>7. \A i \in 1 .. Len(Steps(plan)) :
        /\ Steps(plan)[i].image \in Junk
        /\ \/ \A j \in 1 .. Len(Steps(plan)) :
                Steps(plan)[j].op = "write" => Steps(plan)[j].part # Steps(plan)[i].part
           \/ Steps(plan)[i].op # "erase"
  BY <1>6, UnlockingFacts
<1>8. id \in Identities
  BY UnlockAssumption DEF UInv, UTypeOK
<1>9. <<>> \in Pictures
  <2>1. <<>> \in [{} -> Content] /\ {} \in SUBSET Parts
    OBVIOUS
  <2> QED  BY <2>1 DEF Pictures
<1>10. command \in Job
  BY <1>3, <1>5, <1>8, <1>9 DEF Job, Pictures
<1>11. /\ command.backup = newest /\ command.seen = id /\ command.sent = <<>>
       /\ command.todo = Steps(plan)
  OBVIOUS
<1> HIDE DEF command
<1> QED  BY <1>1, <1>3, <1>6, <1>7, <1>10, <1>11, BeginStep

LEMMA RescueBeginStep ==
  ASSUME SerialsDiffer, UInv, NEW n, NEW parts \in Orders, NEW id \in Reports[attached],
         RescueBegin(n, parts, id)
  PROVE  UInv'
<1> DEFINE todo == [i \in DOMAIN parts |->
              [op |-> "write", part |-> parts[i], image |-> backups[n].images[parts[i]]]]
           command == [kind |-> "rescue", seen |-> id, backup |-> n, todo |-> todo,
                       sent |-> <<>>, fresh |-> TRUE]
<1>1. /\ n \in DOMAIN backups /\ Usable(n, id) /\ Begin(command) /\ at' = "writing"
      /\ {parts[i] : i \in DOMAIN parts} \subseteq DOMAIN backups[n].images
      /\ mode' \in [Tablets -> {"edl", "left"}]
  BY DEF RescueBegin, UInv, UTypeOK
<1>2. /\ backups \in Seq(Backup) /\ n \in 1 .. MaxBackups /\ backups[n] \in Backup
  BY <1>1, UnlockAssumption DEF UInv, UTypeOK
<1>3. \A p \in DOMAIN backups[n].images : p \in Parts /\ backups[n].images[p] \in Content
  <2>1. backups[n].images \in UNION {[S -> Content] : S \in SUBSET Parts}
    BY <1>2 DEF Backup
  <2> QED  BY <2>1
<1>4. parts \in Seq(Parts) /\ Len(parts) \in Nat /\ DOMAIN parts = 1 .. Len(parts)
  BY UnlockAssumption
<1>5. /\ DOMAIN todo = 1 .. Len(parts)
      /\ \A i \in 1 .. Len(parts) :
           /\ parts[i] \in DOMAIN backups[n].images
           /\ todo[i] = [op |-> "write", part |-> parts[i], image |-> backups[n].images[parts[i]]]
           /\ todo[i] \in Step
  BY <1>1, <1>3, <1>4 DEF Step
<1>6. todo \in [1 .. Len(parts) -> Step]
  BY <1>4, <1>5
<1>7. todo \in Seq(Step) /\ Len(todo) = Len(parts)
  BY <1>4, <1>5, <1>6, SeqDef
<1>8. \A i \in 1 .. Len(todo) :
        /\ todo[i].part \in DOMAIN backups[n].images /\ todo[i].op # "erase"
        /\ todo[i].image \in Junk \cup {backups[n].images[todo[i].part]}
  BY <1>5, <1>7
<1> HIDE DEF todo
<1>9. id \in Identities
  BY UnlockAssumption DEF UInv, UTypeOK
<1>10. <<>> \in Pictures
  <2>1. <<>> \in [{} -> Content] /\ {} \in SUBSET Parts
    OBVIOUS
  <2> QED  BY <2>1 DEF Pictures
<1>11. command \in Job
  BY <1>2, <1>7, <1>9, <1>10 DEF Job, Pictures
<1>12. /\ command.backup = n /\ command.seen = id /\ command.sent = <<>>
       /\ command.todo = todo
  OBVIOUS
<1> HIDE DEF command
<1> QED  BY <1>1, <1>8, <1>11, <1>12, BeginStep

-----------------------------------------------------------------------------
(* Steps. *)

(* A partition is touched, with bytes of this tablet or of none: nobody    *)
(* else's bytes get there.                                                 *)
LEMMA Touched ==
  ASSUME UInv, CanStep, NEW c, Holds(c), ~unsure => c \in {attached} \cup Junk,
         UNCHANGED <<attached, backups, unsure>>
  PROVE  /\ NeverAnotherTablets'
         /\ ~unsure' => BackupsOK'
<1>1. /\ attached \in Tablets /\ Now.part \in Parts
      /\ flash \in [Tablets -> [Parts -> Content]]
  BY NowFacts DEF UInv, UTypeOK
<1>2. \A t \in Tablets, p \in Parts :
        flash'[t][p] = IF t = attached /\ p = Now.part THEN c ELSE flash[t][p]
  BY <1>1 DEF Holds
<1>3. NeverAnotherTablets'
  <2> SUFFICES ASSUME ~unsure, NEW t \in Tablets, NEW p \in Parts
               PROVE  flash'[t][p] \notin Tablets \ {t}
    BY DEF NeverAnotherTablets
  <2>1. flash[t][p] \notin Tablets \ {t}
    BY DEF UInv, NeverAnotherTablets
  <2> QED  BY <1>2, <2>1, JunkIsContent
<1> QED  BY <1>3 DEF UInv, BackupsOK

(* A step that was done: the command goes on. *)
LEMMA AdvanceStep ==
  ASSUME UInv, CanStep, NEW c \in Content, Holds(c), ~unsure => c \in {attached} \cup Junk,
         Now.op = "write" => c = Now.image, Advance,
         UNCHANGED <<world, clean, at>>
  PROVE  UInv'
<1> DEFINE sent == IF Now.op = "erase" THEN job.sent
                   ELSE [p \in DOMAIN job.sent \cup {Now.part} |->
                           IF p = Now.part THEN Now.image ELSE job.sent[p]]
<1>1. /\ attached \in Tablets /\ UNCHANGED <<attached, mode, backups, newest, begun, unsure, clean, at>>
      /\ flash \in [Tablets -> [Parts -> Content]]
  BY DEF UInv, UTypeOK, world
<1>2. /\ at = "writing" /\ job \in Job
      /\ 1 \in 1 .. Len(job.todo) /\ Now = job.todo[1]
      /\ Now \in Step /\ Now.part \in Parts /\ Now.image \in Content
      /\ Now.op \in {"write", "erase"}
      /\ Tail(job.todo) \in Seq(Step)
      /\ \A i \in 1 .. Len(Tail(job.todo)) :
           i + 1 \in 1 .. Len(job.todo) /\ Tail(job.todo)[i] = job.todo[i + 1]
  BY NowFacts
<1>3. job' = [job EXCEPT !.todo = Tail(job.todo), !.sent = sent]
  BY DEF Advance
<1>4. sent \in Pictures
  <2>1. job.sent \in Pictures /\ DOMAIN job.sent \in SUBSET Parts
        /\ \A p \in DOMAIN job.sent : job.sent[p] \in Content
    BY <1>2, JobFacts
  <2>2. CASE Now.op = "write"
    <3>1. sent \in [DOMAIN job.sent \cup {Now.part} -> Content]
      BY <1>2, <2>1, <2>2
    <3>2. DOMAIN job.sent \cup {Now.part} \in SUBSET Parts
      BY <1>2, <2>1
    <3> QED  BY <3>1, <3>2 DEF Pictures
  <2> QED  BY <1>2, <2>1, <2>2
<1>5. /\ Now.op = "erase" => sent = job.sent
      /\ Now.op = "write" => /\ DOMAIN sent = DOMAIN job.sent \cup {Now.part}
                             /\ \A p \in DOMAIN sent :
                                  sent[p] = IF p = Now.part THEN Now.image ELSE job.sent[p]
  BY <1>2
<1> HIDE DEF sent
<1>6. /\ job'.todo = Tail(job.todo) /\ job'.sent = sent /\ job'.backup = job.backup
      /\ job' \in Job
  BY <1>2, <1>3, <1>4 DEF Job, Pictures
<1>7. flash' \in [Tablets -> [Parts -> Content]]
  BY <1>1, <1>2 DEF Holds
<1>8. UTypeOK'
  BY <1>1, <1>2, <1>6, <1>7, NoCommandAssumption DEF UInv, UTypeOK
<1>9. NeverAnotherTablets' /\ (~unsure' => BackupsOK')
  BY <1>1, Touched
<1>10. SentOK'
  <2>1. /\ job.backup \in DOMAIN backups
        /\ \A i \in 1 .. Len(job.todo) :
             job.todo[i].part \in DOMAIN backups[job.backup].images
        /\ \A p \in DOMAIN job.sent : flash[attached][p] = job.sent[p]
        /\ \A i \in 1 .. Len(job.todo) : job.todo[i].op = "erase" =>
             /\ job.todo[i].part \notin DOMAIN job.sent
             /\ \A j \in 1 .. Len(job.todo) :
                  job.todo[j].op = "write" => job.todo[j].part # job.todo[i].part
    BY <1>2 DEF UInv, SentOK
  <2>2. DOMAIN job.sent \in SUBSET Parts
    BY <1>2, JobFacts
  <2>3. /\ flash'[attached][Now.part] = c
        /\ \A p \in Parts : p # Now.part => flash'[attached][p] = flash[attached][p]
    BY <1>1, <1>2 DEF Holds
  <2>4. \A p \in DOMAIN sent : flash'[attached][p] = sent[p]
    <3>1. CASE Now.op = "write"
      BY <1>5, <2>1, <2>2, <2>3, <3>1
    <3>2. CASE Now.op = "erase"
      BY <1>2, <1>5, <2>1, <2>2, <2>3, <3>2
    <3> QED  BY <1>2, <3>1, <3>2
  <2>5. \A i \in 1 .. Len(job'.todo) : job'.todo[i].op = "erase" =>
             /\ job'.todo[i].part \notin DOMAIN sent
             /\ \A j \in 1 .. Len(job'.todo) :
                  job'.todo[j].op = "write" => job'.todo[j].part # job'.todo[i].part
    <3> SUFFICES ASSUME NEW i \in 1 .. Len(job'.todo), job'.todo[i].op = "erase"
                 PROVE  /\ job'.todo[i].part \notin DOMAIN sent
                        /\ \A j \in 1 .. Len(job'.todo) :
                             job'.todo[j].op = "write" => job'.todo[j].part # job'.todo[i].part
      OBVIOUS
    <3>1. i + 1 \in 1 .. Len(job.todo) /\ job'.todo[i] = job.todo[i + 1]
      BY <1>2, <1>6
    <3>2. /\ job'.todo[i].part \notin DOMAIN job.sent
          /\ \A j \in 1 .. Len(job.todo) :
               job.todo[j].op = "write" => job.todo[j].part # job'.todo[i].part
      BY <2>1, <3>1
    <3>3. Now.op = "write" => Now.part # job'.todo[i].part
      BY <1>2, <3>2
    <3>4. job'.todo[i].part \notin DOMAIN sent
      BY <1>2, <1>5, <3>2, <3>3
    <3>5. \A j \in 1 .. Len(job'.todo) :
            job'.todo[j].op = "write" => job'.todo[j].part # job'.todo[i].part
      BY <1>2, <1>6, <3>2
    <3> QED  BY <3>4, <3>5
  <2>6. \A i \in 1 .. Len(job'.todo) : job'.todo[i].part \in DOMAIN backups[job.backup].images
    BY <1>2, <1>6, <2>1
  <2> QED  BY <1>1, <1>6, <2>1, <2>4, <2>5, <2>6 DEF SentOK
<1>11. ASSUME ~unsure' PROVE JobOK'
  <2>1. /\ backups[job.backup].of = attached /\ backups[job.backup].whole
        /\ \A i \in 1 .. Len(job.todo) : job.todo[i].image \in {attached} \cup Junk
    BY <1>1, <1>2, <1>11 DEF UInv, JobOK
  <2> QED  BY <1>1, <1>2, <1>6, <2>1 DEF JobOK
<1> QED  BY <1>1, <1>8, <1>9, <1>10, <1>11 DEF UInv

(* What a step writes, or may leave when it fails. *)
LEMMA LeftFacts ==
  ASSUME UInv, CanStep
  PROVE  /\ Now.image \in Content /\ Left \subseteq Content
         /\ ~unsure => /\ Now.image \in {attached} \cup Junk
                       /\ Left \subseteq {attached} \cup Junk
<1>1. /\ at = "writing" /\ 1 \in 1 .. Len(job.todo) /\ Now = job.todo[1]
      /\ Now.part \in Parts /\ Now.image \in Content
  BY NowFacts
<1>2. attached \in Tablets /\ flash \in [Tablets -> [Parts -> Content]]
  BY DEF UInv, UTypeOK
<1>3. flash[attached][Now.part] \in Content
  BY <1>1, <1>2
<1>4. /\ job.backup \in DOMAIN backups /\ Now.part \in DOMAIN backups[job.backup].images
  BY <1>1 DEF UInv, SentOK
<1>5. backups[job.backup].images[Now.part] \in Content
  <2>1. job.backup \in DOMAIN backups /\ backups \in Seq(Backup)
    BY <1>1, <1>4 DEF UInv, UTypeOK
  <2>2. backups[job.backup] \in Backup
    BY <2>1
  <2>3. backups[job.backup].images \in UNION {[S -> Content] : S \in SUBSET Parts}
    BY <2>2 DEF Backup
  <2> QED  BY <1>4, <2>3
<1>6. Left \subseteq {flash[attached][Now.part], Now.image, "spoilt",
                      backups[job.backup].images[Now.part]}
  BY DEF Left
<1>7. "spoilt" \in Content
  BY DEF Content
<1>8. ASSUME ~unsure
      PROVE  /\ Now.image \in {attached} \cup Junk
             /\ Left \subseteq {attached} \cup Junk
  <2>1. Now.image \in {attached} \cup Junk /\ backups[job.backup].of = attached
    BY <1>1, <1>8 DEF UInv, JobOK
  <2>2. backups[job.backup].images[Now.part] \in {attached} \cup Junk
    BY <1>4, <1>8, <2>1 DEF UInv, BackupsOK, Of
  <2>3. flash[attached][Now.part] \in {attached} \cup Junk
    BY <1>1, <1>2, <1>3, <1>8 DEF UInv, NeverAnotherTablets, Content, Junk
  <2> QED  BY <1>6, <2>1, <2>2, <2>3 DEF Junk
<1>9. Left \subseteq Content
  BY <1>1, <1>3, <1>5, <1>6, <1>7
<1> QED  BY <1>1, <1>8, <1>9

LEMMA DoneStep ==
  ASSUME UInv, Write \/ Erase
  PROVE  UInv'
<1>1. CanStep /\ Advance /\ UNCHANGED <<world, clean, at>>
  BY DEF Write, Erase
<1>2. CASE Write
  <2>1. Now.op = "write" /\ Holds(Now.image)
    BY <1>2 DEF Write
  <2> QED  BY <1>1, <2>1, LeftFacts, AdvanceStep
<1>3. CASE Erase
  <2>1. Now.op = "erase"
    BY <1>3 DEF Erase
  <2>2. PICK c \in {"blank", "spoilt"} : Holds(c)
    BY <1>3 DEF Erase
  <2>3. c \in Content /\ c \in Junk
    BY DEF Content, Junk
  <2>4. Now.op = "write" => c = Now.image
    BY <2>1
  <2> QED  BY <1>1, <2>2, <2>3, <2>4, AdvanceStep
<1> QED  BY <1>2, <1>3

LEMMA UndoneStep ==
  ASSUME UInv, StepFails \/ StepDies
  PROVE  UInv'
<1>1. /\ CanStep /\ at' = "none" /\ job' = None
      /\ UNCHANGED <<attached, mode, backups, newest, begun, unsure>> /\ clean' \in BOOLEAN
  BY DEF StepFails, StepDies, End, world, UInv, UTypeOK
<1>2. PICK c \in Left : Holds(c)
  BY DEF StepFails, StepDies
<1>3. c \in Content /\ (~unsure => c \in {attached} \cup Junk)
  BY <1>1, LeftFacts
<1>4. flash' \in [Tablets -> [Parts -> Content]]
  <2>1. flash \in [Tablets -> [Parts -> Content]] /\ Now.part \in Parts
    BY <1>1, NowFacts DEF UInv, UTypeOK
  <2> QED  BY <1>2, <1>3, <2>1 DEF Holds
<1>5. UTypeOK'
  BY <1>1, <1>4 DEF UInv, UTypeOK
<1> QED  BY <1>1, <1>2, <1>3, <1>5, Touched DEF UInv

-----------------------------------------------------------------------------
LEMMA UStutter == ASSUME UInv, UNCHANGED uvars PROVE UInv'
<1>1. UTypeOK'
  BY DEF uvars, UInv, UTypeOK
<1>2. NeverAnotherTablets'
  BY DEF uvars, UInv, NeverAnotherTablets
<1>3. at' # "none" => SentOK'
  BY DEF uvars, UInv, SentOK
<1>4. ~unsure' => BackupsOK'
  BY DEF uvars, UInv, BackupsOK
<1>5. ~unsure' /\ at' # "none" => JobOK'
  BY DEF uvars, UInv, JobOK
<1> QED  BY <1>1, <1>2, <1>3, <1>4, <1>5 DEF UInv, uvars

LEMMA UNextInv == ASSUME ~SwapsMidway, SerialsDiffer, UInv, UNext PROVE UInv'
BY TakeBackupStep, FilesChangeStep, UnlockBeginStep, RescueBeginStep, DoneStep, UndoneStep, WaitingStep,
   QuietStep DEF UNext

LEMMA AlwaysUInv == ASSUME ~SwapsMidway, SerialsDiffer PROVE USpec => []UInv
<1>1. UInit => UInv
  BY UInitInv
<1>2. UInv /\ [UNext]_uvars => UInv'
  BY UNextInv, UStutter
<1> QED  BY <1>1, <1>2, PTL DEF USpec

(* As long as no tablet is exchanged for another in the middle of a command*)
(* (nothing looks again once it has begun), and serial numbers are not     *)
(* shared, the bytes of one tablet never reach another: not from a backup  *)
(* that is restored, nor from one that is rolled back to.                  *)
THEOREM OwnBytesOnly ==
  ASSUME ~SwapsMidway, SerialsDiffer PROVE USpec => []NeverAnotherTablets
<1>1. UInv => NeverAnotherTablets
  BY DEF UInv
<1> QED  BY <1>1, AlwaysUInv, PTL

(* A step of a command touches a partition that an intact backup of the   *)
(* same tablet covers.                                                     *)
LEMMA TouchedIsCovered ==
  ASSUME UInv, ~unsure, CanStep, NEW c, Holds(c), NEW t \in Tablets, NEW p \in Parts,
         flash'[t][p] # flash[t][p]
  PROVE  /\ t = attached /\ job.backup \in DOMAIN backups
         /\ backups[job.backup].of = t /\ backups[job.backup].whole
         /\ p \in DOMAIN backups[job.backup].images
<1>1. at = "writing" /\ 1 \in 1 .. Len(job.todo) /\ Now = job.todo[1] /\ Now.part \in Parts
  BY NowFacts
<1>2. flash \in [Tablets -> [Parts -> Content]] /\ attached \in Tablets
  BY DEF UInv, UTypeOK
<1>3. t = attached /\ p = Now.part
  BY <1>1, <1>2 DEF Holds
<1>4. JobOK /\ SentOK
  BY <1>1 DEF UInv
<1> QED  BY <1>1, <1>3, <1>4 DEF JobOK, SentOK

(* Under the same conditions, the last copy of the stock bytes of a        *)
(* partition is lost only to what is written to the directory of a backup: *)
(* to no unlock, rescue or new backup, from and of whatever state.         *)
THEOREM StockStaysInABackup ==
  ASSUME ~SwapsMidway, SerialsDiffer PROVE USpec => StockIsKept
<1>1. ASSUME UInv, [UNext]_uvars PROVE StaysKept
  <2> SUFFICES ASSUME ~unsure, NEW t \in Tablets, NEW p \in Parts,
                      Saved(t, p) \/ Untouched(t, p), ~Overwritten
               PROVE  Saved(t, p)' \/ Untouched(t, p)'
    BY DEF StaysKept
  <2>1. CASE UNCHANGED <<flash, backups>>
    BY <2>1 DEF Saved, Untouched
  <2>2. CASE Write \/ Erase \/ StepFails \/ StepDies
    <3>1. CanStep /\ UNCHANGED backups /\ \E c : Holds(c)
      BY <2>2 DEF Write, Erase, StepFails, StepDies, world
    <3>2. CASE Saved(t, p)
      BY <3>1, <3>2 DEF Saved
    <3>3. CASE Untouched(t, p)
      <4>1. flash'[t][p] = flash[t][p]
        BY <1>1, <3>1, <3>3, TouchedIsCovered DEF Untouched
      <4> QED  BY <3>1, <3>3, <4>1 DEF Untouched
    <3> QED  BY <3>2, <3>3
  <2>3. ASSUME NEW n \in 1 .. Len(backups) + 1, NEW S \in Coverages,
               NEW id \in Reports[attached], TakeBackup(n, S, id)
        PROVE  Saved(t, p)' \/ Untouched(t, p)'
    <3> DEFINE b == [id |-> id, of |-> attached, whole |-> TRUE,
                     images |-> [q \in S |-> flash[attached][q]]]
    <3>1. n <= MaxBackups /\ Put(n, b) /\ UNCHANGED flash
      BY <2>3 DEF TakeBackup
    <3>2. /\ b \in Backup /\ b.of = attached /\ b.whole /\ DOMAIN b.images = S
          /\ p \in S => b.images[p] = flash[attached][p]
      BY <1>1, TakenFacts
    <3> HIDE DEF b
    <3>3. /\ n \in DOMAIN backups' /\ backups'[n] = b
          /\ \A i \in DOMAIN backups' :
               i # n => i \in DOMAIN backups /\ backups'[i] = backups[i]
          /\ \A i \in DOMAIN backups : i \in DOMAIN backups'
          /\ n \in DOMAIN backups => Len(backups') = Len(backups)
      BY <1>1, <3>1, <3>2, PutFacts
    <3>4. CASE n \in DOMAIN backups
      BY <2>1, <3>1, <3>3, <3>4 DEF Overwritten
    <3>5. CASE n \notin DOMAIN backups
      <4>1. CASE Saved(t, p)
        BY <3>3, <3>5, <4>1 DEF Saved
      <4>2. CASE Untouched(t, p) /\ t = attached /\ p \in S
        BY <3>2, <3>3, <4>2 DEF Untouched, Saved
      <4>3. CASE Untouched(t, p) /\ ~(t = attached /\ p \in S)
        BY <3>1, <3>2, <3>3, <4>3 DEF Untouched
      <4> QED  BY <4>1, <4>2, <4>3
    <3> QED  BY <3>4, <3>5
  <2>4. ASSUME NEW n \in DOMAIN backups, NEW whole \in BOOLEAN, FilesChange(n, whole)
        PROVE  Saved(t, p)' \/ Untouched(t, p)'
    <3>1. /\ backups' = [backups EXCEPT ![n] = [backups[n] EXCEPT !.whole = whole]]
          /\ UNCHANGED flash
      BY <2>4 DEF FilesChange, Put
    <3>2. Len(backups') = Len(backups)
      BY <1>1, <2>4, <3>1 DEF UInv, UTypeOK
    <3> QED  BY <2>1, <3>1, <3>2 DEF Overwritten
  <2> QED  BY <1>1, <2>1, <2>2, <2>3, <2>4
           DEF UNext, uvars, world, UnlockBegin, UnlockRefused, Confirm, RescueBegin, Begin,
               Finish, Stops, TokenExpires, Swap, ForceEdl
<1>2. UInv /\ [UNext]_uvars => [StaysKept]_uvars
  BY <1>1
<1> QED  BY <1>2, AlwaysUInv, PTL DEF USpec, StockIsKept

(* Under the same conditions, no command restarts a tablet unless every    *)
(* partition it wrote holds what it sent: unlock erases nothing it wrote,  *)
(* and stops where a step fails.                                           *)
THEOREM RestartsInNoDoubt ==
  ASSUME ~SwapsMidway, SerialsDiffer PROVE USpec => NeverRestartsInDoubt
<1> DEFINE Sure == \A t \in Tablets : at = "writing" /\ mode[t] = "edl" /\ mode'[t] = "left" =>
                     \A p \in DOMAIN job.sent : flash[t][p] = job.sent[p]
<1>1. ASSUME UInv, [UNext]_uvars PROVE Sure
  <2> SUFFICES ASSUME NEW t \in Tablets, at = "writing", mode[t] = "edl", mode'[t] = "left"
               PROVE  \A p \in DOMAIN job.sent : flash[t][p] = job.sent[p]
    OBVIOUS
  <2>1. Finish
    <3>1. ~UNCHANGED mode
      OBVIOUS
    <3> QED  BY <1>1, <3>1
             DEF UNext, uvars, world, TakeBackup, FilesChange, UnlockBegin, UnlockRefused, Confirm,
                 RescueBegin, Begin, Write, Erase, StepFails, StepDies, Stops,
                 TokenExpires, Swap, ForceEdl
  <2>2. t = attached
    BY <1>1, <2>1 DEF Finish, UInv, UTypeOK
  <2> QED  BY <1>1, <2>2 DEF UInv, SentOK
<1>2. UInv /\ [UNext]_uvars => [Sure]_uvars
  BY <1>1
<1>3. USpec => [][Sure]_uvars
  BY <1>2, AlwaysUInv, PTL DEF USpec
<1> QED  BY <1>3 DEF NeverRestartsInDoubt

=============================================================================
