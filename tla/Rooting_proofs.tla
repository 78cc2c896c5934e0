-------------------------- MODULE Rooting_proofs --------------------------
(***************************************************************************)
(* Rooting, unrooting and rescue for any builds, any files the owner may   *)
(* bring, any firmware fetched, any number of backups, made over existing  *)
(* ones or not, and Android updating itself whenever it likes.             *)
(***************************************************************************)
EXTENDS RootingProps, SequenceTheorems, TLAPS

(* The tool trusts an image of another model. *)
ForeignTrusted == \E img \in Image : Trusts(img) /\ img.kernel = Foreign

Native(images) == \A s \in DOMAIN images : images[s].kernel = Foreign => ForeignTrusted

(* There is a backup or firmware that an image of slot s may come from. *)
Sourced(s) ==
  \/ golden \in Builds \cup {Foreign}
  \/ \E i \in DOMAIN backups : s \in DOMAIN backups[i].images

DirsOK ==
  /\ Len(backups) <= MaxBackups
  /\ backups # <<>> => newest # 0
  /\ plan \in Plan => plan.backup \in DOMAIN backups

Taking == [kind : {"backup"}, slots : SUBSET AB, to : Nat]
          \cup [kind : {"prepare"}, slots : SUBSET AB, to : Nat, slot : AB]

Writes == [kind : {"apply", "unroot", "rescue"}, left : Seq(AB), done : SUBSET AB,
           images : Pictures, baks : Pictures, safe : BOOLEAN]

(* A command that found both slots in order, and writes images that start, *)
(* is never between two writes with one that does not.                     *)
InOrder ==
  job.safe /\ (\A s \in DOMAIN job.images : Bootable(job.images[s]))
    => \A s \in AB : Bootable(flash[s])

WritingOK ==
  /\ job \in Writes
  /\ \A i \in 1 .. Len(job.left) : job.left[i] \in DOMAIN job.images
  /\ Native(job.images) /\ Native(job.baks)
  /\ \A s \in DOMAIN job.baks : Sourced(s)
  /\ InOrder
  /\ up = "edl"

JobOK ==
  /\ at = "backing" => job \in Taking /\ job.to \in 1 .. NewDir
  /\ at \in {"staging", "planning"} =>
       job.slot \in AB /\ job.backup \in DOMAIN backups /\ Loads(backups[job.backup])
  /\ at = "writing" => WritingOK

RInv == RTypeOK /\ DirsOK /\ JobOK

-----------------------------------------------------------------------------
(* Images, pictures of the slots, and backups. *)

LEMMA PictureFacts ==
  ASSUME NEW images \in Pictures
  PROVE  DOMAIN images \in SUBSET AB /\ \A s \in DOMAIN images : images[s] \in Image
BY DEF Pictures

LEMMA StockFacts ==
  ASSUME NEW b \in Builds \cup {Foreign}
  PROVE  /\ Stock(b) \in Image /\ Stock(b).kernel = b
         /\ b \in Builds => Stock(b).kernel # Foreign /\ Bootable(Stock(b))
BY RootingAssumption DEF Stock, Image, Bootable

LEMMA HalfFacts ==
  ASSUME NEW old \in Image, NEW new \in Image, NEW img \in Half(old, new)
  PROVE  /\ img \in Image
         /\ img.kernel = Foreign => old.kernel = Foreign \/ new.kernel = Foreign
<1>1. CASE img \in {old, new}
  BY <1>1
<1>2. CASE img \in [kernel : {new.kernel} \cup (IF old.kernel = new.kernel THEN {} ELSE {Spoilt}),
                    ramdisk : {"torn"}]
  <2>1. img = [kernel |-> img.kernel, ramdisk |-> "torn"] /\ img.kernel \in {new.kernel, Spoilt}
    BY <1>2
  <2>2. new.kernel \in Builds \cup {Foreign, Spoilt}
    BY DEF Image
  <2> QED  BY <2>1, <2>2, RootingAssumption DEF Image
<1> QED  BY <1>1, <1>2 DEF Half

LEMMA BackupFacts ==
  ASSUME RInv, NEW i \in DOMAIN backups
  PROVE  /\ backups[i] \in Backup /\ backups[i].images \in Pictures
         /\ Native(backups[i].images)
         /\ \A s \in DOMAIN backups[i].images : Sourced(s)
<1>1. backups \in Seq(Backup)
  BY DEF RInv, RTypeOK
<1>2. backups[i] \in Backup /\ backups[i].images \in Pictures
  <2>1. backups[i] \in Backup
    BY <1>1
  <2> QED  BY <2>1 DEF Backup
<1>3. ASSUME NEW s \in DOMAIN backups[i].images, backups[i].images[s].kernel = Foreign
      PROVE  ForeignTrusted
  <2>1. backups[i].images[s] \in Image
    BY <1>2, PictureFacts
  <2>2. backups[i].images[s] \in Range(backups[i].images)
    BY <1>3 DEF Range
  <2> QED  BY <1>3, <2>1, <2>2 DEF ForeignTrusted, Trusts
<1> QED  BY <1>2, <1>3 DEF Native, Sourced

LEMMA FirmwareFacts ==
  ASSUME RInv, NEW img \in Firmware
  PROVE  /\ img \in Image /\ golden \in Builds \cup {Foreign}
         /\ img.kernel = Foreign => ForeignTrusted
<1>1. golden \in Builds \cup {Foreign} /\ img = Stock(golden)
  BY DEF Firmware
<1>2. img \in Image
  BY <1>1, StockFacts
<1> QED  BY <1>1, <1>2 DEF ForeignTrusted, Trusts

LEMMA LatestFacts ==
  ASSUME RInv, Latest # None
  PROVE  Latest \in DOMAIN backups /\ Loads(backups[Latest])
<1>1. Latest = newest /\ backups # <<>> /\ Loads(backups[newest])
  BY DEF Latest
<1>2. backups \in Seq(Backup) /\ newest \in 0 .. Len(backups) /\ newest # 0
  BY <1>1 DEF RInv, RTypeOK, DirsOK
<1>3. DOMAIN backups = 1 .. Len(backups) /\ Len(backups) \in Nat
  BY <1>2
<1>4. newest \in 1 .. Len(backups)
  BY <1>2, <1>3
<1> QED  BY <1>1, <1>3, <1>4

(* A file that passes the verifier has the kernel of a trusted image. *)
LEMMA VerifiedFacts ==
  ASSUME RInv, NEW s \in AB, NEW img, Verified(img, References(s)),
         img.kernel = Foreign
  PROVE  ForeignTrusted
<1>1. PICK r \in References(s) : r.kernel = img.kernel
  BY DEF Verified
<1>2. CASE r \in Firmware
  BY <1>1, <1>2, FirmwareFacts
<1>3. CASE Latest # None /\ r \in At(backups[Latest].images, s)
  <2>1. Latest \in DOMAIN backups
    BY <1>3, LatestFacts
  <2>2. s \in DOMAIN backups[Latest].images /\ r = backups[Latest].images[s]
    BY <1>3 DEF At
  <2> QED  BY <1>1, <2>1, <2>2, BackupFacts DEF Native
<1> QED  BY <1>1, <1>2, <1>3 DEF References

-----------------------------------------------------------------------------
(* What is left alone. *)

LEMMA InitRInv == ASSUME RInit PROVE RInv
<1>1. PICK b \in Builds : flash = [s \in AB |-> Stock(b)]
  BY DEF RInit
<1>2. \A s \in AB : flash[s] \in Image
  BY <1>1, StockFacts
<1>3. backups = <<>> /\ backups \in Seq(Backup) /\ Len(backups) = 0 /\ DOMAIN backups = {}
  BY DEF RInit
<1>4. RTypeOK
  BY <1>1, <1>2, <1>3 DEF RInit, RTypeOK, AB
<1>5. DirsOK
  BY <1>3, RootingAssumption, PlanAssumption DEF DirsOK, RInit
<1>6. JobOK
  BY DEF RInit, JobOK
<1> QED  BY <1>4, <1>5, <1>6 DEF RInv

(* Nothing but the command changes. *)
LEMMA Quiet ==
  ASSUME RInv, UNCHANGED <<backups, newest>>, RTypeOK', plan' \in {plan, None, Torn}, JobOK'
  PROVE  RInv'
<1>1. DirsOK'
  BY PlanAssumption DEF RInv, DirsOK
<1> QED  BY <1>1 DEF RInv

LEMMA AtRest ==
  ASSUME RInv, UNCHANGED <<flash, backups, newest>>,
         up' \in AB \cup {"edl"}, boots' = boots, clean' \in BOOLEAN,
         golden' \in Builds \cup {Foreign, None, Torn},
         plan' \in {plan, None}, at' \in {"none", "slotless"}
  PROVE  RInv'
<1>1. RTypeOK'
  BY DEF RInv, RTypeOK
<1>2. JobOK'
  BY DEF JobOK
<1> QED  BY <1>1, <1>2, Quiet

LEMMA RestartFacts ==
  ASSUME RInv, Restart \/ EnterEdl
  PROVE  /\ up' \in AB \cup {"edl"}
         /\ UNCHANGED <<flash, boots>>
BY DEF RInv, RTypeOK, Restart, EnterEdl

LEMMA QuietStep ==
  ASSUME RInv,
         \/ PrepareReuseRefused \/ ApplyRefused \/ PreflightDies \/ UnrootUnslotted
         \/ Finish \/ Stops \/ OwnerRestarts \/ FetchFirmware
  PROVE  /\ RInv' /\ UNCHANGED <<flash, backups>> /\ plan' \in {plan, None}
         /\ golden' = golden \/ golden' \in Builds \cup {Foreign, Torn}
<1>1. /\ up \in AB \cup {"edl"} /\ clean \in BOOLEAN
      /\ golden \in Builds \cup {Foreign, None, Torn}
      /\ at \in {"none", "backing", "staging", "planning", "writing", "slotless"}
  BY DEF RInv, RTypeOK
<1>2. CASE PrepareReuseRefused \/ ApplyRefused \/ OwnerRestarts
  <2>1. at = "none" /\ (Restart \/ EnterEdl) /\ UNCHANGED <<workspace, at, job>>
    BY <1>2 DEF PrepareReuseRefused, ApplyRefused, OwnerRestarts
  <2> QED  BY <1>1, <2>1, RestartFacts, AtRest DEF workspace
<1>3. CASE PreflightDies
  BY <1>1, <1>3, RestartFacts, AtRest DEF PreflightDies
<1>4. CASE UnrootUnslotted
  BY <1>1, <1>4, RestartFacts, AtRest DEF UnrootUnslotted, workspace
<1>5. CASE Finish
  <2>1. /\ UNCHANGED <<flash, boots, backups, newest, golden, clean>> /\ up' \in AB \cup {"edl"}
        /\ plan' \in {plan, None} /\ at' = "none"
    BY <1>1, <1>5, RestartFacts DEF Finish, device, End
  <2> QED  BY <1>1, <2>1, AtRest
<1>6. CASE Stops
  BY <1>1, <1>6, AtRest DEF Stops, End, device, workspace
<1>7. CASE FetchFirmware
  <2>1. golden' \in Builds \cup {Foreign, Torn}
    BY <1>7, FilesAssumption DEF FetchFirmware
  <2> QED  BY <1>1, <1>7, <2>1, AtRest DEF FetchFirmware, device
<1> QED  BY <1>2, <1>3, <1>4, <1>5, <1>6, <1>7

-----------------------------------------------------------------------------
(* Backups and plans. *)

LEMMA DirFacts ==
  ASSUME RInv
  PROVE  /\ backups \in Seq(Backup) /\ Len(backups) \in Nat /\ MaxBackups \in Nat
         /\ Len(backups) <= MaxBackups
         /\ DOMAIN backups = 1 .. Len(backups)
         /\ NewDir = Len(backups) + 1 /\ NewDir \notin DOMAIN backups
<1>1. backups \in Seq(Backup) /\ Len(backups) <= MaxBackups
  BY DEF RInv, RTypeOK, DirsOK
<1>2. Len(backups) \in Nat /\ DOMAIN backups = 1 .. Len(backups)
  BY <1>1
<1> QED  BY <1>1, <1>2, RootingAssumption DEF NewDir

LEMMA BeginStep ==
  ASSUME RInv,
         \/ \E slots \in (SUBSET AB) \ {{}}, to \in 1 .. NewDir : BackupBegin(slots, to)
         \/ PrepareBegin \/ PrepareReuse
  PROVE  RInv' /\ UNCHANGED <<flash, backups, golden, plan>>
<1>1. /\ EnterEdl /\ UNCHANGED workspace /\ at' \in {"backing", "staging"}
  BY DEF BackupBegin, PrepareBegin, PrepareReuse
<1>2. up' = "edl" /\ UNCHANGED <<flash, boots, backups, newest, golden, plan, clean>>
  BY <1>1 DEF EnterEdl, workspace
<1>3. RTypeOK'
  BY <1>1, <1>2 DEF RInv, RTypeOK
<1>4. JobOK'
  <2>1. ASSUME NEW slots \in SUBSET AB, NEW to \in 1 .. NewDir, BackupBegin(slots, to)
        PROVE  JobOK'
    <3>1. to \in Nat
      BY DirFacts
    <3> QED  BY <1>2, <2>1, <3>1 DEF BackupBegin, JobOK, Taking, NewDir
  <2>2. CASE PrepareBegin
    <3>1. up \in AB
      BY <2>2 DEF RInv, RTypeOK, PrepareBegin, InAndroid
    <3>2. NewDir \in Nat /\ NewDir \in 1 .. NewDir
      BY DirFacts
    <3>3. NewDir' = NewDir
      BY <1>2 DEF NewDir
    <3> QED  BY <1>2, <2>2, <3>1, <3>2, <3>3 DEF PrepareBegin, JobOK, Taking
  <2>3. CASE PrepareReuse
    <3>1. up \in AB
      BY <2>3 DEF RInv, RTypeOK, PrepareReuse, InAndroid
    <3>2. Latest \in DOMAIN backups /\ Loads(backups[Latest])
      BY <2>3, LatestFacts DEF PrepareReuse
    <3> QED  BY <1>2, <2>3, <3>1, <3>2 DEF PrepareReuse, JobOK
  <2> QED  BY <2>1, <2>2, <2>3
<1> QED  BY <1>2, <1>3, <1>4, Quiet

(* One directory changes, or is new; the others are what they were. *)
LEMMA PutFacts ==
  ASSUME RInv, at = "backing", NEW b \in Backup, Put(b), plan' = plan
  PROVE  /\ backups' \in Seq(Backup) /\ newest' \in 0 .. Len(backups')
         /\ job.to \in DOMAIN backups' /\ backups'[job.to] = b
         /\ \A i \in DOMAIN backups :
              i \in DOMAIN backups' /\ (i # job.to => backups'[i] = backups[i])
         /\ \A i \in DOMAIN backups' : i \in DOMAIN backups \/ i = job.to
         /\ DirsOK'
<1>1. /\ backups \in Seq(Backup) /\ Len(backups) \in Nat /\ MaxBackups \in Nat
      /\ DOMAIN backups = 1 .. Len(backups) /\ NewDir = Len(backups) + 1
      /\ job.to \in 1 .. NewDir /\ job.to <= MaxBackups /\ newest' = job.to
      /\ Len(backups) <= MaxBackups
  BY DirFacts DEF RInv, JobOK, Put
<1>2. CASE job.to = NewDir
  <2>1. backups' = Append(backups, b)
    BY <1>2 DEF Put
  <2>2. /\ backups' \in Seq(Backup) /\ Len(backups') = Len(backups) + 1
        /\ \A i \in 1 .. Len(backups) : backups'[i] = backups[i]
        /\ backups'[Len(backups) + 1] = b
    BY <1>1, <2>1
  <2>3. DOMAIN backups' = 1 .. Len(backups) + 1
    BY <2>2
  <2>4. DirsOK'
    BY <1>1, <1>2, <2>2, <2>3 DEF DirsOK, RInv
  <2> QED  BY <1>1, <1>2, <2>2, <2>3, <2>4
<1>3. CASE job.to # NewDir
  <2>1. backups' = [backups EXCEPT ![job.to] = b] /\ job.to \in DOMAIN backups
    BY <1>1, <1>3 DEF Put
  <2>2. /\ backups' \in Seq(Backup) /\ Len(backups') = Len(backups)
        /\ DOMAIN backups' = DOMAIN backups
        /\ \A i \in DOMAIN backups : backups'[i] = IF i = job.to THEN b ELSE backups[i]
    BY <1>1, <2>1
  <2>3. DirsOK'
    BY <1>1, <2>1, <2>2 DEF DirsOK, RInv
  <2> QED  BY <1>1, <2>1, <2>2, <2>3
<1> QED  BY <1>2, <1>3

LEMMA SnapshotFacts ==
  ASSUME RInv, at = "backing"
  PROVE  /\ job \in Taking /\ job.slots \in SUBSET AB
         /\ Snapshot \in Pictures /\ DOMAIN Snapshot = job.slots
         /\ \A s \in job.slots : Snapshot[s] = flash[s]
         /\ [state |-> "intact", images |-> Snapshot] \in Backup
<1>1. job \in Taking /\ job.slots \in SUBSET AB
  BY DEF RInv, JobOK, Taking
<1>2. Snapshot \in [job.slots -> Image]
  BY <1>1 DEF Snapshot, RInv, RTypeOK
<1>3. Snapshot \in Pictures
  BY <1>1, <1>2 DEF Pictures
<1> QED  BY <1>1, <1>2, <1>3 DEF Snapshot, Backup

LEMMA TornFacts ==
  /\ [state |-> "torn", images |-> <<>>] \in Backup
  /\ DOMAIN <<>> = {}
<1>1. <<>> \in [{} -> Image] /\ DOMAIN <<>> = {} /\ {} \in SUBSET AB
  OBVIOUS
<1>2. <<>> \in Pictures
  BY <1>1 DEF Pictures
<1> QED  BY <1>1, <1>2 DEF Backup

LEMMA CreateStep ==
  ASSUME RInv, Create
  PROVE  RInv'
<1> DEFINE b == [state |-> "intact", images |-> Snapshot]
<1>1. /\ at = "backing" /\ Put(b) /\ BackedUp
      /\ UNCHANGED <<flash, up, boots, golden, plan, clean>>
  BY DEF Create, device
<1>2. job \in Taking /\ b \in Backup
  BY <1>1, SnapshotFacts
<1>3. Loads(b)
  BY DEF Loads
<1> HIDE DEF b
<1>4. /\ backups' \in Seq(Backup) /\ newest' \in 0 .. Len(backups') /\ DirsOK'
      /\ job.to \in DOMAIN backups' /\ backups'[job.to] = b
  BY <1>1, <1>2, PutFacts
<1>5. \/ at' = "none"
      \/ /\ at' = "staging" /\ job.kind = "prepare"
         /\ job' = [kind |-> "prepare", slot |-> job.slot, backup |-> job.to]
  BY <1>1, <1>2 DEF BackedUp, End, Taking
<1>6. RTypeOK'
  BY <1>1, <1>4, <1>5 DEF RInv, RTypeOK
<1>7. JobOK'
  <2>1. CASE at' = "none"
    BY <2>1 DEF JobOK
  <2>2. CASE at' = "staging"
    <3>1. job.slot \in AB
      BY <1>2, <1>5, <2>2 DEF Taking
    <3> QED  BY <1>3, <1>4, <1>5, <2>2, <3>1 DEF JobOK
  <2> QED  BY <1>5, <2>1, <2>2
<1> QED  BY <1>4, <1>6, <1>7 DEF RInv

(* The replaced images are of the same slots as those of the manifest. *)
LEMMA AlteredFacts ==
  ASSUME RInv, at = "backing", NEW old \in Backup,
         NEW replaced \in SUBSET (job.slots \cap DOMAIN old.images),
         NEW b \in Altered(old, [s \in DOMAIN old.images |->
                             IF s \in replaced THEN flash[s] ELSE old.images[s]])
  PROVE  b \in Backup
<1> DEFINE new == [s \in DOMAIN old.images |->
                     IF s \in replaced THEN flash[s] ELSE old.images[s]]
<1>1. old.images \in Pictures /\ old.state \in {"intact", "altered", "torn"}
  BY DEF Backup
<1>2. DOMAIN old.images \in SUBSET AB /\ \A s \in DOMAIN old.images : old.images[s] \in Image
  BY <1>1, PictureFacts
<1>3. \A s \in AB : flash[s] \in Image
  BY DEF RInv, RTypeOK
<1>4. new \in [DOMAIN old.images -> Image]
  BY <1>2, <1>3
<1>5. new \in Pictures
  BY <1>2, <1>4 DEF Pictures
<1> HIDE DEF new
<1>6. b = old \/ (b.state \in {"altered", "intact"} /\ b.images = new
                  /\ b = [state |-> b.state, images |-> b.images])
  BY DEF Altered, new
<1> QED  BY <1>5, <1>6 DEF Backup

LEMMA CreateEndsStep ==
  ASSUME RInv, CreateTorn \/ CreateStops
  PROVE  RInv'
<1>1. /\ at = "backing" /\ at' = "none"
      /\ UNCHANGED <<flash, up, boots, golden, plan, clean>>
  BY DEF CreateTorn, CreateStops, End, device
<1>2. \E b \in Backup : Put(b)
  <2>1. CASE CreateTorn
    BY <2>1, TornFacts DEF CreateTorn
  <2>2. CASE CreateStops
    <3>1. PICK replaced \in SUBSET (job.slots \cap DOMAIN backups[job.to].images) :
            \E b \in Altered(backups[job.to], [s \in DOMAIN backups[job.to].images |->
                 IF s \in replaced THEN flash[s] ELSE backups[job.to].images[s]]) : Put(b)
      BY <2>2 DEF CreateStops
    <3>2. backups[job.to] \in Backup
      BY <2>2, BackupFacts DEF CreateStops
    <3> QED  BY <1>1, <3>1, <3>2, AlteredFacts
  <2> QED  BY <2>1, <2>2
<1>3. backups' \in Seq(Backup) /\ newest' \in 0 .. Len(backups') /\ DirsOK'
  BY <1>1, <1>2, PutFacts
<1>4. RTypeOK'
  BY <1>1, <1>3 DEF RInv, RTypeOK
<1>5. JobOK'
  BY <1>1 DEF JobOK
<1> QED  BY <1>3, <1>4, <1>5 DEF RInv

LEMMA StageStep ==
  ASSUME RInv, Stage
  PROVE  RInv' /\ UNCHANGED <<flash, backups, golden, plan>>
<1>1. /\ at = "staging" /\ Restart /\ UNCHANGED <<backups, newest, golden, plan, clean>>
      /\ at' = "none" \/ (at' = "planning" /\ UNCHANGED job)
  BY DEF Stage, End, workspace
<1>2. up' \in AB \cup {"edl"} /\ UNCHANGED <<flash, boots>>
  BY <1>1, RestartFacts
<1>3. RTypeOK'
  BY <1>1, <1>2 DEF RInv, RTypeOK
<1>4. JobOK'
  BY <1>1 DEF RInv, JobOK
<1> QED  BY <1>1, <1>2, <1>3, <1>4, Quiet

LEMMA WritePlanStep ==
  ASSUME RInv, WritePlan
  PROVE  RInv' /\ Stands' /\ UNCHANGED <<flash, backups, golden>>
<1>1. /\ at = "planning" /\ at' = "none"
      /\ plan' \in {[slot |-> job.slot, backup |-> job.backup], Torn}
      /\ UNCHANGED <<flash, up, boots, backups, newest, golden, clean>>
  BY DEF WritePlan, End, device
<1>2. job.slot \in AB /\ job.backup \in DOMAIN backups /\ Loads(backups[job.backup])
  BY <1>1 DEF RInv, JobOK
<1>3. job.backup \in 1 .. MaxBackups
  BY <1>2, DirFacts
<1>4. [slot |-> job.slot, backup |-> job.backup] \in Plan
  BY <1>2, <1>3 DEF Plan
<1>5. RTypeOK'
  BY <1>1, <1>4 DEF RInv, RTypeOK
<1>6. DirsOK'
  BY <1>1, <1>2, PlanAssumption DEF DirsOK, RInv
<1>7. JobOK'
  BY <1>1 DEF JobOK
<1>8. Stands'
  BY <1>1, <1>2, PlanAssumption DEF Stands, Loads
<1> QED  BY <1>1, <1>5, <1>6, <1>7, <1>8 DEF RInv

-----------------------------------------------------------------------------
(* Commands that are going to write. *)

(* What a command is going to write, and what it may roll back to, comes   *)
(* from something the tool trusts.                                         *)
LEMMA WritingStep ==
  ASSUME RInv,
         NEW kind \in {"apply", "unroot", "rescue"}, NEW left \in Seq(AB),
         NEW images \in Pictures, NEW baks \in Pictures,
         \A i \in 1 .. Len(left) : left[i] \in DOMAIN images,
         Native(images), Native(baks), \A s \in DOMAIN baks : Sourced(s),
         Writing(kind, left, images, baks),
         UNCHANGED <<flash, boots, backups, newest, golden, plan, clean>>, up' = "edl"
  PROVE  RInv' /\ UNCHANGED <<flash, backups, golden, plan>>
<1> DEFINE safe == \A s \in AB : Bootable(flash[s])
<1>1. /\ at' = "writing"
      /\ job' = [kind |-> kind, left |-> left, done |-> {}, images |-> images,
                 baks |-> baks, safe |-> safe]
  BY DEF Writing
<1>2. /\ job'.left = left /\ job'.images = images /\ job'.baks = baks /\ job'.safe = safe
      /\ job' \in Writes
  BY <1>1 DEF Writes
<1>3. RTypeOK'
  BY <1>1 DEF RInv, RTypeOK
<1>4. (\A s : Sourced(s) => Sourced(s)') /\ (ForeignTrusted => ForeignTrusted')
  BY DEF Sourced, ForeignTrusted, Trusts, Firmware
<1>5. InOrder'
  BY <1>2 DEF InOrder, Bootable
<1>6. JobOK'
  BY <1>1, <1>2, <1>4, <1>5 DEF JobOK, WritingOK, Native
<1> QED  BY <1>3, <1>6, Quiet

(* What a restore can take from a backup or from the firmware. *)
LEMMA SourceFacts ==
  ASSUME RInv, NEW images \in FromLatest \cup FromNamed \cup FromGolden
  PROVE  /\ images \in Pictures /\ Native(images)
         /\ \A s \in DOMAIN images : Sourced(s)
<1>1. CASE \E i \in DOMAIN backups : images = backups[i].images
  BY <1>1, BackupFacts
<1>2. CASE images \in FromLatest
  BY <1>1, <1>2, LatestFacts DEF FromLatest
<1>3. CASE images \in FromNamed
  <2>1. PICK c \in Range(backups) : images = c.images
    BY <1>3 DEF FromNamed
  <2> QED  BY <1>1, <2>1 DEF Range
<1>4. CASE images \in FromGolden
  <2>1. PICK img \in Firmware : images = [s \in AB |-> img]
    BY <1>4 DEF FromGolden
  <2>2. /\ img \in Image /\ golden \in Builds \cup {Foreign}
        /\ img.kernel = Foreign => ForeignTrusted
    BY FirmwareFacts
  <2>3. images \in [AB -> Image] /\ AB \in SUBSET AB
    BY <2>1, <2>2
  <2>4. images \in Pictures /\ \A s \in DOMAIN images : images[s] = img
    BY <2>1, <2>3 DEF Pictures
  <2> QED  BY <2>2, <2>4 DEF Native, Sourced
<1> QED  BY <1>2, <1>3, <1>4

LEMMA RestoreStep ==
  ASSUME RInv, NEW kind \in {"unroot", "rescue"}, NEW slots \in Seq(AB),
         NEW sources \in SUBSET (FromLatest \cup FromNamed \cup FromGolden),
         Restore(kind, slots, sources),
         UNCHANGED <<flash, boots, backups, newest, golden, plan, clean>>, up' = "edl"
  PROVE  RInv' /\ UNCHANGED <<flash, backups, golden, plan>>
<1>1. PICK images \in sources :
        Range(slots) \subseteq DOMAIN images /\ Writing(kind, slots, images, images)
  BY DEF Restore
<1>2. images \in Pictures /\ Native(images) /\ \A s \in DOMAIN images : Sourced(s)
  BY SourceFacts
<1>3. \A i \in 1 .. Len(slots) : slots[i] \in DOMAIN images
  BY <1>1 DEF Range
<1> QED  BY <1>1, <1>2, <1>3, WritingStep

LEMMA UnrootStep ==
  ASSUME RInv, NEW s \in AB, Unroot(s)
  PROVE  RInv' /\ UNCHANGED <<flash, backups, golden, plan>>
<1>1. /\ Restore("unroot", <<s>>, FromLatest \cup FromGolden)
      /\ UNCHANGED <<flash, boots, backups, newest, golden, plan, clean>> /\ up' = "edl"
  BY DEF Unroot, EnterEdl, workspace
<1>2. <<s>> \in Seq(AB) /\ "unroot" \in {"unroot", "rescue"}
  OBVIOUS
<1>3. FromLatest \cup FromGolden \in SUBSET (FromLatest \cup FromNamed \cup FromGolden)
  OBVIOUS
<1> QED  BY <1>1, <1>2, <1>3, RestoreStep

LEMMA RescueStep ==
  ASSUME RInv, NEW slots \in {<<"a">>, <<"b">>, <<"a", "b">>}, Rescue(slots)
  PROVE  RInv' /\ UNCHANGED <<flash, backups, golden, plan>>
<1>1. /\ Restore("rescue", slots, FromNamed \cup FromGolden)
      /\ UNCHANGED <<flash, boots, backups, newest, golden, plan, clean>> /\ up' = "edl"
  BY DEF Rescue, device, workspace
<1>2. slots \in Seq(AB) /\ "rescue" \in {"unroot", "rescue"}
  <2>1. <<"a">> \in Seq(AB) /\ <<"b">> \in Seq(AB) /\ <<"a", "b">> \in Seq(AB)
    BY "a" \in AB, "b" \in AB DEF AB
  <2> QED  BY <2>1
<1>3. FromNamed \cup FromGolden \in SUBSET (FromLatest \cup FromNamed \cup FromGolden)
  OBVIOUS
<1> QED  BY <1>1, <1>2, <1>3, RestoreStep

LEMMA ApplyStep ==
  ASSUME RInv, NEW img \in Files, NEW both \in BOOLEAN, ApplyBegin(img, both)
  PROVE  RInv' /\ UNCHANGED <<flash, backups, golden, plan>>
<1> DEFINE left   == IF both THEN <<plan.slot, Other(plan.slot)>> ELSE <<plan.slot>>
           images == [s \in AB |-> img]
           baks   == backups[plan.backup].images
<1>1. /\ plan \in Plan /\ Verified(img, References(plan.slot))
      /\ Writing("apply", left, images, baks)
      /\ UNCHANGED <<flash, boots, backups, newest, golden, plan, clean>> /\ up' = "edl"
  BY DEF ApplyBegin, EnterEdl, workspace
<1>2. plan.slot \in AB /\ Other(plan.slot) \in AB
  BY <1>1 DEF Plan, AB, Other
<1>3. img \in Image /\ (img.kernel = Foreign => ForeignTrusted)
  BY <1>1, <1>2, FilesAssumption, VerifiedFacts
<1>4. images \in Pictures /\ Native(images) /\ DOMAIN images = AB
  <2>1. images \in [AB -> Image] /\ AB \in SUBSET AB
    BY <1>3
  <2> QED  BY <1>3, <2>1 DEF Pictures, Native
<1>5. plan.backup \in DOMAIN backups
  BY <1>1 DEF RInv, DirsOK
<1>6. baks \in Pictures /\ Native(baks) /\ \A s \in DOMAIN baks : Sourced(s)
  BY <1>5, BackupFacts
<1>7. left \in Seq(AB)
  BY <1>2
<1>8. \A i \in 1 .. Len(left) : left[i] \in DOMAIN images
  BY <1>4, <1>7
<1> HIDE DEF left, images, baks
<1> QED  BY <1>1, <1>4, <1>6, <1>7, <1>8, WritingStep

-----------------------------------------------------------------------------
(* Writes. *)

LEMMA TargetFacts ==
  ASSUME RInv, CanWrite
  PROVE  /\ Target \in AB /\ Target \in DOMAIN job.images
         /\ job.images[Target] \in Image /\ job.baks[Target] \in Image
         /\ job.images[Target].kernel = Foreign => ForeignTrusted
         /\ job.baks[Target].kernel = Foreign => ForeignTrusted
         /\ Sourced(Target)
         /\ Tail(job.left) \in Seq(AB)
         /\ \A i \in 1 .. Len(Tail(job.left)) : Tail(job.left)[i] \in DOMAIN job.images
<1>1. /\ job \in Writes
      /\ \A i \in 1 .. Len(job.left) : job.left[i] \in DOMAIN job.images
      /\ Native(job.images) /\ Native(job.baks)
      /\ \A s \in DOMAIN job.baks : Sourced(s)
  BY DEF RInv, JobOK, WritingOK, CanWrite
<1>2. /\ job.left \in Seq(AB) /\ job.left # <<>> /\ Target \in DOMAIN job.baks
      /\ job.images \in Pictures /\ job.baks \in Pictures
  BY <1>1 DEF CanWrite, Writes
<1>3. Len(job.left) \in Nat /\ Len(job.left) # 0
  BY <1>2, EmptySeq
<1>4. 1 \in 1 .. Len(job.left)
  BY <1>3
<1>5. Target = job.left[1] /\ Target \in AB /\ Target \in DOMAIN job.images
  BY <1>1, <1>2, <1>4 DEF Target
<1>6. /\ Tail(job.left) \in Seq(AB)
      /\ \A i \in 1 .. Len(Tail(job.left)) : Tail(job.left)[i] \in DOMAIN job.images
  BY <1>1, <1>2, <1>3
<1> QED  BY <1>1, <1>2, <1>5, <1>6, PictureFacts DEF Native

(* What a write of any outcome leaves in its slot. *)
LEMMA SlotWritten ==
  ASSUME RInv, Write \/ WriteFails \/ WriteDies
  PROVE  /\ CanWrite /\ UNCHANGED <<up, boots, backups, newest, golden, plan>>
         /\ \E img \in Image :
              /\ flash' = [flash EXCEPT ![Target] = img]
              /\ img.kernel = Foreign => flash[Target].kernel = Foreign \/ ForeignTrusted
              /\ Write => img = job.images[Target]
<1>1. CanWrite /\ UNCHANGED <<up, boots, backups, newest, golden, plan>>
  BY DEF Write, WriteFails, WriteDies, workspace
<1>2. /\ Target \in AB /\ job.images[Target] \in Image /\ job.baks[Target] \in Image
      /\ job.images[Target].kernel = Foreign => ForeignTrusted
      /\ job.baks[Target].kernel = Foreign => ForeignTrusted
  BY <1>1, TargetFacts
<1>3. flash[Target] \in Image
  BY <1>2 DEF RInv, RTypeOK
<1>4. CASE Write
  BY <1>1, <1>2, <1>4 DEF Write
<1>5. CASE (WriteFails \/ WriteDies) /\ ~Write
  <2>1. PICK img \in Half(flash[Target], job.images[Target])
                     \cup Half(flash[Target], job.baks[Target]) :
          flash' = [flash EXCEPT ![Target] = img]
    BY <1>5 DEF WriteFails, WriteDies, Leave
  <2>2. img \in Image
        /\ (img.kernel = Foreign => flash[Target].kernel = Foreign \/ ForeignTrusted)
    BY <1>2, <1>3, HalfFacts
  <2> QED  BY <1>1, <1>5, <2>1, <2>2
<1> QED  BY <1>4, <1>5

LEMMA WriteStep ==
  ASSUME RInv, Write
  PROVE  RInv'
<1> DEFINE img == job.images[Target]
<1>1. /\ CanWrite /\ flash' = [flash EXCEPT ![Target] = img]
      /\ job' = [job EXCEPT !.left = Tail(@), !.done = @ \cup {Target}]
      /\ UNCHANGED <<up, boots, backups, newest, golden, plan, clean, at>>
  BY DEF Write, workspace
<1>2. /\ Target \in AB /\ Target \in DOMAIN job.images /\ img \in Image
      /\ Tail(job.left) \in Seq(AB)
      /\ \A i \in 1 .. Len(Tail(job.left)) : Tail(job.left)[i] \in DOMAIN job.images
  BY <1>1, TargetFacts
<1>3. at = "writing" /\ WritingOK
  BY <1>1 DEF CanWrite, RInv, JobOK
<1>4. /\ job' \in Writes /\ job'.left = Tail(job.left) /\ job'.images = job.images
      /\ job'.baks = job.baks /\ job'.safe = job.safe
  BY <1>1, <1>2, <1>3 DEF WritingOK, Writes
<1>5. (\A s : Sourced(s) => Sourced(s)') /\ (ForeignTrusted => ForeignTrusted')
  BY <1>1 DEF Sourced, ForeignTrusted, Trusts, Firmware
<1>6. flash' \in [AB -> Image] /\ \A s \in AB : flash'[s] = IF s = Target THEN img ELSE flash[s]
  BY <1>1, <1>2 DEF RInv, RTypeOK
<1>7. InOrder'
  BY <1>2, <1>3, <1>4, <1>6 DEF WritingOK, InOrder, Bootable
<1>8. JobOK'
  BY <1>1, <1>2, <1>3, <1>4, <1>5, <1>7 DEF JobOK, WritingOK, Native
<1>9. RTypeOK'
  BY <1>1, <1>6 DEF RInv, RTypeOK
<1> QED  BY <1>1, <1>8, <1>9, Quiet

LEMMA WriteStopsStep ==
  ASSUME RInv, WriteFails \/ WriteDies
  PROVE  RInv'
<1>1. /\ at' = "none" /\ clean' \in BOOLEAN /\ CanWrite
      /\ UNCHANGED <<up, boots, backups, newest, golden, plan>>
  BY DEF WriteFails, WriteDies, End, workspace, RInv, RTypeOK
<1>2. Target \in AB /\ \E img \in Image : flash' = [flash EXCEPT ![Target] = img]
  BY <1>1, SlotWritten, TargetFacts
<1>3. flash' \in [AB -> Image]
  BY <1>2 DEF RInv, RTypeOK
<1>4. RTypeOK'
  BY <1>1, <1>3 DEF RInv, RTypeOK
<1>5. JobOK'
  BY <1>1 DEF JobOK
<1> QED  BY <1>1, <1>4, <1>5, Quiet

-----------------------------------------------------------------------------
(* Android. *)

LEMMA UpdateStep ==
  ASSUME RInv, Update
  PROVE  /\ RInv' /\ UNCHANGED <<backups, golden, plan>> /\ at # "writing"
         /\ \A s \in AB : flash'[s] = flash[s]
                          \/ (flash'[s].kernel # Foreign /\ Bootable(flash'[s]))
<1>1. PICK b \in Builds : flash' = [flash EXCEPT ![Other(up)] = Stock(b)]
  BY DEF Update
<1>2. boots' = Other(up) /\ UNCHANGED <<up, backups, newest, golden, plan, clean, at, job>>
  BY DEF Update, workspace
<1>3. up \in AB /\ Other(up) \in AB /\ at # "writing"
  BY DEF Update, InAndroid, RInv, RTypeOK, Other, AB, JobOK, WritingOK
<1>4. Stock(b) \in Image /\ Stock(b).kernel # Foreign /\ Bootable(Stock(b))
  BY StockFacts
<1>5. /\ flash' \in [AB -> Image]
      /\ \A s \in AB : flash'[s] \in {flash[s], Stock(b)}
  BY <1>1, <1>3, <1>4 DEF RInv, RTypeOK
<1>6. RTypeOK'
  BY <1>2, <1>3, <1>5 DEF RInv, RTypeOK
<1>7. JobOK'
  BY <1>2, <1>3 DEF RInv, JobOK, NewDir
<1> QED  BY <1>2, <1>3, <1>4, <1>5, <1>6, <1>7, Quiet

-----------------------------------------------------------------------------
(* Every step is one of four: it leaves slots and backups alone, it makes a*)
(* backup, it writes a slot, or Android updates itself.                    *)

Still ==
  /\ UNCHANGED <<flash, backups>>
  /\ golden' = golden \/ golden' \in Builds \cup {Foreign, Torn}
  /\ Stands' \/ plan' = plan

LEMMA StepCases ==
  ASSUME RInv, [RNext]_rvars
  PROVE  \/ Still
         \/ Create \/ CreateTorn \/ CreateStops
         \/ Write \/ WriteFails \/ WriteDies
         \/ Update
<1>1. CASE \/ PrepareReuseRefused \/ ApplyRefused \/ PreflightDies \/ UnrootUnslotted
           \/ Finish \/ Stops \/ OwnerRestarts \/ FetchFirmware
  <2>1. None \notin Plan
    BY PlanAssumption
  <2> QED  BY <1>1, <2>1, QuietStep DEF Still, Stands
<1>2. CASE WritePlan
  BY <1>2, WritePlanStep DEF Still
<1>3. CASE UNCHANGED rvars
  BY <1>3 DEF rvars, Still
<1> QED  BY <1>1, <1>2, <1>3, BeginStep, StageStep, ApplyStep, UnrootStep, RescueStep
         DEF RNext, Still

LEMMA RNextInv == ASSUME RInv, RNext PROVE RInv'
BY BeginStep, CreateStep, CreateEndsStep, StageStep, WritePlanStep, ApplyStep, UnrootStep,
   RescueStep, WriteStep, WriteStopsStep, QuietStep, UpdateStep DEF RNext

LEMMA RStutter == ASSUME RInv, UNCHANGED rvars PROVE RInv'
<1>1. RTypeOK'
  BY DEF rvars, RInv, RTypeOK
<1>2. JobOK'
  <2>1. /\ \A s : Sourced(s) => Sourced(s)'
        /\ ForeignTrusted => ForeignTrusted'
    BY DEF rvars, Sourced, ForeignTrusted, Trusts, Firmware
  <2>2. WritingOK => WritingOK'
    BY <2>1 DEF rvars, WritingOK, Native, InOrder, Bootable
  <2> QED  BY <2>2 DEF rvars, RInv, JobOK, NewDir
<1> QED  BY <1>1, <1>2, Quiet DEF rvars

LEMMA AlwaysRInv == RSpec => []RInv
<1>1. RInit => RInv
  BY InitRInv
<1>2. RInv /\ [RNext]_rvars => RInv'
  BY RNextInv, RStutter
<1> QED  BY <1>1, <1>2, PTL DEF RSpec

(* Every variable keeps its type. *)
THEOREM RootingTyped == RSpec => []RTypeOK
<1>1. RInv => RTypeOK
  BY DEF RInv
<1> QED  BY <1>1, AlwaysRInv, PTL

-----------------------------------------------------------------------------
(* An image of another model reaches a slot, by apply, by a rollback, by   *)
(* unroot or by rescue, only while the tool trusts such an image: firmware *)
(* fetched for another model, or a backup of what came from it.            *)
THEOREM OwnImagesOnly == RSpec => NeverForeign
<1>1. ASSUME RInv, [RNext]_rvars PROVE NoneForeign
  <2> SUFFICES ASSUME NEW s \in AB, flash'[s].kernel = Foreign
               PROVE  flash[s].kernel = Foreign \/ ForeignTrusted
    BY DEF NoneForeign, ForeignTrusted
  <2>1. CASE UNCHANGED flash
    BY <2>1
  <2>2. CASE Update
    BY <1>1, <2>2, UpdateStep
  <2>3. CASE Write \/ WriteFails \/ WriteDies
    <3>1. PICK img \in Image :
            /\ flash' = [flash EXCEPT ![Target] = img]
            /\ img.kernel = Foreign => flash[Target].kernel = Foreign \/ ForeignTrusted
      BY <1>1, <2>3, SlotWritten
    <3>2. flash \in [AB -> Image]
      BY <1>1 DEF RInv, RTypeOK
    <3> QED  BY <3>1, <3>2
  <2> QED  BY <1>1, <2>1, <2>2, <2>3, StepCases
           DEF Still, Create, CreateTorn, CreateStops, device
<1>2. RInv /\ [RNext]_rvars => [NoneForeign]_rvars
  BY <1>1
<1> QED  BY <1>2, AlwaysRInv, PTL DEF RSpec, NeverForeign

(* A slot that does not change for the worse, and backups that stay, keep  *)
(* the way back.                                                           *)
LEMMA WayBackKept ==
  ASSUME NEW s, WayBack(s), UNCHANGED backups,
         golden' = golden \/ golden' \in Builds \cup {Torn},
         flash'[s] = flash[s] \/ Bootable(flash'[s])
  PROVE  WayBack(s)'
<1>1. Returns(s) => Returns(s)'
  BY DEF Returns, At, Bootable, Intact
<1>2. CASE Returns(s)
  BY <1>1, <1>2 DEF WayBack
<1>3. CASE /\ Bootable(flash[s])
           /\ \A i \in DOMAIN backups : s \notin DOMAIN backups[i].images
  BY <1>3 DEF WayBack, Bootable
<1> QED  BY <1>2, <1>3 DEF WayBack

(* So does a backup in a new directory: what it is of starts, or was       *)
(* covered before.                                                         *)
LEMMA NewBackupKeeps ==
  ASSUME RInv, at = "backing", job.to \notin DOMAIN backups, NEW b \in Backup, Put(b),
         UNCHANGED <<flash, golden, plan>>, NEW s \in AB, WayBack(s),
         \A t \in DOMAIN b.images : Intact(b) /\ b.images[t] = flash[t]
  PROVE  WayBack(s)'
<1>1. /\ job.to \in DOMAIN backups' /\ backups'[job.to] = b
      /\ \A i \in DOMAIN backups : i \in DOMAIN backups' /\ backups'[i] = backups[i]
      /\ \A i \in DOMAIN backups' : i \in DOMAIN backups \/ i = job.to
  BY PutFacts
<1>2. CASE Returns(s)
  <2>1. Returns(s)'
    BY <1>1, <1>2 DEF Returns, At, Bootable, Intact
  <2> QED  BY <2>1 DEF WayBack
<1>3. CASE Bootable(flash[s]) /\ \A i \in DOMAIN backups : s \notin DOMAIN backups[i].images
  <2>1. CASE s \in DOMAIN b.images
    <3>1. Intact(b) /\ b.images[s] \in At(b.images, s) /\ Bootable(b.images[s])
      BY <1>3, <2>1 DEF At
    <3>2. Returns(s)'
      BY <1>1, <3>1 DEF Returns, At, Bootable, Intact
    <3> QED  BY <3>2 DEF WayBack
  <2>2. CASE s \notin DOMAIN b.images
    BY <1>1, <1>3, <2>2 DEF WayBack, Bootable
  <2> QED  BY <2>1, <2>2
<1> QED  BY <1>2, <1>3 DEF WayBack

(* Whatever fails and whatever Android does meanwhile, what there is to go *)
(* back to is lost only to a backup over an existing directory, or to      *)
(* firmware of another model.                                              *)
THEOREM AlwaysAWayBack == RSpec => SomethingToGoBackTo
<1>1. ASSUME RInv, [RNext]_rvars PROVE WayBackStays
  <2> SUFFICES ASSUME NEW s \in AB, WayBack(s),
                      ~(at = "backing" /\ job.to \in DOMAIN backups), golden' # Foreign
               PROVE  WayBack(s)'
    BY DEF WayBackStays
  <2>1. CASE Still
    BY <2>1, WayBackKept DEF Still
  <2>2. CASE Update
    BY <1>1, <2>2, UpdateStep, WayBackKept
  <2>3. CASE Create
    <3>1. /\ at = "backing" /\ Put([state |-> "intact", images |-> Snapshot])
          /\ UNCHANGED <<flash, golden, plan>>
      BY <2>3 DEF Create, device
    <3>2. /\ [state |-> "intact", images |-> Snapshot] \in Backup
          /\ \A t \in DOMAIN Snapshot : Snapshot[t] = flash[t]
      BY <1>1, <3>1, SnapshotFacts
    <3> QED  BY <1>1, <3>1, <3>2, NewBackupKeeps DEF Intact
  <2>4. CASE CreateTorn
    <3>1. /\ at = "backing" /\ Put([state |-> "torn", images |-> <<>>])
          /\ UNCHANGED <<flash, golden, plan>>
      BY <2>4 DEF CreateTorn, device
    <3>2. \A t \in DOMAIN <<>> : FALSE
      BY TornFacts
    <3> QED  BY <1>1, <3>1, <3>2, TornFacts, NewBackupKeeps
  <2>5. CASE CreateStops
    BY <2>5 DEF CreateStops
  <2>6. CASE Write \/ WriteFails \/ WriteDies
    <3>1. /\ UNCHANGED <<backups, golden>> /\ CanWrite
          /\ \E img : flash' = [flash EXCEPT ![Target] = img]
      BY <1>1, <2>6, SlotWritten
    <3>2. Sourced(Target)
      BY <1>1, <3>1, TargetFacts
    <3>3. CASE s = Target
      <4>1. Returns(s)
        BY <3>1, <3>2, <3>3 DEF Sourced, WayBack, Returns
      <4> QED  BY <3>1, <4>1 DEF WayBack, Returns, At, Bootable, Intact
    <3>4. CASE s # Target
      <4>1. flash'[s] = flash[s]
        BY <1>1, <3>1, <3>4 DEF RInv, RTypeOK
      <4> QED  BY <3>1, <4>1, WayBackKept
    <3> QED  BY <3>3, <3>4
  <2> QED  BY <1>1, <2>1, <2>2, <2>3, <2>4, <2>5, <2>6, StepCases
<1>2. RInv /\ [RNext]_rvars => [WayBackStays]_rvars
  BY <1>1
<1> QED  BY <1>2, AlwaysRInv, PTL DEF RSpec, SomethingToGoBackTo

(* The plan that prepare leaves names a backup that loads, and only a      *)
(* backup over that directory changes it.                                  *)
THEOREM PlansStand == RSpec => PlanStands
<1>1. ASSUME RInv, [RNext]_rvars PROVE PlanKept
  <2>1. CASE UNCHANGED <<plan, backups>>
    BY <2>1 DEF PlanKept, Stands, Loads
  <2>2. CASE Still
    BY <2>1, <2>2 DEF Still, PlanKept
  <2>3. CASE Create \/ CreateTorn \/ CreateStops
    <3>1. at = "backing" /\ plan' = plan
      BY <2>3 DEF Create, CreateTorn, CreateStops
    <3>2. \E b \in Backup : Put(b)
      <4>1. CASE Create
        BY <1>1, <4>1, SnapshotFacts DEF Create
      <4>2. CASE CreateTorn
        BY <4>2, TornFacts DEF CreateTorn
      <4>3. CASE CreateStops
        <5>1. backups[job.to] \in Backup
          BY <1>1, <4>3, BackupFacts DEF CreateStops
        <5> QED  BY <1>1, <4>3, <5>1, AlteredFacts DEF CreateStops
      <4> QED  BY <2>3, <4>1, <4>2, <4>3
    <3>3. \A i \in DOMAIN backups :
            i \in DOMAIN backups' /\ (i # job.to => backups'[i] = backups[i])
      BY <1>1, <3>1, <3>2, PutFacts
    <3> QED  BY <3>1, <3>3 DEF PlanKept, Stands, Loads
  <2>4. CASE Write \/ WriteFails \/ WriteDies
    BY <1>1, <2>1, <2>4, SlotWritten
  <2>5. CASE Update
    BY <1>1, <2>1, <2>5, UpdateStep
  <2> QED  BY <1>1, <2>2, <2>3, <2>4, <2>5, StepCases
<1>2. RInv /\ [RNext]_rvars => [PlanKept]_rvars
  BY <1>1
<1> QED  BY <1>2, AlwaysRInv, PTL DEF RSpec, PlanStands

(* A command that found both slots in order, and writes images that start, *)
(* leaves one that starts wherever it ends.                                *)
THEOREM OneSlotLeft == RSpec => OneSlotStarts
<1> DEFINE Left == at = "writing" /\ job.safe
                     /\ (\A s \in DOMAIN job.images : Bootable(job.images[s]))
                   => \E s \in AB : Bootable(flash'[s])
<1>1. ASSUME RInv, [RNext]_rvars PROVE Left
  <2> SUFFICES ASSUME at = "writing", job.safe,
                      \A s \in DOMAIN job.images : Bootable(job.images[s])
               PROVE  \E s \in AB : Bootable(flash'[s])
    OBVIOUS
  <2>1. \A s \in AB : Bootable(flash[s])
    BY <1>1 DEF RInv, JobOK, WritingOK, InOrder
  <2>2. CASE UNCHANGED flash
    BY <2>1, <2>2 DEF AB
  <2>3. CASE Update
    BY <1>1, <2>3, UpdateStep
  <2>4. CASE Write \/ WriteFails \/ WriteDies
    <3>1. Target \in AB /\ \E img : flash' = [flash EXCEPT ![Target] = img]
      BY <1>1, <2>4, SlotWritten, TargetFacts
    <3>2. PICK s \in AB : s # Target
      BY <3>1 DEF AB
    <3>3. flash'[s] = flash[s]
      BY <1>1, <3>1, <3>2 DEF RInv, RTypeOK
    <3> QED  BY <2>1, <3>3
  <2> QED  BY <1>1, <2>2, <2>3, <2>4, StepCases
           DEF Still, Create, CreateTorn, CreateStops, device
<1>2. RInv /\ [RNext]_rvars => [Left]_rvars
  BY <1>1
<1>3. RSpec => [][Left]_rvars
  BY <1>2, AlwaysRInv, PTL DEF RSpec
<1> QED  BY <1>3 DEF OneSlotStarts

=============================================================================
