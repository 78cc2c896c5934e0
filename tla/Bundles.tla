------------------------------- MODULE Bundles -------------------------------
(***************************************************************************)
(* The two directories of images that everything else trusts: the stock    *)
(* firmware (boox/firmware/golden.py, onyx_api.py, upx.py, payload.py) and *)
(* a device backup (boox/safety/backup.py).                                *)
(*                                                                         *)
(* Both are filled the same way: image files one after the other, in       *)
(* place, then a manifest with their hashes.  Nothing is removed first, so *)
(* a second run into the same directory works over the first one's files.  *)
(* A process may end anywhere: killed, out of disk, or on an error.        *)
(*                                                                         *)
(* A version stands for the bytes of an image and for its hash: release v  *)
(* of the firmware, or the tablet as it was at its v-th update.            *)
(***************************************************************************)
EXTENDS Naturals, FiniteSets

CONSTANTS
  Names,       \* the images wanted
  Offers,      \* Offers[v]: the full images in the package of release v
  MaxVersion,  \* bound: releases ever published, updates ever installed
  MaxMoments,  \* bound: states of the tablet ever backed up, and releases
  Md5,         \* does the server give a checksum of the package?
  Formats,     \* the images of which the verifier parses the format
  None,        \* no file
  Torn,        \* a file that was cut short
  Spoilt,      \* what a torn file leaves in a partition it is written to
  Incremental  \* a package without any full image

Versions == 1 .. MaxVersion

ASSUME BundlesAssumption ==
  /\ MaxVersion \in Nat \ {0} /\ MaxMoments \in Nat
  /\ Offers \in [Versions -> SUBSET Names \ {{}}]
  /\ Md5 \in BOOLEAN
  /\ Formats \subseteq Names
  /\ {None, Torn, Spoilt, Incremental} \cap Versions = {}
  /\ None # Torn /\ Spoilt \notin {None, Torn} /\ Incremental \notin {None, Torn, Spoilt}

VARIABLES
  published,  \* the latest release on the server
  tablet,     \* the version of each image on the tablet
  taken,      \* what the tablet held when a backup began, and every release
  upx,        \* the package under its final name: its release, or Torn
  blamed,     \* the package a fetch gave up on as corrupt is still there
  files,      \* files[d][n]: image n in directory d
  manifest,   \* manifest[d]: the recorded hash of each image listed
  at,         \* where the process is
  job         \* the run under way

bvars == <<published, tablet, taken, upx, blamed, files, manifest, at, job>>

(* Every image of one version. *)
All(v) == [n \in Names |-> v]

Dirs == {"firmware", "backup"}

Image == Versions \cup {Spoilt}

File == Image \cup {None, Torn}

Listings == UNION {[S -> Image] : S \in SUBSET Names}

Runs == [dir : Dirs, from : Versions \cup {None}, package : Versions \cup {None, Torn, Incremental},
         todo : SUBSET Names, entries : Listings]

NoRun == [dir |-> "backup", from |-> None, package |-> None, todo |-> {},
          entries |-> [n \in {} |-> None]]

BTypeOK ==
  /\ published \in Versions
  /\ tablet \in [Names -> Image] /\ taken \subseteq [Names -> Image]
  /\ upx \in Versions \cup {None, Torn} /\ blamed \in BOOLEAN
  /\ files \in [Dirs -> [Names -> File]]
  /\ manifest \in [Dirs -> Listings \cup {None, Torn}]
  /\ at \in {"idle", "fetching", "unpacking", "filling", "recording", "checking"}
  /\ job \in Runs

BInit ==
  /\ published = 1 /\ tablet = All(1)
  /\ taken = {All(v) : v \in Versions}
  /\ upx = None /\ blamed = FALSE
  /\ files = [d \in Dirs |-> [n \in Names |-> None]]
  /\ manifest = [d \in Dirs |-> None]
  /\ at = "idle" /\ job = NoRun

(* A manifest that decodes. *)
Loads(d) == manifest[d] \notin {None, Torn}

(* Backup.verify, GoldenFirmware.verify: the images listed that are missing*)
(* or hash to something else.                                              *)
Problems(d) ==
  {n \in DOMAIN manifest[d] : files[d][n] # manifest[d][n]}

Idle == at = "idle"
End == at' = "idle" /\ job' = NoRun

-----------------------------------------------------------------------------
(* boox firmware fetch *)

(* The latest release is asked for; a package that is already there is     *)
(* taken, whatever release it is.                                          *)
FetchBegin ==
  /\ Idle
  /\ job' = [NoRun EXCEPT !.dir = "firmware", !.from = published,
                          !.package = upx]
  /\ at' = IF upx = None THEN "fetching" ELSE "unpacking"
  /\ UNCHANGED <<published, tablet, taken, upx, blamed, files, manifest>>

(* --upx: a package the owner has. *)
FetchFromFile(v) ==
  /\ Idle
  /\ job' = [NoRun EXCEPT !.dir = "firmware", !.package = v]
  /\ at' = "unpacking"
  /\ UNCHANGED <<published, tablet, taken, upx, blamed, files, manifest>>

(* A slip: the package is written under its final name. *)
DownloadStopsSlip ==
  /\ at = "fetching"
  /\ upx' \in {upx, Torn}
  /\ End
  /\ UNCHANGED <<published, tablet, taken, blamed, files, manifest>>

(* An error, a checksum that differs, or a death: only the .partial file   *)
(* was written.                                                            *)
DownloadStops ==
  /\ at = "fetching"
  /\ End
  /\ UNCHANGED <<published, tablet, taken, upx, blamed, files, manifest>>

(* download: the .partial file is renamed.  Without a checksum an early    *)
(* end of the transfer is not noticed.                                     *)
Download ==
  /\ at = "fetching"
  /\ \E got \in {job.from} \cup (IF Md5 THEN {} ELSE {Torn}) :
       /\ upx' = got
       /\ job' = [job EXCEPT !.package = got]
  /\ at' = "unpacking" /\ blamed' = FALSE
  /\ UNCHANGED <<published, tablet, taken, files, manifest>>

(* decrypt, _extract_payload: a package that was cut short is noticed here.*)
PackageCorrupt ==
  /\ at = "unpacking" /\ job.package = Torn
  /\ blamed' = (upx = Torn)
  /\ End
  /\ UNCHANGED <<published, tablet, taken, upx, files, manifest>>

(* "no usable stock images could be extracted" *)
NothingFull ==
  /\ at = "unpacking" /\ job.package = Incremental
  /\ End
  /\ UNCHANGED <<published, tablet, taken, upx, blamed, files, manifest>>

(* Only the images the payload carries in full are extracted. *)
Unpack ==
  /\ at = "unpacking" /\ job.package \in Versions
  /\ job' = [job EXCEPT !.todo = Offers[job.package]]
  /\ at' = "filling"
  /\ UNCHANGED <<published, tablet, taken, upx, blamed, files, manifest>>

-----------------------------------------------------------------------------
(* boox backup, with --partition and --dest *)

(* A slip: what an earlier manifest listed is kept. *)
BackupBeginSlip(wanted) ==
  /\ Idle /\ wanted # {}
  /\ job' = [NoRun EXCEPT !.todo = wanted,
               !.entries = IF Loads("backup") THEN manifest["backup"] ELSE @]
  /\ taken' = taken \cup {tablet} /\ Cardinality(taken') <= MaxMoments
  /\ at' = "filling"
  /\ UNCHANGED <<published, tablet, upx, blamed, files, manifest>>

BackupBegin(wanted) ==
  /\ Idle /\ wanted # {}
  /\ job' = [NoRun EXCEPT !.todo = wanted]
  /\ taken' = taken \cup {tablet} /\ Cardinality(taken') <= MaxMoments
  /\ at' = "filling"
  /\ UNCHANGED <<published, tablet, upx, blamed, files, manifest>>

-----------------------------------------------------------------------------
(* Filling either directory. *)

(* The bytes that become image n. *)
Source(n) == IF job.dir = "firmware" THEN job.package ELSE tablet[n]

(* read_twice and move; Payload.extract and write_bytes. *)
Fill(n) ==
  /\ at = "filling" /\ n \in job.todo
  /\ files' = [files EXCEPT ![job.dir][n] = Source(n)]
  /\ job' = [job EXCEPT !.todo = @ \ {n},
               !.entries = [m \in DOMAIN @ \cup {n} |->
                              IF m = n THEN Source(n) ELSE @[m]]]
  /\ UNCHANGED <<published, tablet, taken, upx, blamed, manifest, at>>

(* The image file is written in place. *)
FillStops(n) ==
  /\ at = "filling" /\ n \in job.todo
  /\ files' = [files EXCEPT ![job.dir][n] = Torn]
  /\ End
  /\ UNCHANGED <<published, tablet, taken, upx, blamed, manifest>>

(* A slip: the manifest goes first. *)
FilledSlip ==
  /\ at = "filling" /\ job.todo # {}
  /\ manifest' = [manifest EXCEPT ![job.dir] = [n \in job.todo |-> Source(n)]]
  /\ UNCHANGED <<published, tablet, taken, upx, blamed, files, at, job>>

Filled ==
  /\ at = "filling" /\ job.todo = {}
  /\ at' = "recording"
  /\ UNCHANGED <<published, tablet, taken, upx, blamed, files, manifest, job>>

Record ==
  /\ at = "recording"
  /\ manifest' = [manifest EXCEPT ![job.dir] = job.entries]
  /\ at' = "checking"
  /\ UNCHANGED <<published, tablet, taken, upx, blamed, files, job>>

RecordStops ==
  /\ at = "recording"
  /\ manifest' = [manifest EXCEPT ![job.dir] = Torn]
  /\ End
  /\ UNCHANGED <<published, tablet, taken, upx, blamed, files>>

(* The run ends: every image was read back and hashes as recorded. *)
Finish ==
  /\ at = "checking" /\ Problems(job.dir) = {}
  /\ End
  /\ UNCHANGED <<published, tablet, taken, upx, blamed, files, manifest>>

(* An error or a death between two files. *)
Stops ==
  /\ at # "idle"
  /\ End
  /\ UNCHANGED <<published, tablet, taken, upx, blamed, files, manifest>>

-----------------------------------------------------------------------------
(* boox rescue restore: each image is checked as a candidate on its way to *)
(* the tablet.  A torn one does not survive that if its format is parsed.  *)

(* What a restore of the images S reads from d, and writes. *)
RestoreFrom(d, S) ==
  /\ Idle /\ Loads(d)
  /\ S # {} /\ S \subseteq DOMAIN manifest[d]
  /\ \A n \in S : files[d][n] # None /\ (n \in Formats => files[d][n] # Torn)
  /\ tablet' = [n \in Names |->
                  IF n \notin S THEN tablet[n]
                  ELSE IF files[d][n] = Torn THEN Spoilt ELSE files[d][n]]
  /\ UNCHANGED <<published, taken, upx, blamed, files, manifest, at, job>>

(* A slip: the images are not hashed again. *)
RestoreBackupSlip(S) == RestoreFrom("backup", S)

(* require_intact looks at every image of the backup. *)
RestoreBackup(S) == Loads("backup") /\ Problems("backup") = {} /\ RestoreFrom("backup", S)

(* --from-golden: the manifest is taken at its word. *)
RestoreGolden(S) == RestoreFrom("firmware", S)

-----------------------------------------------------------------------------
(* The world. *)

Publish ==
  /\ published < MaxVersion
  /\ published' = published + 1
  /\ UNCHANGED <<tablet, taken, upx, blamed, files, manifest, at, job>>

(* The tablet is in EDL while a backup runs, and does not change. *)
TabletUpdates ==
  /\ Idle
  /\ Spoilt \notin {tablet[n] : n \in Names}
  /\ \E v \in Versions : (\A n \in Names : tablet[n] < v) /\ tablet' = All(v)
  /\ UNCHANGED <<published, taken, upx, blamed, files, manifest, at, job>>

BNext ==
  \/ FetchBegin \/ \E v \in Versions \cup {Torn, Incremental} : FetchFromFile(v)
  \/ DownloadStops \/ Download
  \/ PackageCorrupt \/ NothingFull \/ Unpack
  \/ \E wanted \in SUBSET Names : BackupBegin(wanted)
  \/ \E n \in Names : Fill(n) \/ FillStops(n)
  \/ Filled \/ Record \/ RecordStops \/ Finish \/ Stops
  \/ \E S \in SUBSET Names : RestoreBackup(S) \/ RestoreGolden(S)
  \/ Publish \/ TabletUpdates

BSpec == BInit /\ [][BNext]_bvars
=============================================================================
