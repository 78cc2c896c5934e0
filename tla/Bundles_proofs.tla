-------------------------- MODULE Bundles_proofs --------------------------
(***************************************************************************)
(* Backups and stock firmware for any images, any releases and any number  *)
(* of moments backed up: what a directory is worth, wherever the runs over *)
(* it ended.                                                               *)
(***************************************************************************)
EXTENDS BundlesProps, TLAPS

Busy == at \in {"filling", "recording", "checking"}

(* A run has one source, and what it has listed so far it took from there. *)
RunOK ==
  /\ Busy =>
       \E s \in taken :
         /\ at = "filling" => \A n \in Names : Source(n) = s[n]
         /\ \A n \in DOMAIN job.entries : job.entries[n] = s[n]
  /\ at \in {"filling", "recording"} =>
       \A n \in DOMAIN job.entries : files[job.dir][n] = job.entries[n]
  /\ at = "filling" => (job.dir = "firmware" => job.package \in Versions)
  /\ at \in {"fetching", "unpacking"} => job.dir = "firmware" /\ job.entries = NoRun.entries
  /\ at = "fetching" => job.from \in Versions

(* Every manifest is of one moment, or of one release. *)
ManifestsOK ==
  \A d \in Dirs : Loads(d) =>
    \E s \in taken : \A n \in DOMAIN manifest[d] : manifest[d][n] = s[n]

BInv ==
  /\ BTypeOK /\ RunOK /\ ManifestsOK
  /\ \A v \in Versions : All(v) \in taken

-----------------------------------------------------------------------------
(* Types of what the actions build. *)

LEMMA NoRunFacts ==
  /\ NoRun \in Runs /\ NoRun.dir = "backup" /\ NoRun.from = None /\ NoRun.package = None
  /\ NoRun.todo = {} /\ DOMAIN NoRun.entries = {}
<1>1. [n \in {} |-> None] \in Listings
  <2>1. [n \in {} |-> None] \in [{} -> Image]
    OBVIOUS
  <2>2. {} \in SUBSET Names
    OBVIOUS
  <2> QED  BY <2>1, <2>2 DEF Listings
<1> QED  BY <1>1 DEF NoRun, Runs, Dirs

LEMMA AllIsMoment == ASSUME NEW v \in Versions PROVE All(v) \in [Names -> Image]
BY DEF All, Image

LEMMA ListingFacts ==
  ASSUME NEW e \in Listings
  PROVE  DOMAIN e \in SUBSET Names /\ \A n \in DOMAIN e : e[n] \in Image
BY DEF Listings

LEMMA MoreListed ==
  ASSUME NEW e \in Listings, NEW n \in Names, NEW v \in Image,
         NEW f, f = [m \in DOMAIN e \cup {n} |-> IF m = n THEN v ELSE e[m]]
  PROVE  /\ f \in Listings /\ DOMAIN f = DOMAIN e \cup {n} /\ f[n] = v
         /\ \A m \in DOMAIN e \ {n} : f[m] = e[m]
<1>1. DOMAIN e \cup {n} \in SUBSET Names
  BY ListingFacts
<1>2. f \in [DOMAIN e \cup {n} -> Image]
  BY ListingFacts
<1>3. f \in Listings
  BY <1>1, <1>2 DEF Listings
<1> QED  BY <1>3

LEMMA InitBInv == ASSUME BInit PROVE BInv
<1>1. 1 \in Versions
  BY BundlesAssumption DEF Versions
<1>2. \A v \in Versions : All(v) \in [Names -> Image]
  BY AllIsMoment
<1>3. BTypeOK
  <2>1. None \in File /\ None \in Listings \cup {None, Torn}
    BY DEF File
  <2> QED  BY <1>1, <1>2, <2>1, NoRunFacts DEF BInit, BTypeOK
<1>4. RunOK /\ ManifestsOK
  BY DEF BInit, RunOK, Busy, ManifestsOK, Loads
<1> QED  BY <1>3, <1>4 DEF BInv, BInit

(* A run is over, or none was under way: manifests are all there is. *)
LEMMA AtRest ==
  ASSUME BInv, BTypeOK', at' = "idle", taken' = taken,
         \A d \in Dirs : manifest'[d] = manifest[d] \/ manifest'[d] = Torn
  PROVE  BInv'
<1>1. RunOK'
  BY DEF RunOK, Busy
<1>2. ManifestsOK'
  BY DEF BInv, ManifestsOK, Loads
<1> QED  BY <1>1, <1>2 DEF BInv

LEMMA RunEnds ==
  ASSUME BInv,
         \/ DownloadStops \/ PackageCorrupt \/ NothingFull \/ RecordStops \/ Finish \/ Stops
         \/ \E n \in Names : FillStops(n)
  PROVE  BInv'
<1>1. at' = "idle" /\ job' = NoRun /\ UNCHANGED <<published, tablet, taken, upx>>
  BY DEF DownloadStops, PackageCorrupt, NothingFull, RecordStops, Finish, Stops, FillStops,
         End
<1>2. blamed' \in BOOLEAN
  BY DEF BInv, BTypeOK, DownloadStops, PackageCorrupt, NothingFull, RecordStops, Finish,
         Stops, FillStops
<1>3. job.dir \in Dirs
  BY DEF BInv, BTypeOK, Runs
<1>4. /\ manifest' \in [Dirs -> Listings \cup {None, Torn}]
      /\ \A d \in Dirs : manifest'[d] = manifest[d] \/ manifest'[d] = Torn
  <2>1. CASE RecordStops
    BY <1>3, <2>1 DEF BInv, BTypeOK, RecordStops
  <2>2. CASE ~RecordStops
    <3>1. manifest' = manifest
      BY <2>2 DEF DownloadStops, PackageCorrupt, NothingFull, Finish, Stops, FillStops
    <3> QED  BY <3>1 DEF BInv, BTypeOK
  <2> QED  BY <2>1, <2>2
<1>5. files' \in [Dirs -> [Names -> File]]
  <2>1. ASSUME NEW n \in Names, FillStops(n) PROVE files' \in [Dirs -> [Names -> File]]
    <3>1. Torn \in File
      BY DEF File
    <3> QED  BY <1>3, <2>1, <3>1 DEF BInv, BTypeOK, FillStops
  <2>2. CASE ~\E n \in Names : FillStops(n)
    <3>1. files' = files
      BY <2>2 DEF DownloadStops, PackageCorrupt, NothingFull, RecordStops, Finish, Stops
    <3> QED  BY <3>1 DEF BInv, BTypeOK
  <2> QED  BY <2>1, <2>2
<1>6. BTypeOK'
  BY <1>1, <1>2, <1>4, <1>5, NoRunFacts DEF BInv, BTypeOK
<1> QED  BY <1>1, <1>4, <1>6, AtRest

(* A fetch, up to the payload. *)
LEMMA FetchStep ==
  ASSUME BInv,
         \/ FetchBegin \/ Download
         \/ \E v \in Versions \cup {Torn, Incremental} : FetchFromFile(v)
  PROVE  BInv'
<1>1. UNCHANGED <<published, tablet, taken, files, manifest>>
  BY DEF FetchBegin, Download, FetchFromFile
<1>2. /\ published \in Versions /\ upx \in Versions \cup {None, Torn} /\ job \in Runs
      /\ blamed \in BOOLEAN
  BY DEF BInv, BTypeOK
<1>3. /\ upx' \in Versions \cup {None, Torn} /\ blamed' \in BOOLEAN
      /\ at' \in {"fetching", "unpacking"} /\ job' \in Runs /\ job'.dir = "firmware"
      /\ job'.entries = NoRun.entries
      /\ at' = "fetching" => job'.from \in Versions
  <2>1. CASE FetchBegin
    <3>1. job' = [NoRun EXCEPT !.dir = "firmware", !.from = published, !.package = upx]
      BY <2>1 DEF FetchBegin
    <3>2. /\ job' \in Runs /\ job'.dir = "firmware" /\ job'.entries = NoRun.entries
          /\ job'.from = published
      BY <1>2, <3>1, NoRunFacts DEF Runs, Dirs
    <3> QED  BY <1>2, <2>1, <3>2 DEF FetchBegin
  <2>2. CASE Download
    <3>1. at = "fetching" /\ job.dir = "firmware" /\ job.entries = NoRun.entries /\ job.from \in Versions
      BY <2>2 DEF BInv, RunOK, Download
    <3>2. PICK got \in {job.from} \cup (IF Md5 THEN {} ELSE {Torn}) :
            upx' = got /\ job' = [job EXCEPT !.package = got]
      BY <2>2 DEF Download
    <3>3. got \in Versions \cup {Torn}
      BY <3>1, <3>2
    <3>4. /\ job' \in Runs /\ job'.dir = job.dir /\ job'.entries = job.entries
          /\ job'.from = job.from
      BY <1>2, <3>2, <3>3 DEF Runs
    <3> QED  BY <2>2, <3>1, <3>2, <3>3, <3>4 DEF Download
  <2>3. ASSUME NEW v \in Versions \cup {Torn, Incremental}, FetchFromFile(v)
        PROVE  /\ upx' = upx /\ blamed' = blamed
               /\ at' = "unpacking" /\ job' \in Runs /\ job'.dir = "firmware"
               /\ job'.entries = NoRun.entries
    <3>1. job' = [NoRun EXCEPT !.dir = "firmware", !.package = v]
      BY <2>3 DEF FetchFromFile
    <3>2. job' \in Runs /\ job'.dir = "firmware" /\ job'.entries = NoRun.entries
      BY <3>1, NoRunFacts DEF Runs, Dirs
    <3> QED  BY <2>3, <3>2 DEF FetchFromFile
  <2> QED  BY <1>2, <2>1, <2>2, <2>3
<1>4. BTypeOK'
  BY <1>1, <1>3 DEF BInv, BTypeOK
<1>5. RunOK'
  BY <1>3 DEF RunOK, Busy, NoRun
<1>6. ManifestsOK'
  BY <1>1 DEF BInv, ManifestsOK, Loads
<1> QED  BY <1>1, <1>4, <1>5, <1>6 DEF BInv

(* The source of a run is settled: a release, or the tablet as it is now. *)
LEMMA UnpackStep == ASSUME BInv, Unpack PROVE BInv'
<1>1. /\ at = "unpacking" /\ job.package \in Versions /\ at' = "filling"
      /\ job' = [job EXCEPT !.todo = Offers[job.package]]
      /\ UNCHANGED <<published, tablet, taken, upx, blamed, files, manifest>>
  BY DEF Unpack
<1>2. job \in Runs /\ job.dir = "firmware" /\ DOMAIN job.entries = {}
  BY <1>1, NoRunFacts DEF BInv, BTypeOK, RunOK
<1>3. Offers[job.package] \in SUBSET Names
  BY <1>1, BundlesAssumption
<1>4. /\ job' \in Runs /\ job'.dir = "firmware" /\ job'.package = job.package
      /\ job'.entries = job.entries
  BY <1>1, <1>2, <1>3 DEF Runs
<1>5. BTypeOK'
  BY <1>1, <1>4 DEF BInv, BTypeOK
<1>6. RunOK'
  <2>1. All(job.package) \in taken'
    BY <1>1 DEF BInv
  <2>2. \A n \in Names : Source(n)' = All(job.package)[n]
    BY <1>4 DEF Source, All
  <2> QED  BY <1>1, <1>2, <1>4, <2>1, <2>2 DEF RunOK, Busy
<1>7. ManifestsOK'
  BY <1>1 DEF BInv, ManifestsOK, Loads
<1> QED  BY <1>1, <1>5, <1>6, <1>7 DEF BInv

LEMMA BackupBeginStep ==
  ASSUME BInv, NEW wanted \in SUBSET Names, BackupBegin(wanted)
  PROVE  BInv'
<1>1. /\ job' = [NoRun EXCEPT !.todo = wanted] /\ taken' = taken \cup {tablet}
      /\ at' = "filling"
      /\ UNCHANGED <<published, tablet, upx, blamed, files, manifest>>
  BY DEF BackupBegin
<1>2. /\ job' \in Runs /\ job'.dir = "backup" /\ DOMAIN job'.entries = {}
  BY <1>1, NoRunFacts DEF Runs
<1>3. BTypeOK'
  BY <1>1, <1>2 DEF BInv, BTypeOK
<1>4. RunOK'
  <2>1. \A n \in Names : Source(n)' = tablet[n]
    BY <1>1, <1>2 DEF Source
  <2> QED  BY <1>1, <1>2, <2>1 DEF RunOK, Busy
<1>5. ManifestsOK'
  BY <1>1 DEF BInv, ManifestsOK, Loads
<1> QED  BY <1>1, <1>3, <1>4, <1>5 DEF BInv

LEMMA FillStep == ASSUME BInv, NEW n \in Names, Fill(n) PROVE BInv'
<1> DEFINE e == [m \in DOMAIN job.entries \cup {n} |->
                   IF m = n THEN Source(n) ELSE job.entries[m]]
<1>1. /\ at = "filling" /\ n \in job.todo
      /\ files' = [files EXCEPT ![job.dir][n] = Source(n)]
      /\ job' = [job EXCEPT !.todo = @ \ {n}, !.entries = e]
      /\ UNCHANGED <<published, tablet, taken, upx, blamed, manifest, at>>
  BY DEF Fill
<1>2. /\ job \in Runs /\ job.dir \in Dirs /\ job.entries \in Listings
      /\ job.todo \in SUBSET Names /\ files \in [Dirs -> [Names -> File]]
  BY DEF BInv, BTypeOK, Runs
<1>3. Source(n) \in Image
  <2>1. CASE job.dir = "firmware"
    BY <1>1, <2>1 DEF BInv, RunOK, Source, Image
  <2>2. CASE job.dir # "firmware"
    BY <2>2 DEF BInv, BTypeOK, Source
  <2> QED  BY <2>1, <2>2
<1>4. /\ e \in Listings /\ DOMAIN e = DOMAIN job.entries \cup {n} /\ e[n] = Source(n)
      /\ \A m \in DOMAIN job.entries \ {n} : e[m] = job.entries[m]
  <2>1. \A v \in Image : \A f :
          f = [m \in DOMAIN job.entries \cup {n} |-> IF m = n THEN v ELSE job.entries[m]]
          => /\ f \in Listings /\ DOMAIN f = DOMAIN job.entries \cup {n} /\ f[n] = v
             /\ \A m \in DOMAIN job.entries \ {n} : f[m] = job.entries[m]
    BY <1>2, MoreListed
  <2> QED  BY <1>3, <2>1
<1> HIDE DEF e
<1>5. /\ job' \in Runs /\ job'.dir = job.dir /\ job'.package = job.package
      /\ job'.entries = e
  BY <1>1, <1>2, <1>4 DEF Runs
<1>6. /\ files' \in [Dirs -> [Names -> File]]
      /\ files'[job.dir][n] = Source(n)
      /\ \A m \in Names \ {n} : files'[job.dir][m] = files[job.dir][m]
  BY <1>1, <1>2, <1>3 DEF File
<1>7. BTypeOK'
  BY <1>1, <1>5, <1>6 DEF BInv, BTypeOK
<1>8. DOMAIN job.entries \in SUBSET Names
  BY <1>2, ListingFacts
<1>9. RunOK'
  <2>1. PICK s \in taken : /\ \A m \in Names : Source(m) = s[m]
                           /\ \A m \in DOMAIN job.entries : job.entries[m] = s[m]
    BY <1>1 DEF BInv, RunOK, Busy
  <2>2. \A m \in Names : Source(m)' = Source(m)
    BY <1>1, <1>5 DEF Source
  <2>3. \A m \in DOMAIN e : e[m] = s[m]
    BY <1>4, <2>1
  <2>4. \A m \in DOMAIN e : files'[job.dir][m] = e[m]
    BY <1>1, <1>4, <1>6, <1>8 DEF BInv, RunOK
  <2>5. job.dir = "firmware" => job.package \in Versions
    BY <1>1 DEF BInv, RunOK
  <2>6. s \in taken' /\ at' = "filling"
    BY <1>1
  <2>7. \E r \in taken' : /\ at' = "filling" => \A m \in Names : Source(m)' = r[m]
                          /\ \A m \in DOMAIN job'.entries : job'.entries[m] = r[m]
    BY <1>5, <2>1, <2>2, <2>3, <2>6
  <2> QED  BY <1>5, <2>4, <2>5, <2>6, <2>7 DEF RunOK, Busy
<1>10. ManifestsOK'
  BY <1>1 DEF BInv, ManifestsOK, Loads
<1> QED  BY <1>1, <1>7, <1>9, <1>10 DEF BInv

LEMMA FilledStep == ASSUME BInv, Filled PROVE BInv'
<1>1. /\ at = "filling" /\ at' = "recording"
      /\ UNCHANGED <<published, tablet, taken, upx, blamed, files, manifest, job>>
  BY DEF Filled
<1>2. BTypeOK'
  BY <1>1 DEF BInv, BTypeOK
<1>3. RunOK' /\ ManifestsOK'
  BY <1>1 DEF BInv, RunOK, Busy, ManifestsOK, Loads
<1> QED  BY <1>1, <1>2, <1>3 DEF BInv

(* What is recorded is what was taken from the one source. *)
LEMMA RecordStep == ASSUME BInv, Record PROVE BInv'
<1>1. /\ at = "recording" /\ at' = "checking"
      /\ manifest' = [manifest EXCEPT ![job.dir] = job.entries]
      /\ UNCHANGED <<published, tablet, taken, upx, blamed, files, job>>
  BY DEF Record
<1>2. /\ job.dir \in Dirs /\ job.entries \in Listings
      /\ manifest \in [Dirs -> Listings \cup {None, Torn}]
  BY DEF BInv, BTypeOK, Runs
<1>3. BTypeOK'
  BY <1>1, <1>2 DEF BInv, BTypeOK
<1>4. PICK s \in taken : \A n \in DOMAIN job.entries : job.entries[n] = s[n]
  BY <1>1 DEF BInv, RunOK, Busy
<1>5. RunOK'
  BY <1>1, <1>4 DEF RunOK, Busy
<1>6. ManifestsOK'
  <2> SUFFICES ASSUME NEW d \in Dirs, Loads(d)'
               PROVE  \E r \in taken : \A n \in DOMAIN manifest'[d] : manifest'[d][n] = r[n]
    BY <1>1 DEF ManifestsOK
  <2>1. CASE d = job.dir
    BY <1>1, <1>2, <1>4, <2>1
  <2>2. CASE d # job.dir
    <3>1. manifest'[d] = manifest[d]
      BY <1>1, <1>2, <2>2
    <3> QED  BY <3>1 DEF BInv, ManifestsOK, Loads
  <2> QED  BY <2>1, <2>2
<1> QED  BY <1>1, <1>3, <1>5, <1>6 DEF BInv

LEMMA RestoreStep ==
  ASSUME BInv, NEW d \in Dirs, NEW S \in SUBSET Names, RestoreFrom(d, S)
  PROVE  BInv'
<1>1. /\ at = "idle"
      /\ UNCHANGED <<published, taken, upx, blamed, files, manifest, at, job>>
      /\ \A n \in S : files[d][n] # None
      /\ tablet' = [n \in Names |->
                      IF n \notin S THEN tablet[n]
                      ELSE IF files[d][n] = Torn THEN Spoilt ELSE files[d][n]]
  BY DEF RestoreFrom, Idle
<1>2. tablet' \in [Names -> Image]
  BY <1>1 DEF BInv, BTypeOK, File, Image
<1>3. BTypeOK'
  BY <1>1, <1>2 DEF BInv, BTypeOK
<1> QED  BY <1>1, <1>3, AtRest

LEMMA WorldStep == ASSUME BInv, Publish \/ TabletUpdates PROVE BInv'
<1>1. CASE Publish
  <2>1. /\ published' = published + 1 /\ published < MaxVersion
        /\ UNCHANGED <<tablet, taken, upx, blamed, files, manifest, at, job>>
    BY <1>1 DEF Publish
  <2>2. published' \in Versions
    BY <2>1, BundlesAssumption DEF BInv, BTypeOK, Versions
  <2>3. BTypeOK'
    BY <2>1, <2>2 DEF BInv, BTypeOK
  <2>4. RunOK' /\ ManifestsOK'
    BY <2>1 DEF BInv, RunOK, Busy, Source, ManifestsOK, Loads
  <2> QED  BY <2>1, <2>3, <2>4 DEF BInv
<1>2. CASE TabletUpdates
  <2>1. /\ at = "idle" /\ \E v \in Versions : tablet' = All(v)
        /\ UNCHANGED <<published, taken, upx, blamed, files, manifest, at, job>>
    BY <1>2 DEF TabletUpdates, Idle
  <2>2. BTypeOK'
    BY <2>1, AllIsMoment DEF BInv, BTypeOK
  <2> QED  BY <2>1, <2>2, AtRest
<1> QED  BY <1>1, <1>2

LEMMA BNextInv == ASSUME BInv, [BNext]_bvars PROVE BInv'
<1>1. CASE UNCHANGED bvars
  BY <1>1 DEF bvars, BInv, BTypeOK, RunOK, Busy, Source, ManifestsOK, Loads
<1>2. CASE \/ DownloadStops \/ PackageCorrupt \/ NothingFull \/ RecordStops \/ Finish \/ Stops
           \/ \E n \in Names : FillStops(n)
  BY <1>2, RunEnds
<1>3. CASE \/ FetchBegin \/ Download
           \/ \E v \in Versions \cup {Torn, Incremental} : FetchFromFile(v)
  BY <1>3, FetchStep
<1>4. CASE Unpack \/ Filled \/ Record
  BY <1>4, UnpackStep, FilledStep, RecordStep
<1>5. ASSUME NEW wanted \in SUBSET Names, BackupBegin(wanted) PROVE BInv'
  BY <1>5, BackupBeginStep
<1>6. ASSUME NEW n \in Names, Fill(n) PROVE BInv'
  BY <1>6, FillStep
<1>7. ASSUME NEW S \in SUBSET Names, RestoreBackup(S) \/ RestoreGolden(S) PROVE BInv'
  BY <1>7, RestoreStep DEF RestoreBackup, RestoreGolden, Dirs
<1>8. CASE Publish \/ TabletUpdates
  BY <1>8, WorldStep
<1> QED  BY <1>1, <1>2, <1>3, <1>4, <1>5, <1>6, <1>7, <1>8 DEF BNext

LEMMA AlwaysBInv == BSpec => []BInv
<1>1. BInit => BInv
  BY InitBInv
<1>2. BInv /\ [BNext]_bvars => BInv'
  BY BNextInv
<1> QED  BY <1>1, <1>2, PTL DEF BSpec

-----------------------------------------------------------------------------

(* A directory of images that passes its own check holds images of one     *)
(* moment of the tablet or of one release, after any number of runs over   *)
(* it that ended anywhere (backup.py, golden.py).                          *)
THEOREM IntactIsOneRun == BSpec => []IntactMeansOneRun
<1>1. BInv => IntactMeansOneRun
  <2> SUFFICES ASSUME BInv, NEW d \in Dirs, Loads(d), Problems(d) = {}
               PROVE  \E s \in taken : \A n \in DOMAIN manifest[d] : files[d][n] = s[n]
    BY DEF IntactMeansOneRun
  <2>1. PICK s \in taken : \A n \in DOMAIN manifest[d] : manifest[d][n] = s[n]
    BY DEF BInv, ManifestsOK
  <2>2. \A n \in DOMAIN manifest[d] : files[d][n] = manifest[d][n]
    BY DEF Problems
  <2> QED  BY <2>1, <2>2
<1> QED  BY <1>1, AlwaysBInv, PTL

(* The first manifest in a directory appears when all it lists is there,   *)
(* wherever the run ends (backup.py:230, golden.py:191).                   *)
THEOREM FirstManifestIsWhole == BSpec => AppearsComplete
<1>1. BInv /\ [BNext]_bvars =>
        [\A d \in Dirs : manifest[d] = None /\ manifest'[d] \notin {None, Torn} =>
           \A n \in DOMAIN manifest'[d] : files[d][n] = manifest'[d][n]]_bvars
  <2> SUFFICES ASSUME BInv, BNext,
                      NEW d \in Dirs, manifest[d] = None, manifest'[d] \notin {None, Torn},
                      NEW n \in DOMAIN manifest'[d]
               PROVE  files[d][n] = manifest'[d][n]
    OBVIOUS
  <2>1. manifest \in [Dirs -> Listings \cup {None, Torn}]
    BY DEF BInv, BTypeOK
  <2>2. Record \/ RecordStops
    BY DEF BNext, FetchBegin, FetchFromFile, DownloadStops, Download, PackageCorrupt,
           NothingFull, Unpack, BackupBegin, Fill, FillStops, Filled, Finish, Stops,
           RestoreBackup, RestoreGolden, RestoreFrom, Publish, TabletUpdates
  <2>3. Record /\ d = job.dir
    BY <2>1, <2>2 DEF Record, RecordStops
  <2>4. manifest'[d] = job.entries
    BY <2>1, <2>3 DEF Record
  <2> QED  BY <2>3, <2>4 DEF Record, BInv, RunOK
<1> QED  BY <1>1, AlwaysBInv, PTL DEF BSpec, AppearsComplete

(* With a checksum from the server a package under its final name is never *)
(* one that was cut short (onyx_api.py:157).                               *)
THEOREM PackagesCameWhole == ASSUME Md5 PROVE BSpec => []PackageIsWhole
<1>1. BInit => PackageIsWhole
  BY BundlesAssumption DEF BInit, PackageIsWhole
<1>2. BInv /\ PackageIsWhole /\ [BNext]_bvars => PackageIsWhole'
  <2> SUFFICES ASSUME BInv, PackageIsWhole, [BNext]_bvars PROVE PackageIsWhole'
    OBVIOUS
  <2>1. CASE Download
    <3>1. upx' = job.from /\ at = "fetching"
      BY <2>1, Md5 DEF Download
    <3>2. job.from \in Versions
      BY <3>1 DEF BInv, RunOK
    <3> QED  BY <3>1, <3>2, BundlesAssumption DEF PackageIsWhole
  <2>2. CASE ~Download
    <3>1. upx' = upx
      BY <2>2 DEF BNext, bvars, FetchBegin, FetchFromFile, DownloadStops, PackageCorrupt,
           NothingFull, Unpack, BackupBegin, Fill, FillStops, Filled, Record, RecordStops,
           Finish, Stops, RestoreBackup, RestoreGolden, RestoreFrom, Publish, TabletUpdates
    <3> QED  BY <3>1 DEF PackageIsWhole
  <2> QED  BY <2>1, <2>2
<1> QED  BY <1>1, <1>2, AlwaysBInv, PTL DEF BSpec

(* A restore from a backup brings back images of one moment, also when the *)
(* directory was written over and the run did not get to its end.          *)
THEOREM RestoreIsOneMoment == BSpec => RestoresOneMoment
<1>1. BInv => \A S \in SUBSET Names : RestoreBackup(S) =>
                \E s \in taken : \A n \in S : tablet'[n] = s[n]
  <2> SUFFICES ASSUME BInv, NEW S \in SUBSET Names, RestoreBackup(S)
               PROVE  \E s \in taken : \A n \in S : tablet'[n] = s[n]
    OBVIOUS
  <2>1. /\ Loads("backup") /\ Problems("backup") = {} /\ S \subseteq DOMAIN manifest["backup"]
        /\ tablet' = [n \in Names |->
                        IF n \notin S THEN tablet[n]
                        ELSE IF files["backup"][n] = Torn THEN Spoilt
                        ELSE files["backup"][n]]
    BY DEF RestoreBackup, RestoreFrom
  <2>2. PICK s \in taken : \A n \in DOMAIN manifest["backup"] : manifest["backup"][n] = s[n]
    BY <2>1 DEF BInv, ManifestsOK, Dirs
  <2>3. \A n \in S : files["backup"][n] = s[n]
    BY <2>1, <2>2 DEF Problems
  <2>4. \A n \in S : s[n] \in Image
    <3>1. manifest["backup"] \in Listings
      BY <2>1 DEF BInv, BTypeOK, Dirs, Loads
    <3> QED  BY <2>1, <2>2, <3>1, ListingFacts
  <2>5. \A n \in S : files["backup"][n] # Torn
    BY <2>3, <2>4, BundlesAssumption DEF Image
  <2> QED  BY <2>1, <2>2, <2>3, <2>5
<1> QED  BY <1>1, AlwaysBInv, PTL DEF BSpec, RestoresOneMoment
=============================================================================
