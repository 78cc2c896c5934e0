---------------------------- MODULE BundlesProps ----------------------------
(***************************************************************************)
(* What a directory of images is worth after runs over it that ended       *)
(* anywhere.                                                               *)
(***************************************************************************)
EXTENDS Bundles

(* backup.py:10-11, and the reason the manifest has hashes.  A directory   *)
(* that passes its own check holds images of one moment of the tablet, or  *)
(* of one release: never some of this run and some of an earlier one that  *)
(* died or listed more.                                                    *)
IntactMeansOneRun ==
  \A d \in Dirs : Loads(d) /\ Problems(d) = {} =>
    \E s \in taken : \A n \in DOMAIN manifest[d] : files[d][n] = s[n]

(* The first run into a new directory: nothing of it is visible to         *)
(* latest_backup or golden() before all of it is there, wherever it ends.  *)
AppearsComplete ==
  [][\A d \in Dirs : manifest[d] = None /\ manifest'[d] \notin {None, Torn} =>
       \A n \in DOMAIN manifest'[d] : files[d][n] = manifest'[d][n]]_bvars

(* A package that has its final name came whole: the next fetch takes it   *)
(* without looking (golden.py:135), also when the download died.           *)
PackageIsWhole == upx # Torn

(* "Do not restore from it" (backup.py:146): a restore of several          *)
(* partitions from a backup brings back one moment of the tablet, also     *)
(* when --dest wrote over an older backup and did not get to its end.      *)
RestoresOneMoment ==
  [][\A S \in SUBSET Names : RestoreBackup(S) =>
       \E s \in taken : \A n \in S : tablet'[n] = s[n]]_bvars

-----------------------------------------------------------------------------
(* Statements of the code's messages and documents that do not hold. *)

(* "each checked against the payload manifest's own SHA-256" (SAFETY.md:51)*)
(* of what --from-golden writes to the tablet: images of one release.      *)
GoldenIsOneRelease ==
  [][\A S \in SUBSET Names : RestoreGolden(S) =>
       \E s \in taken : \A n \in S : tablet'[n] = s[n]]_bvars

(* "The download is corrupt. Fetch the firmware again." (payload.py:208)   *)
(* A fetch does not start from the package the last one gave up on.        *)
FetchAgainHelps == [][FetchBegin => ~blamed]_bvars
=============================================================================
