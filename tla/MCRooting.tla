----------------------------- MODULE MCRooting -----------------------------
(***************************************************************************)
(* Small instances: an update of Android, firmware and files of another    *)
(* model, and one backup directory; or one build and two directories.      *)
(***************************************************************************)
EXTENDS RootingProps

MCBuilds == {1, 2}

Patched(b) == [kernel |-> b, ramdisk |-> "patched"]

(* A patched file of the first build, one of another model, and a stock one. *)
MCFiles == {Patched(1), Patched(Foreign), Stock(1)}
MCReleases == {1, Foreign}

MCFilesOfOne == {Patched(1)}
=============================================================================
