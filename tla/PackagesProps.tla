--------------------------- MODULE PackagesProps ---------------------------
(***************************************************************************)
(* What a debloat and its undoing may do to a tablet.                      *)
(***************************************************************************)
EXTENDS Packages

KTypeOK ==
  /\ on \subseteq Everything /\ mine \subseteq Everything \ on
  /\ job \in Job \cup {NoJob}

(* "a protected list is enforced in code" (debloat.py:9): however a package*)
(* gets on the list, and whatever the owner and earlier commands did since *)
(* it was made, the tool never turned off a protected package, and the     *)
(* command under way turns off none it was told to keep.                   *)
ProtectedStay ==
  /\ mine \cap Protected = {}
  /\ job # NoJob => job.removed \cap job.keep = {}

(* After debloats that were cut short, repeated, or mixed with the owner's *)
(* changes, a restore of everything in which nothing failed leaves no      *)
(* package of a tier that the tool turned off.                             *)
RestoreAllUndoesTiers ==
  [][job # NoJob /\ job.kind = "restore_all" /\ job.left = {} /\ job.failed = {}
       /\ job' = NoJob
     => mine' \cap Listed = {}]_pvars

(* No package and no failure keeps a command from coming to its end: each  *)
(* package is gone about once, though the owner changes things meanwhile.  *)
CommandsEnd == job # NoJob ~> job = NoJob

(* What debloat prints, "Bring all back: boox debloat --restore-all"       *)
(* (debloat.py:137); not so of packages named with --package.              *)
BringAllBack ==
  [][job # NoJob /\ job.kind = "restore_all" /\ job.left = {} /\ job.failed = {}
       /\ job' = NoJob
     => mine' = {}]_pvars
=============================================================================
