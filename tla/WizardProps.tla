---------------------------- MODULE WizardProps ----------------------------
(***************************************************************************)
(* What the caches of a long process may and may not lead to.              *)
(***************************************************************************)
EXTENDS Wizard

Backup == [says : Names, of : Tablets, met : SUBSET Tablets]

(* A manifest that names a tablet names the one its images were read from, *)
(* however many stages, failures, restarts and updates went before, unless *)
(* one process talked to two tablets: the session keeps the first one's    *)
(* identity for good (session.py:122).  It may name none: the tool may     *)
(* report no serial, and Temblast has told a session that read first       *)
(* nothing at all (backup.py:195 before :215, edl.py:198).                 *)
BackupKnowsItsTablet ==
  \A i \in DOMAIN backups :
    backups[i].says \in Tablets /\ backups[i].says # backups[i].of
      => Cardinality(backups[i].met) > 1

(* The slot that root prepare goes by, and writes down, is the one the     *)
(* tablet is started from, whatever happened since an earlier stage read   *)
(* it, unless prepare found in the cache what adb had said before: a       *)
(* reboot into EDL failed, Recovery asked, or an earlier prepare waited    *)
(* for the tablet to come back, and no stage rebooted it into EDL since    *)
(* (context.py:88, :147, root.py:348).                                     *)
SlotIsTrue == plan # None /\ ~plan.true => plan.kept

(* When root apply writes, the plan's backup, which a rollback would bring *)
(* back, is of the tablet it writes to, though root prepare does not ask   *)
(* whose backup it takes and tablets are plugged in and out between stages *)
(* and processes; unless the manifest or the session names no tablet, so   *)
(* that mismatch() has nothing to compare, or a process that had a part in *)
(* it talked to two of them.                                               *)
AppliesWhereItBelongs ==
  [][ At("write") /\ Write
      => LET backup == backups[plan.backup] IN
         \/ attached = backup.of
         \/ ~({ctx.id, backup.says} \subseteq Tablets)
         \/ Cardinality(ctx.met \cup {attached}) > 1
         \/ Cardinality(backup.met) > 1 ]_wvars

(* SAFETY.md:120, "The active slot only": not so of a plan made in a       *)
(* wizard that looked at the tablet before it was updated.                 *)
PlanNamesTheActiveSlot == plan # None => plan.true

(* "the device's identity" a backup is bound to: not so in a wizard that   *)
(* is shown two tablets, nor of one that uses Temblast.                    *)
BackupNamesItsTablet == \A i \in DOMAIN backups : backups[i].says = backups[i].of
=============================================================================
