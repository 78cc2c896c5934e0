---------------------------- MODULE RootingProps ----------------------------
(***************************************************************************)
(* What rooting promises over several commands, with updates of Android,   *)
(* failed writes and deaths between them.                                  *)
(***************************************************************************)
EXTENDS Rooting

(* Failure mode 1 of SAFETY.md: an image of another model reaches a slot   *)
(* only while the tool trusts such an image: in stock firmware the owner   *)
(* fetched with another --model or --upx, or in a backup of what was once  *)
(* restored from it.  No file brought to apply does it, no rollback, and no*)
(* backup that was cut short.                                              *)
Trusts(img) ==
  \/ img \in Firmware
  \/ \E i \in DOMAIN backups : img \in Range(backups[i].images)

NoneForeign ==
  \A s \in AB : flash'[s].kernel = Foreign =>
    \/ flash[s].kernel = Foreign
    \/ \E img \in Image : Trusts(img) /\ img.kernel = Foreign

NeverForeign == [][NoneForeign]_rvars

(* There is something to go back to: when a slot cannot start, or a backup *)
(* is at hand that could be restored to it or rolled back to, an intact    *)
(* backup has an image of the slot that starts, or stock firmware was      *)
(* fetched (and can be again, if a death tore its manifest).               *)
Returns(s) ==
  \/ golden \in Builds \cup {Torn}
  \/ \E i \in DOMAIN backups :
       Intact(backups[i]) /\ \E img \in At(backups[i].images, s) : Bootable(img)

WayBack(s) ==
  \/ Returns(s)
  \/ /\ Bootable(flash[s])
     /\ \A i \in DOMAIN backups : s \notin DOMAIN backups[i].images

(* It holds at first, and nothing takes it away, no failed write, rollback,*)
(* restore, update, death or later backup, except a backup over an existing*)
(* directory (--dest) and stock firmware of another model.                 *)
WayBackStays ==
  \A s \in AB : WayBack(s) =>
    \/ WayBack(s)'
    \/ at = "backing" /\ job.to \in DOMAIN backups
    \/ golden' = Foreign

SomethingToGoBackTo == [][WayBackStays]_rvars

(* The plan names a backup that apply can load: prepare leaves no other,   *)
(* and only a backup over that very directory (--dest) changes it.         *)
Stands == plan \in Plan => plan.backup \in DOMAIN backups /\ Loads(backups[plan.backup])

PlanKept ==
  \/ Stands'
  \/ plan' = plan /\ (Stands => at = "backing" /\ job.to = plan.backup)

PlanStands == [][PlanKept]_rvars

(* One slot still starts: a command that found both slots in order, and    *)
(* writes images that start, leaves at least one that starts wherever it   *)
(* ends, in a failed write or rollback, in a death or between two writes;  *)
(* also when it writes both slots (--both-slots, rescue of both).          *)
OneSlotStarts ==
  [][at = "writing" /\ job.safe /\ (\A s \in DOMAIN job.images : Bootable(job.images[s]))
       => \E s \in AB : Bootable(flash'[s])]_rvars

-----------------------------------------------------------------------------
(* Statements of the code's messages and documents that do not hold. *)

(* "The active slot only, by default" (SAFETY.md:120): apply without       *)
(* --both-slots changes the slot the tablet is going to start from.  An    *)
(* update after prepare moves the tablet to the other one.                 *)
OnlyTheActiveSlot ==
  [][\A s \in AB : flash'[s] # flash[s] /\ at = "writing"
       /\ job.kind = "apply" /\ Len(job.left) = 1 /\ job.done = {} => s = boots]_rvars

(* "put the stock image back, from the backup or from stock firmware"      *)
(* (README.md, unroot)                                                     *)
UnrootedMeansStock ==
  [][Finish /\ job.kind = "unroot" =>
       \A s \in job.done : flash[s].ramdisk # "patched"]_rvars

(* "Boot into Android so adb can read ro.boot.slot_suffix" (cli.py:60):    *)
(* when unroot is started in Android, the slot is found.                   *)
SlotIsFound == [][at # "slotless" /\ at' = "slotless" => ~InAndroid]_rvars

=============================================================================
