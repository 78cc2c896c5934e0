---------------------------- MODULE UnlockProps ----------------------------
(***************************************************************************)
(* What may be relied on while bootloaders are replaced and put back, with *)
(* steps that fail and commands that end anywhere.                         *)
(***************************************************************************)
EXTENDS Unlock

(* "this is not the device the backup came from" (session.py:137): the     *)
(* bytes of one tablet never reach another, neither restored nor rolled    *)
(* back to, from whatever backup is the latest, as long as every command   *)
(* had two serial numbers to compare.                                      *)
NeverAnotherTablets ==
  ~unsure => \A t \in Tablets, p \in Parts : flash[t][p] \notin Tablets \ {t}

(* The stock bytes of a partition are in an intact backup. *)
Saved(t, p) ==
  \E n \in DOMAIN backups :
    /\ backups[n].whole /\ p \in DOMAIN backups[n].images
    /\ backups[n].images[p] = t

(* They are where they should be, and there is no backup to touch them with*)
Untouched(t, p) ==
  /\ flash[t][p] = t
  /\ \A n \in DOMAIN backups :
       backups[n].of = t /\ backups[n].whole => p \notin DOMAIN backups[n].images

(* A directory that held a backup was written to. *)
Overwritten == Len(backups') = Len(backups) /\ backups' # backups

(* "Without it there is nothing to roll back to" (unlock.py:113): no unlock*)
(* or rescue, from whatever backup, and no new backup of what those left,  *)
(* takes away the last copy of the stock bytes of a partition.  Only what  *)
(* is written to the directory of a backup (with --dest, or by hand) can.  *)
StaysKept ==
  ~unsure => \A t \in Tablets, p \in Parts :
    Saved(t, p) \/ Untouched(t, p) =>
      Saved(t, p)' \/ Untouched(t, p)' \/ Overwritten

StockIsKept == [][StaysKept]_uvars

(* A step of a command writes to partition p of tablet t. *)
Changes(t, p) == at = "writing" /\ flash'[t][p] # flash[t][p]

(* "Do NOT reboot the device" (session.py:234): no command restarts the    *)
(* tablet while a partition it wrote may hold anything but what it sent.   *)
NeverRestartsInDoubt ==
  [][\A t \in Tablets : at = "writing" /\ mode[t] = "edl" /\ mode'[t] = "left" =>
       \A p \in DOMAIN job.sent : flash[t][p] = job.sent[p]]_uvars

-----------------------------------------------------------------------------
(* Statements of the code's messages and documents that do not hold. *)

(* The write token "is bound to the device's identity" (SAFETY.md:39): it  *)
(* is not used on a tablet that has another one.                           *)
TokenBindsTablet ==
  [][\A t \in Tablets, p \in Parts :
       Changes(t, p) => job.seen \in Reports[t]]_uvars

(* "That restores the original bootloader byte for byte" (unlock.py:215),  *)
(* of the backup unlock rolls back to and names when it is done.           *)
OriginalComesBack ==
  [][at = "writing" /\ job.kind = "unlock" /\ job.todo = <<>> /\ at' = "none" =>
       \A p \in DOMAIN job.sent \ {"frp"} :
         backups[job.backup].images[p] \in Tablets]_uvars
=============================================================================
