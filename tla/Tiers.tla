------------------------------- MODULE Tiers -------------------------------
(***************************************************************************)
(* Blast-radius classification of partitions (boox/safety/tiers.py).       *)
(*                                                                         *)
(* A partition name is a base name and an A/B slot suffix, so "boot_a" is  *)
(* [base |-> "boot", slot |-> "a"] and an unslotted name has slot "".      *)
(***************************************************************************)
EXTENDS Naturals

(* The three tiers, ordered by how bad it is to get the write wrong. *)
SAFE == 1
DANGEROUS == 2
CATASTROPHIC == 3

Tier == {SAFE, DANGEROUS, CATASTROPHIC}

Slots == {"", "a", "b"}

(* Strip the slot suffix: "boot_a" becomes "boot". *)
BaseName(p) == [p EXCEPT !.slot = ""]

(* The base names the tool recognises, tier by tier. *)
SafeNames == {"boot", "init_boot", "recovery", "vendor_boot", "dtbo"}

DangerousNames ==
  {"vbmeta", "vbmeta_system", "vbmeta_vendor", "misc", "frp", "devinfo",
   "metadata", "userdata", "cache", "system", "vendor", "product",
   "super", "vendor_dlkm", "system_ext", "odm"}

CatastrophicNames ==
  {"abl", "xbl", "xbl_config", "xbl_a", "xbl_b", "tz", "hyp", "keymaster",
   "cmnlib", "cmnlib64", "devcfg", "storsec", "uefisecapp", "featenabler",
   "imagefv", "multiimgoem", "qupfw", "aop", "modem", "dsp", "bluetooth",
   "persist", "modemst1", "modemst2", "fsg", "fsc", "sec", "apdp", "msadp",
   "splash", "logo", "rpm", "PrimaryGPT", "BackupGPT", "gpt", "limits",
   "toolsfv", "vm-bootsys", "shrm", "cpucp"}

(* The tier of a base name; a name in no list is CATASTROPHIC. *)
BuiltIn(base) ==
  IF base \in SafeNames THEN SAFE
  ELSE IF base \in DangerousNames THEN DANGEROUS
  ELSE CATASTROPHIC

Worse(t, u) == IF t >= u THEN t ELSE u

(* overrides is a function from names to tiers: the profile's table.  The  *)
(* entry of the base name shadows the entry of the slotted name.           *)
Requested(p, overrides) ==
  IF BaseName(p) \in DOMAIN overrides THEN {overrides[BaseName(p)]}
  ELSE IF p \in DOMAIN overrides THEN {overrides[p]}
  ELSE {}

Classify(p, overrides) ==
  LET builtIn == BuiltIn(p.base)
      asked   == Requested(p, overrides)
  IN  IF asked = {} THEN builtIn
      ELSE Worse(builtIn, CHOOSE t \in asked : TRUE)
=============================================================================
