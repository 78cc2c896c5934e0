------------------------------ MODULE Verifier ------------------------------
(***************************************************************************)
(* The image verifier (boox/safety/verify.py), with what it sees of an     *)
(* image (boox/imaging/bootimg.py, ramdisk.py).                            *)
(*                                                                         *)
(* An image keeps what the checks tell apart: its size, its magic, whether *)
(* the parser finds its sections inside it, its kernel, its header, its    *)
(* ramdisk, and the rest of its bytes.  Lookup of names and formatting of  *)
(* the report are left out; the report is the set of fatal checks that     *)
(* failed, and the failures the caller acknowledged.                       *)
(***************************************************************************)
EXTENDS Tiers, FiniteSets, Identity

CONSTANTS
  NoKernel,   \* the kernel section is empty
  Magisk,     \* file names that show Magisk in a ramdisk
  OtherRoot,  \* file names that show another root solution
  NoTable,    \* no partition table was given
  NotYet,     \* the verifier has not answered
  Targets,    \* partitions, of the device or not
  Candidates, \* images offered
  Trusted,    \* sets of images that callers trust
  Tables,     \* partition tables: from partitions to their sizes
  Bindings    \* pairs of identities, expected and actual; <<>> if not asked

(* The arguments of verify_candidate. *)
Calls ==
  [target : Targets, image : Candidates, refs : Trusted,
   table : Tables \cup {NoTable}, patch : BOOLEAN, binding : Bindings]

VARIABLES
  call,       \* the arguments of verify_candidate
  report      \* what it returned

vvars == <<call, report>>

-----------------------------------------------------------------------------
(* What is seen of an image. *)

EXPECTED_KIND ==
  [boot |-> "boot", init_boot |-> "boot", recovery |-> "boot",
   vendor_boot |-> "vendor_boot",
   vbmeta |-> "vbmeta", vbmeta_system |-> "vbmeta", vbmeta_vendor |-> "vbmeta",
   abl |-> "elf", xbl |-> "elf", xbl_config |-> "elf", tz |-> "elf",
   hyp |-> "elf", devcfg |-> "elf"]

KERNEL_LESS == {"init_boot"}

Expected(target) ==
  IF target.base \in DOMAIN EXPECTED_KIND THEN EXPECTED_KIND[target.base]
  ELSE "any"

BootFamily(target) == Expected(target) \in {"boot", "vendor_boot"}

MayLackKernel(target) == target.base \in KERNEL_LESS

(* A ramdisk: "cpio" lists its names, "raw" decompresses to something that *)
(* is no cpio archive, "closed" cannot be decompressed here (no codec, or  *)
(* damaged, or no ramdisk at all).  by tells apart what the names do not.  *)
Listing(r) == IF r.form = "cpio" THEN r.names ELSE {}

PatchState(r) ==
  IF r.form = "closed" THEN "unknown"
  ELSE IF Listing(r) \cap (Magisk \cup OtherRoot) # {} THEN "patched"
  ELSE IF Listing(r) # {} THEN "not_patched"
  ELSE IF r.names \cap Magisk # {} THEN "patched"
  ELSE "unknown"

(* A vendor_boot image has neither kernel nor security patch level. *)
Kernel(img) == IF img.kind = "boot" THEN img.kernel ELSE NoKernel

Fingerprint(img) ==
  <<img.layout, IF img.kind = "boot" THEN img.level ELSE 0>>

(* A slip: any image may lack a kernel. *)
ParsesSlip(img, mayLackKernel) ==
  /\ img.kind \in {"boot", "vendor_boot"}
  /\ img.sound

(* bootimg.parse *)
Parses(img, mayLackKernel) ==
  /\ img.kind \in {"boot", "vendor_boot"}
  /\ img.sound
  /\ img.kind = "boot" /\ img.kernel = NoKernel => mayLackKernel

-----------------------------------------------------------------------------
(* The checks. *)

(* At least six tenths of the reference's files are still there. *)
Overlaps(img, ref) ==
  LET names == Listing(ref.ramdisk)
  IN  /\ names # {}
      /\ 10 * Cardinality(names \cap Listing(img.ramdisk)) >= 6 * Cardinality(names)

(* A slip: an image without a kernel is compared by its ramdisk only. *)
DerivedFromSlip(img, ref) ==
  IF Kernel(img) # NoKernel /\ Kernel(ref) # NoKernel
  THEN Kernel(img) = Kernel(ref)
  ELSE Overlaps(img, ref)

DerivedFrom(img, ref) ==
  IF Kernel(img) # NoKernel /\ Kernel(ref) # NoKernel
  THEN Kernel(img) = Kernel(ref)
  ELSE /\ Kernel(img) = NoKernel /\ Kernel(ref) = NoKernel
       /\ Fingerprint(img) = Fingerprint(ref)
       /\ Overlaps(img, ref)

(* A slip: every reference has to vouch. *)
ProvenanceSlip(img, refs, mayLackKernel) ==
  /\ refs # {}
  /\ \A ref \in refs : Parses(ref, mayLackKernel) /\ DerivedFrom(img, ref)

Provenance(img, refs, mayLackKernel) ==
  \E ref \in refs : Parses(ref, mayLackKernel) /\ DerivedFrom(img, ref)

Fails(name, holds) == IF holds THEN {} ELSE {name}

(* is_ab, and the base names that have slots. *)
IsAB(table) == {"a", "b"} \subseteq {p.slot : p \in DOMAIN table}
Slotted(table) == {p.base : p \in {q \in DOMAIN table : q.slot # ""}}

(* Where the image is to go. *)
TargetFails(target, img, table) ==
  IF table = NoTable THEN {}
  ELSE Fails("fits_partition", img.size <= table[target])
       \cup Fails("slot_explicit",
                  IsAB(table) => \/ target.slot # ""
                                 \/ target.base \notin Slotted(table))

(* What the image is. *)
FormatFails(target, img) ==
  Fails("magic_matches_target",
        Expected(target) = "any" \/ img.kind = Expected(target))
  \cup (IF BootFamily(target)
        THEN Fails("header_parses", Parses(img, MayLackKernel(target)))
        ELSE Fails("header_parses", Expected(target) = "vbmeta" =>
                                      img.kind = "vbmeta" /\ img.sound))

(* Where it came from.  An image of another format has to be a reference,  *)
(* byte for byte; with no reference at all that is a warning.              *)
ProvenanceFails(target, img, refs) ==
  Fails("provenance",
        IF BootFamily(target)
        THEN /\ Parses(img, MayLackKernel(target))
             /\ Provenance(img, refs, MayLackKernel(target))
        ELSE refs = {} \/ img \in refs)

(* A slip: a ramdisk without a marker is taken for one it cannot read. *)
PatchFailsSlip(target, img, refs) ==
  Fails("root_patch_present", Parses(img, MayLackKernel(target)))

(* Was it patched?  That it cannot be told is a warning; an image that     *)
(* does not parse is not compared with stock.                              *)
PatchFails(target, img, refs) ==
  IF ~Parses(img, MayLackKernel(target)) THEN {"root_patch_present"}
  ELSE Fails("root_patch_present", PatchState(img.ramdisk) # "not_patched")
       \cup Fails("ramdisk_differs_from_stock",
                  refs # {} =>
                    \E ref \in refs : /\ Parses(ref, MayLackKernel(target))
                                      /\ ref.ramdisk # img.ramdisk)

BindingFails(binding) ==
  Fails("device_binding",
        binding = <<>> \/ Mismatch(binding[1], binding[2]) = {})

InTable(c) == IF c.table = NoTable THEN TRUE ELSE c.target \in DOMAIN c.table

(* verify_candidate: the fatal checks that fail.  It returns early for an  *)
(* empty image and for a partition the device does not have.               *)
VerifyCandidate(c) ==
  IF c.image.size = 0 THEN {"non_empty"}
  ELSE Fails("not_blank", c.image.kind # "empty") \cup
       IF ~InTable(c) THEN {"partition_exists"}
       ELSE TargetFails(c.target, c.image, c.table)
            \cup FormatFails(c.target, c.image)
            \cup ProvenanceFails(c.target, c.image, c.refs)
            \cup (IF c.patch THEN PatchFails(c.target, c.image, c.refs) ELSE {})
            \cup BindingFails(c.binding)

(* The provenance check was made, so it can be acknowledged. *)
ProvenanceMade(c) == c.image.size # 0 /\ InTable(c)

(* Report.ok *)
Ok(r) == r.failing \subseteq r.acknowledged

Passed == report # NotYet /\ Ok(report)

-----------------------------------------------------------------------------
(* A caller asks, and unlock acknowledges what cannot hold. *)

VInit == call \in Calls /\ report = NotYet

Verify ==
  /\ report = NotYet
  /\ report' = [failing |-> VerifyCandidate(call), acknowledged |-> {}]
  /\ UNCHANGED call

(* Report.override, which the program calls for provenance only. *)
Override ==
  /\ report # NotYet /\ ProvenanceMade(call)
  /\ report' = [report EXCEPT !.acknowledged = @ \cup {"provenance"}]
  /\ UNCHANGED call

VNext == Verify \/ Override

VSpec == VInit /\ [][VNext]_vvars
=============================================================================
