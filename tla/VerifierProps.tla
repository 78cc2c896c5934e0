--------------------------- MODULE VerifierProps ---------------------------
(***************************************************************************)
(* What a passing report is worth.                                         *)
(***************************************************************************)
EXTENDS Verifier

Calm == report # NotYet => report.acknowledged = {}

(* verify.py:149-154, failure mode 1 of SAFETY.md.  A kernel that reaches  *)
(* a partition of the boot family is the kernel of a trusted image: no way *)
(* of declaring another magic, of leaving sections empty or of mixing the  *)
(* target gets a kernel past the comparison.                               *)
KernelVouched ==
  Passed /\ Calm /\ BootFamily(call.target) /\ Kernel(call.image) # NoKernel
    => \E ref \in call.refs : Kernel(ref) = Kernel(call.image)

(* boot must never be left without a kernel (bootimg.py:134): the          *)
(* exception made for init_boot covers no other partition.                 *)
BootKeepsAKernel ==
  Passed /\ call.target.base \in {"boot", "recovery"} =>
    Kernel(call.image) # NoKernel

(* verify.py:163-218 tries the references one after the other: one that is *)
(* damaged, or of another build, never spoils what another one vouches for *)
(* (the stock firmware is often newer than the backup).                    *)
MoreTrustNeverRefuses ==
  report # NotYet /\ Calm /\ BootFamily(call.target) /\ Ok(report) =>
    \A more \in Trusted :
      VerifyCandidate([call EXCEPT !.refs = @ \cup more]) = {}

(* "forgot to actually patch it" (verify.py:16): a ramdisk that can be read*)
(* and is byte for byte a stock one never passes for a patched one,        *)
(* whatever other images are trusted beside it.                            *)
StockIsSeen ==
  Passed /\ call.patch =>
    \A ref \in call.refs :
      ref.ramdisk = call.image.ramdisk /\ ref.ramdisk.form = "cpio"
        => ref.ramdisk.names \cap (Magisk \cup OtherRoot) # {}
           \/ ref.ramdisk.names = {}

-----------------------------------------------------------------------------
(* Statements of the documents that do not hold. *)

(* "Fully recoverable" (SAFETY.md:142): what a backup holds of a partition *)
(* whose contents no format constrains goes back to the tablet it came     *)
(* from, whatever bytes it held: it is its own reference, it fills the     *)
(* partition, and nothing binds it to another tablet.                      *)
WhatWasThereGoesBack ==
  report # NotYet /\ ~call.patch /\ call.refs = {call.image}
    /\ call.table # NoTable /\ InTable(call) /\ call.image.size = call.table[call.target]
    /\ (call.target.slot # "" \/ call.target.base \notin Slotted(call.table))
    /\ call.binding = <<>>
    /\ Expected(call.target) = "any"
  => report.failing = {}
=============================================================================
