----------------------------- MODULE MCVerifier -----------------------------
(***************************************************************************)
(* A small instance: two kernels, ramdisks of every form, images of every  *)
(* format with their typical flaws, up to two references.                  *)
(***************************************************************************)
EXTENDS VerifierProps

CONSTANTS k1, k2, one, two

Ram(form, names, by) == [form |-> form, names |-> names, by |-> by]

Files == {"init", "lib", "sbin"}

Base == [size |-> 2, kind |-> "boot", sound |-> TRUE, kernel |-> k1,
         layout |-> 4, level |-> 1, ramdisk |-> Ram("cpio", Files, one),
         rest |-> one]

WithKernel ==
  {Base,
   [Base EXCEPT !.ramdisk = Ram("cpio", Files \cup {"magisk"}, one)],
   [Base EXCEPT !.kernel = k2, !.ramdisk.by = two],
   [Base EXCEPT !.kernel = k2, !.ramdisk = Ram("cpio", {"init", "ksud"}, two)],
   [Base EXCEPT !.ramdisk.form = "closed"],
   [Base EXCEPT !.sound = FALSE],
   [Base EXCEPT !.size = 3]}

WithoutKernel ==
  {[Base EXCEPT !.kernel = NoKernel],
   [Base EXCEPT !.kernel = NoKernel, !.ramdisk = Ram("cpio", {"init", "lib", "magisk"}, one)],
   [Base EXCEPT !.kernel = NoKernel, !.ramdisk.by = two],
   [Base EXCEPT !.kernel = NoKernel, !.level = 2],
   [Base EXCEPT !.kernel = NoKernel, !.ramdisk.form = "closed"],
   [Base EXCEPT !.kernel = NoKernel, !.ramdisk = Ram("raw", {"magisk"}, one)],
   [Base EXCEPT !.kind = "vendor_boot"],
   [Base EXCEPT !.kind = "vendor_boot", !.level = 2, !.ramdisk.by = two]}

OtherFormats ==
  {[Base EXCEPT !.size = 0, !.kind = "empty"], [Base EXCEPT !.kind = "empty"],
   [Base EXCEPT !.kind = "elf"], [Base EXCEPT !.kind = "elf", !.rest = two],
   [Base EXCEPT !.kind = "vbmeta"], [Base EXCEPT !.kind = "unknown"]}

MCCandidates == WithKernel \cup WithoutKernel \cup OtherFormats

(* Up to two of the images of the boot family, or one of any format. *)
MCTrusted ==
  {S \in SUBSET ((WithKernel \cup WithoutKernel) \ {[Base EXCEPT !.size = 3]}) :
     Cardinality(S) <= 2}
  \cup {{img} : img \in MCCandidates}

P(base, slot) == [base |-> base, slot |-> slot]

MCTargets == {P("boot", "a"), P("boot", ""), P("init_boot", "a"),
            P("vendor_boot", "a"), P("abl", "a"), P("vbmeta", "a"), P("misc", "")}

Gpt == [p \in (MCTargets \cup {P("boot", "b")}) \ {P("vbmeta", "a")} |-> 2]

Id(serial, pbl) == [Silent EXCEPT !.hwid = one, !.serial = serial, !.pbl_hash = pbl]

MCTables == {Gpt}

MCBindings ==
  {<<>>} \cup ({Id(one, <<1, 2>>)} \X
               {Id(one, <<1>>), Id(two, <<1, 2>>), Id(one, <<2>>), Silent})

MCMagisk == {"magisk"}
MCOtherRoot == {"ksud"}
=============================================================================
