----------------------------- MODULE BootLayout -----------------------------
(***************************************************************************)
(* Where a boot image keeps its kernel and its ramdisk                     *)
(* (boox/imaging/bootimg.py).                                              *)
(*                                                                         *)
(* An image is its header, which says how long each section is, and its    *)
(* length.  A section that is not there has length zero.                   *)
(***************************************************************************)
EXTENDS Integers, Sequences

CONSTANTS
  MinPage, MaxPage,  \* the page sizes taken for plausible
  FixedPage,         \* the page size of boot images of version 3 and 4
  MinHeader,         \* the shortest vendor_boot header
  HeaderOf           \* HeaderOf[v]: the header length a version is known by

ASSUME PageAssumption ==
  /\ {MinPage, MaxPage, FixedPage, MinHeader} \subseteq Nat \ {0}
  /\ HeaderOf \in [{3, 4} -> Nat \ {0}]

(* A slip: the last, partial page is dropped. *)
AlignSlip(n, page) == (n \div page) * page

(* _align: up to a whole number of pages. *)
Align(n, page) == ((n + page - 1) \div page) * page

PowersOfTwo == {2^i : i \in 0 .. 20}

PlausiblePage(page) == page \in MinPage .. MaxPage /\ page \in PowersOfTwo

PageOf(h) ==
  IF h.kind = "boot" /\ h.version >= 3 THEN FixedPage ELSE h.page

(* What a header may say: page and header lengths, and the lengths of the  *)
(* sections, are unsigned.                                                 *)
BootFields == {"kernel", "ramdisk", "second", "recovery_dtbo", "dtb", "signature"}

HeadersOf(kinds, versions, fields) ==
  [kind : kinds, version : versions, page : Nat, header : Nat, size : [fields -> Nat]]

AllHeaders ==
  HeadersOf({"boot"}, 0 .. 4, BootFields)
    \cup HeadersOf({"vendor_boot"}, {3, 4}, {"vendor_ramdisk", "dtb", "signature"})

(* The sections of a kind and version, in the order they are stored. *)
Order(h) ==
  IF h.kind = "vendor_boot" THEN <<"vendor_ramdisk", "dtb">>
  ELSE IF h.version >= 3 THEN <<"kernel", "ramdisk">>
  ELSE SubSeq(<<"kernel", "ramdisk", "second", "recovery_dtbo", "dtb">>,
              1, 3 + h.version)

(* Where the first section starts.  A vendor_boot header may take several  *)
(* pages; a length that cannot be is replaced by the version's own.        *)
FirstOffset(h) ==
  IF h.kind # "vendor_boot" THEN PageOf(h)
  ELSE Align(IF h.header < MinHeader \/ h.header > MaxPage
               THEN HeaderOf[h.version] ELSE h.header, PageOf(h))

(* The offset when the loop over the sections has passed the first n. *)
OffsetAfter(h) ==
  LET offset[n \in 0 .. Len(Order(h))] ==
        IF n = 0 THEN FirstOffset(h)
        ELSE offset[n - 1] + Align(h.size[Order(h)[n]], PageOf(h))
  IN  offset

Offset(h, i) == OffsetAfter(h)[i - 1]

Section(h, i) == [from |-> Offset(h, i), to |-> Offset(h, i) + h.size[Order(h)[i]]]

Stored(h) == {i \in DOMAIN Order(h) : h.size[Order(h)[i]] > 0}

(* _check_span for every section that is there, and a boot image has a     *)
(* kernel unless the caller lets it go without.                            *)
SpansHold(h, length, mayLackKernel) ==
  /\ PlausiblePage(PageOf(h))
  /\ h.kind = "boot" => mayLackKernel \/ h.size["kernel"] > 0
  /\ \A i \in Stored(h) : Section(h, i).to <= length

(* The sections of an image that parses.  The signature of version 4 comes *)
(* last, and is left out if the file ends before it does.                  *)
Sections(h, length) ==
  LET from == Offset(h, Len(Order(h)) + 1)
      to   == from + h.size["signature"]
      signed == h.kind = "boot" /\ h.version = 4 /\ h.size["signature"] > 0 /\ to <= length
  IN  {Section(h, i) : i \in Stored(h)}
        \cup (IF signed THEN {[from |-> from, to |-> to]} ELSE {})
=============================================================================
