----------------------------- MODULE MCFormats -----------------------------
(***************************************************************************)
(* A short sector is two units, a long one eight.  Disks of three entries  *)
(* with slots, without, with an unused entry and with one that ends before *)
(* it starts; images of every version with sections of up to three units   *)
(* and pages of two and four; payloads of two operations over a few blocks *)
(* of two bytes.                                                           *)
(***************************************************************************)
EXTENDS FormatsProps

N(base, slot) == [base |-> base, slot |-> slot]

MCEntries ==
  [name : {N("boot", "a"), N("boot", "b"), N("init_boot", "b"), N("boot", "")},
   first : {1, 2}, last : {1, 3}, used : {TRUE}]
  \cup [name : {N("misc", "")}, first : {2}, last : {2}, used : BOOLEAN]

MCDisks ==
  [entries : UNION {[1 .. n -> MCEntries] : n \in 1 .. 3}, sector : {Small, Long},
   bare : BOOLEAN]

MCHeaderOf == [v \in {3, 4} |-> v]

BootSizes ==
  [kernel : 0 .. 3, ramdisk : {0, 2}, second : {0, 1}, recovery_dtbo : {0, 3},
   dtb : {0, 1}, signature : {0, 1}]

VendorSizes == [vendor_ramdisk : 0 .. 5, dtb : 0 .. 3, signature : {0}]

MCHeaders ==
  [kind : {"boot"}, version : 0 .. 4, page : {1, 2, 3, 4, 8}, header : {0}, size : BootSizes]
  \cup [kind : {"vendor_boot"}, version : {3, 4}, page : {2, 4},
        header : {1, 3, 4, 9}, size : VendorSizes]

MCLengths == {1, 4, 6, 9, 12, 30}

MCExtents == [start : 0 .. 2, num : 1 .. 2]

MCOps ==
  [type : {"replace"}, data : {<<1>>, <<1, 2>>, <<1, 2, 3, 4>>},
   extents : UNION {[1 .. n -> MCExtents] : n \in 1 .. 2}]
  \cup [type : {"zero"}, data : {<<>>}, extents : [1 .. 1 -> MCExtents]]
  \cup [type : {"delta"}, data : {<<>>}, extents : {<<>>}]

MCPayloads == [size : {0, 3, 6}, ops : UNION {[1 .. n -> MCOps] : n \in 0 .. 2}]

(* The second digit of a long varint is 1. *)
MCBytes == [digit : {1, 2, 8, 10}, more : {FALSE}] \cup [digit : {1}, more : {TRUE}]

MCMessages == UNION {[1 .. n -> MCBytes] : n \in 1 .. 6}
=============================================================================
