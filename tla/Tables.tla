------------------------------- MODULE Tables -------------------------------
(***************************************************************************)
(* The partition table of a device, the three ways it is told of           *)
(* (boox/imaging/gpt.py, transport/edl.py), and how a partition to write is *)
(* picked from it (ops/root.py, cli.py).                                   *)
(*                                                                         *)
(* A name is its base and its slot, as in Tiers.  Sizes and offsets are in *)
(* units of which Small make a short sector.  A table keeps the places its *)
(* partitions had where it was read: skipping one leaves a gap.            *)
(***************************************************************************)
EXTENDS Integers, Sequences

CONSTANTS
  Small,  \* units in a sector of 512 bytes
  Long,   \* units in one of 4096
  Gap,    \* entries that fit between a long sector's end and a short one's
  Entries \* entries of a GPT: a name, the first and the last sector, if used

ASSUME TablesAssumption ==
  /\ Small \in Nat \ {0} /\ Long \in Nat /\ Long > Small /\ Long % Small = 0
  /\ Gap \in Nat
  /\ \A e \in Entries : e.first \in Nat /\ e.last \in Nat /\ e.used \in BOOLEAN

(* A disk: its entries, its sectors, and whether dumps of it begin with    *)
(* the header.                                                             *)
AllDisks == [entries : Seq(Entries), sector : {Small, Long}, bare : BOOLEAN]

Partition(name, start, count, sector) ==
  [name |-> name, start |-> start, count |-> count, sector |-> sector]

SizeBytes(p) == p.count * p.sector
StartByte(p) == p.start * p.sector

AtLeastZero(n) == IF n < 0 THEN 0 ELSE n

Least(m, n) == IF m < n THEN m ELSE n

First(places) == CHOOSE i \in places : \A j \in places : i <= j

(* One GPT entry: its last sector belongs to it. *)
Entry(e, sector) ==
  Partition(e.name, e.first, AtLeastZero(e.last - e.first + 1), sector)

(* A slip: an entry that is only half there is read. *)
InDumpSlip(entries, upto) ==
  [i \in 1 .. (IF upto < Len(entries) THEN upto + 1 ELSE upto) |->
     IF i <= upto THEN entries[i] ELSE [entries[i] EXCEPT !.last = entries[i].first]]

(* The entries that are wholly in a dump that was cut after some of them. *)
InDump(entries, upto) == [i \in 1 .. upto |-> entries[i]]

(* A dump that begins with the header itself is always read in short       *)
(* sectors: from a disk of long ones as many entries as the gap holds read *)
(* as unused, and as many at the end are not read.                         *)
SectorOf(disk) == IF disk.bare THEN Small ELSE disk.sector

Reach(disk) ==
  IF disk.bare /\ disk.sector # Small THEN AtLeastZero(Len(disk.entries) - Gap)
  ELSE Len(disk.entries)

(* parse_gpt_binary of a dump cut after some entries: unused ones are      *)
(* skipped.                                                                *)
FromBinary(disk, upto) ==
  LET there == InDump(disk.entries, upto)
      kept  == {i \in 1 .. Least(Len(there), Reach(disk)) : there[i].used}
  IN  [i \in kept |-> Entry(there[i], SectorOf(disk))]

(* parse_rawprogram_xml *)
FromXml(programs) ==
  [i \in DOMAIN programs |->
     Partition(programs[i].label, programs[i].start, programs[i].sectors,
               programs[i].sector)]

(* A slip: lengths are taken for sectors. *)
FromPrintSlip(rows) ==
  [i \in {j \in DOMAIN rows : rows[j].length > 0} |->
     Partition(rows[i].name, rows[i].start \div Small, rows[i].length, Small)]

(* parse_printgpt_text: offsets and lengths in bytes; empty ones skipped. *)
FromPrint(rows) ==
  [i \in {j \in DOMAIN rows : rows[j].length > 0} |->
     Partition(rows[i].name, rows[i].start \div Small,
               rows[i].length \div Small, Small)]

(* _table_from_dir: the first dump of a unit that parses, or the XML. *)
FromDir(dumps, xml) ==
  LET parsed == {i \in DOMAIN dumps : DOMAIN dumps[i] # {}}
  IN  IF parsed # {} THEN dumps[First(parsed)] ELSE xml

Names(table) == {table[i].name : i \in DOMAIN table}

(* Of two partitions with one name the last counts. *)
Get(table, name) ==
  table[CHOOSE i \in DOMAIN table :
          /\ table[i].name = name
          /\ \A j \in DOMAIN table : table[j].name = name => j <= i]

(* is_ab *)
HasSlots(table) == {"a", "b"} \subseteq {n.slot : n \in Names(table)}

Named(base, slot) == [base |-> base, slot |-> slot]

-----------------------------------------------------------------------------
(* A slip: the first slotted name will do. *)
CandidateSlip(table, base, slot) ==
  LET slotted == {n \in Names(table) : n.base = base}
  IN  IF slotted = {} THEN Named(base, "") ELSE CHOOSE n \in slotted : TRUE

(* choose_target: the name looked for, if slot ("" for none) is known. *)
Candidate(table, base, slot) ==
  IF slot # "" /\ Named(base, slot) \in Names(table) THEN Named(base, slot)
  ELSE Named(base, "")

(* choose_target: the first candidate of the profile's targets that is in  *)
(* the table, can be read and carries a ramdisk; none is a refusal.        *)
ChooseTarget(table, targets, slot, carries) ==
  LET fits(base) == LET n == Candidate(table, base, slot)
                    IN  n \in Names(table) /\ n \in carries
      good == {i \in DOMAIN targets : fits(targets[i])}
  IN  IF good = {} THEN {} ELSE {Candidate(table, targets[First(good)], slot)}

(* cmd_unroot: every target the table has; a table with slots and no slot  *)
(* to go by is a refusal.                                                  *)
UnrootTargets(table, targets, slot) ==
  IF slot = "" /\ HasSlots(table) THEN {}
  ELSE {Named(targets[i], slot) : i \in DOMAIN targets} \cap Names(table)
=============================================================================
