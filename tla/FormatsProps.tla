---------------------------- MODULE FormatsProps ----------------------------
(***************************************************************************)
(* What the checks that rest on these parsers take for granted.            *)
(***************************************************************************)
EXTENDS Formats, SequencesExt

Has(kind) == seen # Nothing /\ kind \in DOMAIN seen

-----------------------------------------------------------------------------
(* Tables. *)

Whole(disk) == FromBinary(disk, Len(disk.entries))

Extent(table, name) == [from |-> StartByte(Get(table, name)), size |-> SizeBytes(Get(table, name))]

(* How edl writes the entries of a disk as XML, and prints them. *)
Used(disk) == {i \in DOMAIN disk.entries : disk.entries[i].used}

AsXml(disk) ==
  LET es == disk.entries
  IN  [i \in Used(disk) |-> [label |-> es[i].name, start |-> es[i].first,
         sectors |-> es[i].last - es[i].first + 1, sector |-> disk.sector]]

AsPrint(disk) ==
  LET es == disk.entries
  IN  [i \in Used(disk) |-> [name |-> es[i].name, start |-> es[i].first * disk.sector,
         length |-> (es[i].last - es[i].first + 1) * disk.sector]]

Unrepeated(disk) ==
  \A i, j \in Used(disk) : disk.entries[i].name = disk.entries[j].name => i = j

(* "the result is the same PartitionTable, and every later safety check    *)
(* reads partition bounds from it" (gpt.py:10-11): the three sources agree *)
(* on where a partition is and how long, whatever the size of a sector.    *)
(* Of the dumps that begin with the header only those of short sectors do. *)
SourcesAgree ==
  Has("disk") /\ Unrepeated(seen.disk) /\ SectorOf(seen.disk) = seen.disk.sector =>
    LET xml    == FromXml(AsXml(seen.disk))
        others == {xml, FromPrint(AsPrint(seen.disk))}
        whole  == FromDir(<<Whole(seen.disk)>>, xml)
    IN  \A n \in Names(whole), other \in others :
          SizeBytes(Get(whole, n)) > 0 =>
            n \in Names(other) /\ Extent(other, n) = Extent(whole, n)

(* A dump that was cut short loses partitions and never moves or shortens  *)
(* one: fits_partition would be asked of the wrong bounds.                 *)
CutTableOnlyLoses ==
  Has("disk") /\ Unrepeated(seen.disk) =>
    \A upto \in 0 .. Len(seen.disk.entries) :
      LET cut == FromBinary(seen.disk, upto)
      IN  \A n \in Names(cut) :
            n \in Names(Whole(seen.disk)) /\ Extent(cut, n) = Extent(Whole(seen.disk), n)

RootTargets == <<"init_boot", "boot">>

(* Failure mode 2 of SAFETY.md: whatever is left of the table, and whatever*)
(* candidates can be read, neither root nor unroot picks a partition of a  *)
(* slot other than the one it was given, or of any slot if it has none.    *)
NeverTheWrongSlot ==
  Has("disk") =>
    \A upto \in 0 .. Len(seen.disk.entries), slot \in {"", "a", "b"} :
      LET cut == FromBinary(seen.disk, upto)
      IN  \A carries \in SUBSET Names(cut) :
            \A n \in ChooseTarget(cut, RootTargets, slot, carries)
                     \cup UnrootTargets(cut, RootTargets, slot) :
              n.slot \in {"", slot}

-----------------------------------------------------------------------------
(* Boot images. *)

(* Two sections of an image never share a byte with each other or with the *)
(* header: provenance compares the kernel, and the patch is looked for in  *)
(* the ramdisk, so that one must not be found in the other.                *)
SectionsApart ==
  Has("header") /\ SpansHold(seen.header, seen.length, TRUE) =>
    LET all == Sections(seen.header, seen.length)
    IN  /\ \A s \in all : s.from >= PageOf(seen.header) /\ s.to <= seen.length
        /\ \A s, t \in all : s # t => s.to <= t.from \/ t.to <= s.from

-----------------------------------------------------------------------------
(* Payloads. *)

(* Byte i of the image is what the last operation over it put there, or    *)
(* zero, and the image is as long as declared: without a hash in the       *)
(* manifest nothing else would notice.                                     *)
InPiece(op, k, i) == i - Block * op.extents[k].start

Covers(op, i) ==
  {k \in DOMAIN op.extents :
     /\ InPiece(op, k, i) \in 1 .. Block * op.extents[k].num
     /\ Block * BlocksBefore(op, k) + InPiece(op, k, i) <= Len(Chunk(op))}

LastOver(ops, i) ==
  LET over == {j \in DOMAIN ops : Covers(ops[j], i) # {}} IN Max(over)

Given(op, i) ==
  LET k == Max(Covers(op, i))
  IN  Chunk(op)[Block * BlocksBefore(op, k) + InPiece(op, k, i)]

ExtractsWhatItSays ==
  Has("payload") /\ IsFull(seen.payload.ops) /\ seen.payload.size > 0 =>
    LET image == Extract(seen.payload.size, seen.payload.ops)
        ops   == seen.payload.ops
    IN  /\ Len(image) = seen.payload.size
        /\ \A i \in DOMAIN image :
             image[i] = IF \A j \in DOMAIN ops : Covers(ops[j], i) = {} THEN 0
                        ELSE Given(ops[LastOver(ops, i)], i)

(* A manifest that was cut short is refused or loses fields from its end:  *)
(* no field of it has another value.                                       *)
CutMessageOnlyLoses ==
  Has("message") /\ Parse(seen.message).ok =>
    \A n \in 0 .. Len(seen.message) :
      LET cut == Parse(SubSeq(seen.message, 1, n))
      IN  cut.ok => IsPrefix(cut.fields, Parse(seen.message).fields)
=============================================================================
