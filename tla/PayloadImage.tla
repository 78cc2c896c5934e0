---------------------------- MODULE PayloadImage ----------------------------
(***************************************************************************)
(* How a stock image is put together from the operations of an OTA payload *)
(* (boox/firmware/payload.py), and how the payload's manifest is read      *)
(* (boox/firmware/protobuf.py).                                            *)
(*                                                                         *)
(* A byte of an image is a value.  Decompression is not modelled: the data *)
(* of an operation is what it decompresses to.                             *)
(***************************************************************************)
EXTENDS Integers, Sequences

CONSTANTS
  Block,   \* bytes in a block
  Radix,   \* a byte of a varint carries a digit to this base
  Digits   \* a varint may have this many digits

ASSUME PayloadAssumption == {Block, Radix, Digits} \subseteq Nat \ {0}

(* A declared size, and what each operation puts over which blocks. *)
AllPayloads ==
  [size : Nat,
   ops : Seq([type : STRING, data : Seq(Nat),
              extents : Seq([start : Nat, num : Nat])])]

AllMessages == Seq([digit : 0 .. Radix - 1, more : BOOLEAN])

Zeroes(n) == [i \in 1 .. n |-> 0]

-----------------------------------------------------------------------------
(* An operation puts data over extents; one of type "zero" has none; any   *)
(* type but these two needs the previous image.                            *)

IsFull(ops) == \A i \in DOMAIN ops : ops[i].type \in {"replace", "zero"}

(* The blocks of the first n extents. *)
BlocksOf(op) ==
  LET sum[n \in 0 .. Len(op.extents)] ==
        IF n = 0 THEN 0 ELSE sum[n - 1] + op.extents[n].num
  IN  sum

BlocksBefore(op, k) == BlocksOf(op)[k - 1]

Chunk(op) ==
  IF op.type = "zero" THEN Zeroes(Block * BlocksOf(op)[Len(op.extents)])
  ELSE op.data

(* What the k-th extent gets; less than its length if the data is short. *)
Piece(op, k) ==
  LET from == Block * BlocksBefore(op, k)
      to   == from + Block * op.extents[k].num
  IN  SubSeq(Chunk(op), from + 1, IF to <= Len(Chunk(op)) THEN to ELSE Len(Chunk(op)))

(* The piece over the buffer, from byte start; the buffer grows if needed. *)
Put(buffer, start, piece) ==
  [i \in 1 .. (IF start + Len(piece) > Len(buffer) THEN start + Len(piece)
               ELSE Len(buffer)) |->
     IF i > start /\ i <= start + Len(piece) THEN piece[i - start]
     ELSE IF i <= Len(buffer) THEN buffer[i] ELSE 0]

(* The buffer after the first n extents of an operation. *)
Filled(buffer, op) ==
  LET after[n \in 0 .. Len(op.extents)] ==
        IF n = 0 THEN buffer
        ELSE Put(after[n - 1], Block * op.extents[n].start, Piece(op, n))
  IN  after

Apply(buffer, op) == Filled(buffer, op)[Len(op.extents)]

(* The buffer after the first n operations. *)
Written(size, ops) ==
  LET after[n \in 0 .. Len(ops)] ==
        IF n = 0 THEN Zeroes(size) ELSE Apply(after[n - 1], ops[n])
  IN  after

(* A slip: what ran past the declared size stays. *)
ExtractSlip(size, ops) == Written(size, ops)[Len(ops)]

(* Payload.extract: the operations in order, then the declared size. *)
Extract(size, ops) ==
  LET buffer == Written(size, ops)[Len(ops)]
  IN  IF size = 0 THEN buffer ELSE SubSeq(buffer, 1, size)

-----------------------------------------------------------------------------
(* A message is a sequence of bytes.  A byte is a digit and whether more   *)
(* digits follow; as part of a payload it is only carried along.           *)

Bad == [ok |-> FALSE]

(* The value of the first n digits, the least of them first, and the      *)
(* weight of the next.                                                     *)
Reading(digits) ==
  LET read[n \in 0 .. Len(digits)] ==
        IF n = 0 THEN [value |-> 0, weight |-> 1]
        ELSE [value |-> read[n - 1].value + digits[n].digit * read[n - 1].weight,
              weight |-> read[n - 1].weight * Radix]
  IN  read

(* read_varint at pos (from 1): the value and where it ends. *)
Varint(bytes, pos) ==
  LET ends == {n \in 1 .. Digits :
                 /\ pos + n - 1 <= Len(bytes)
                 /\ ~bytes[pos + n - 1].more
                 /\ \A m \in 1 .. (n - 1) : bytes[pos + m - 1].more}
      n    == CHOOSE m \in ends : TRUE
  IN  IF ends = {} THEN Bad
      ELSE [ok |-> TRUE, next |-> pos + n,
            value |-> Reading(SubSeq(bytes, pos, pos + n - 1))[n].value]

(* A slip: a slice of a short message is short. *)
TakeSlip(bytes, pos, length) ==
  LET end == IF pos + length - 1 <= Len(bytes) THEN pos + length - 1 ELSE Len(bytes)
  IN  [ok |-> TRUE, next |-> end + 1, value |-> SubSeq(bytes, pos, end)]

(* Some bytes, which must all be there. *)
Take(bytes, pos, length) ==
  IF pos + length - 1 > Len(bytes) THEN Bad
  ELSE [ok |-> TRUE, next |-> pos + length,
        value |-> SubSeq(bytes, pos, pos + length - 1)]

(* The value of a field of a wire type: a varint, 8 or 4 bytes, or as many *)
(* as a varint says.                                                       *)
FieldValue(bytes, pos, wire) ==
  CASE wire = 0 -> Varint(bytes, pos)
    [] wire = 1 -> Take(bytes, pos, 8)
    [] wire = 5 -> Take(bytes, pos, 4)
    [] wire = 2 -> LET n == Varint(bytes, pos)
                   IN  IF n.ok THEN Take(bytes, n.next, n.value) ELSE Bad
    [] OTHER -> Bad

(* The field at a position, put after those that were read before it. *)
OneField(bytes, read) ==
  LET key   == Varint(bytes, read.pos)
      value == FieldValue(bytes, key.next, key.value % 8)
  IN  IF ~key.ok THEN Bad
      ELSE IF key.value \div 8 = 0 \/ ~value.ok THEN Bad
      ELSE [ok |-> TRUE, pos |-> value.next,
            fields |-> Append(read.fields, [number |-> key.value \div 8,
                                            value |-> value.value])]

(* What was read after n rounds of the loop, which ends at the end of the  *)
(* message or at an error: a field takes a byte at least, so that as many  *)
(* rounds as the message has bytes are enough.                             *)
Rounds(bytes) ==
  LET read[n \in 0 .. Len(bytes)] ==
        IF n = 0 THEN [ok |-> TRUE, pos |-> 1, fields |-> <<>>]
        ELSE IF ~read[n - 1].ok THEN Bad
        ELSE IF read[n - 1].pos > Len(bytes) THEN read[n - 1]
        ELSE OneField(bytes, read[n - 1])
  IN  read

(* parse: the fields of a message in order, or Bad. *)
Parse(bytes) == Rounds(bytes)[Len(bytes)]
=============================================================================
