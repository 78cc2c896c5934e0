------------------------------- MODULE Images -------------------------------
(***************************************************************************)
(* What a partition holds, what a write of an image leaves in it, and how  *)
(* session.py compares a read-back with the image it sent.                 *)
(*                                                                         *)
(* A partition is cut in two blocks, its head and its tail: that is enough *)
(* to tell apart an image that fills the partition from one that stops     *)
(* short of its end, a complete write from one that stopped half way, and  *)
(* a full read from a truncated one.                                       *)
(***************************************************************************)

CONSTANTS
  Blocks,   \* what a block of flash can hold
  Zero,     \* a block of zero bytes
  Junk,     \* what a block holds after a write that landed wrong
  Noise,    \* a block damaged in transfer: in a file, never on the device
  Absent    \* a file stops before this block

ASSUME BlocksAssumption ==
  /\ Zero \in Blocks /\ Junk \in Blocks /\ Zero # Junk
  /\ Noise \notin Blocks /\ Absent \notin Blocks /\ Noise # Absent

Contents == [head : Blocks, tail : Blocks]

Image == [head : Blocks, tail : Blocks \cup {Absent}]

ReadFile == [head : Blocks \cup {Noise}, tail : Blocks \cup {Absent}]

Blank == [head |-> Zero, tail |-> Zero]

(* A slip: a short image cuts the partition off. *)
OverlaySlip(c, img) == [head |-> img.head, tail |-> img.tail]

(* The bytes of img over the bytes of c: a short image leaves the tail. *)
Overlay(c, img) ==
  [head |-> img.head, tail |-> IF img.tail = Absent THEN c.tail ELSE img.tail]

(* Every byte of img is on the partition. *)
Carries(c, img) == Overlay(c, img) = c

(* What a write may leave behind when the backend reports success: the     *)
(* image, the image padded with zeroes (the simulated device does that, a  *)
(* real one leaves the old tail), or bytes that landed wrong.              *)
Landed(c, img) ==
  LET written == Overlay(c, img)
      padded  == IF img.tail = Absent THEN [written EXCEPT !.tail = Zero]
                 ELSE written
  IN  {written, padded,
       [written EXCEPT !.head = Junk], [written EXCEPT !.tail = Junk]}

(* What a write that stopped, or was reported as failed, may leave behind: *)
(* nothing, the head only, all of it, or bytes that landed wrong.          *)
Interrupted(c, img) ==
  {c, [c EXCEPT !.head = img.head], Overlay(c, img), [c EXCEPT !.head = Junk]}

(* The files a successful read of c may produce: the partition, a prefix   *)
(* of it, or a copy damaged on the way.                                    *)
ReadsOf(c) ==
  {c, [c EXCEPT !.tail = Absent], [c EXCEPT !.head = Noise]}

(* Two reads have one hash.  Damage in transfer never strikes twice alike. *)
SameHash(a, b) == a = b /\ a.head # Noise

(* A slip: as much is compared as was read. *)
MatchesSlip(got, img) ==
  got.head = img.head /\ got.tail \in {img.tail, Absent}

(* _matches: the read-back starts with the image, and whatever follows the *)
(* image is zero.                                                          *)
Matches(got, img) ==
  /\ got.head = img.head
  /\ IF img.tail = Absent THEN got.tail \in {Zero, Absent}
                          ELSE got.tail = img.tail
=============================================================================
