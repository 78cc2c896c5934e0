------------------------------ MODULE Identity ------------------------------
(***************************************************************************)
(* What the boot ROM says of a tablet, and when two such answers belong to *)
(* different tablets (boox/transport/sahara.py).                           *)
(*                                                                         *)
(* An identity has four fields.  EDL tools report different subsets, so a  *)
(* field may be Unknown; of the PBL hash they report prefixes of different *)
(* lengths, the empty one when they say nothing.                           *)
(***************************************************************************)
EXTENDS Sequences, Naturals

CONSTANT Unknown

Fields == {"hwid", "jtag_id", "serial"}

Silent == [hwid |-> Unknown, jtag_id |-> Unknown, serial |-> Unknown,
           pbl_hash |-> <<>>]

Known(id) ==
  id.hwid # Unknown \/ id.jtag_id # Unknown \/ id.pbl_hash # <<>>

Shorter(s, t) == IF Len(s) <= Len(t) THEN Len(s) ELSE Len(t)

(* The hashes agree as far as both of them go. *)
SamePrefix(s, t) ==
  LET n == Shorter(s, t) IN SubSeq(s, 1, n) = SubSeq(t, 1, n)

(* A slip: the serial does not count. *)
MismatchSlip(want, got) ==
  {f \in Fields \ {"serial"} : /\ want[f] # Unknown /\ got[f] # Unknown
                              /\ want[f] # got[f]}

(* mismatch: the fields both identities have, and that differ. *)
Mismatch(want, got) ==
  {f \in Fields : /\ want[f] # Unknown /\ got[f] # Unknown
                  /\ want[f] # got[f]}
  \cup (IF SamePrefix(want.pbl_hash, got.pbl_hash) THEN {} ELSE {"pbl_hash"})
=============================================================================
