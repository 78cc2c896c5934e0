----------------------------- MODULE WriteAhead -----------------------------
(***************************************************************************)
(* What the journal and the session promise together, without saying how:  *)
(* a partition changes only while an operation on it is open, and an       *)
(* operation is closed either as settled, and then the partition carries   *)
(* one of the images the operation named, or as suspect.                   *)
(*                                                                         *)
(* journal.py states the first half: every partition write records its     *)
(* intent to disk before any bytes reach the device.  session.py states    *)
(* the second: a write is read back, and undone if it landed wrong.        *)
(***************************************************************************)
EXTENDS Images

CONSTANTS Partitions, Factory

VARIABLES
  held,  \* what each partition holds
  mark,  \* "settled", "open" or "suspect", partition by partition
  aims   \* the images the last operation named; none if it promised none

vars == <<held, mark, aims>>

Init ==
  /\ held = Factory
  /\ mark = [p \in Partitions |-> "settled"]
  /\ aims = [p \in Partitions |-> {}]

(* An operation may be opened on a partition whatever became of the last.  *)
Open(p) ==
  /\ mark' = [mark EXCEPT ![p] = "open"]
  /\ aims' \in [Partitions -> SUBSET Image]
  /\ \A q \in Partitions \ {p} : aims'[q] = aims[q]
  /\ UNCHANGED held

Change(p) ==
  /\ mark[p] = "open"
  /\ \E c \in Contents : held' = [held EXCEPT ![p] = c]
  /\ UNCHANGED <<mark, aims>>

(* The last change of an operation may come with its verdict. *)
Settle(p) ==
  /\ mark[p] = "open"
  /\ \E c \in Contents :
       /\ aims[p] # {} => \E img \in aims[p] : Carries(c, img)
       /\ held' = [held EXCEPT ![p] = c]
  /\ mark' = [mark EXCEPT ![p] = "settled"]
  /\ UNCHANGED aims

Suspect(p) ==
  /\ mark[p] = "open"
  /\ \E c \in Contents : held' = [held EXCEPT ![p] = c]
  /\ mark' = [mark EXCEPT ![p] = "suspect"]
  /\ UNCHANGED aims

Next == \E p \in Partitions : Open(p) \/ Change(p) \/ Settle(p) \/ Suspect(p)

Spec == Init /\ [][Next]_vars
=============================================================================
