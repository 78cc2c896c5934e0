------------------------------ MODULE Formats ------------------------------
(***************************************************************************)
(* Partition tables, boot images and payloads as they come to the tool:    *)
(* one of each kind is looked at.                                          *)
(***************************************************************************)
EXTENDS Tables, BootLayout, PayloadImage

CONSTANTS
  Disks,     \* GPT entries and the sector size they count in
  Headers,   \* headers of boot images
  Lengths,   \* lengths of boot image files
  Payloads,  \* a declared size and operations
  Messages,  \* sequences of bytes
  Nothing    \* not looked at anything yet

ASSUME FormatsAssumption ==
  /\ Disks \subseteq AllDisks
  /\ Headers \subseteq AllHeaders
  /\ Lengths \subseteq Nat
  /\ Payloads \subseteq AllPayloads
  /\ Messages \subseteq AllMessages

VARIABLE seen

FInit == seen = Nothing

ATable == seen = Nothing /\ seen' \in [disk : Disks]
AnImage == seen = Nothing /\ seen' \in [header : Headers, length : Lengths]
APayload == seen = Nothing /\ seen' \in [payload : Payloads]
AMessage == seen = Nothing /\ seen' \in [message : Messages]

FNext == ATable \/ AnImage \/ APayload \/ AMessage

FSpec == FInit /\ [][FNext]_seen
=============================================================================
