----------------------------- MODULE Preflight -----------------------------
(***************************************************************************)
(* Preflight (boox/safety/preflight.py) composed with the guarded writes   *)
(* of DeviceSession: where a write token comes from, and what happens to   *)
(* the device and to the journal before there is one.                      *)
(*                                                                         *)
(* A process of this module runs one command.  Either preflight.run() and  *)
(* then, with the token it issued, the command's writes (boox root apply,  *)
(* boox unlock; boox doctor stops there), or boox rescue restore, which    *)
(* makes its own token.  Both share one device and one journal with every  *)
(* process that ran before.                                                *)
(***************************************************************************)
EXTENDS SessionProps

CONSTANT Roundtrip  \* the partition the write path is proven on: misc

ASSUME RoundtripAssumption == Roundtrip \in Partitions

VARIABLES
  check,     \* how far preflight.run() has come
  bad,       \* a fatal check has failed
  original,  \* the image read from the round-trip partition
  backed     \* the caller passed a backup

checkVars == <<check, bad, original, backed>>

pvars == <<vars, checkVars>>

Checks == {"off", "read", "begun", "written", "proven",
           "passed", "refused", "over", "rescue"}

PTypeOK ==
  /\ TypeOK
  /\ check \in Checks
  /\ bad \in BOOLEAN
  /\ original \in Image \cup {NoImage}
  /\ backed \in BOOLEAN

PInit ==
  /\ Init
  /\ check = "off" /\ bad = FALSE /\ original = NoImage /\ backed = FALSE

NoChecks == check' = "off" /\ bad' = FALSE /\ original' = NoImage /\ backed' = FALSE

(* The step keeps what preflight knows, unless the process died in it; if  *)
(* it did not, preflight is at next, and has found the fault or not.       *)
Arrive(next, fault) ==
  IF stage' = "down" THEN NoChecks
  ELSE check' = next /\ bad' = fault /\ UNCHANGED <<original, backed>>

Stay == Arrive(check, bad)

(* What preflight.run() returns when it stops without a token. *)
Refusal(fault) == IF fault THEN "refused" ELSE "over"

-----------------------------------------------------------------------------
(* Handshake, HWID, partition table, the round-trip partition and the two  *)
(* reads of it: any of these may end the run before anything is written.   *)
ChecksRefuse ==
  /\ stage = "idle" /\ check = "off"
  /\ check' = "refused" /\ bad' = TRUE
  /\ UNCHANGED <<vars, original, backed>>

(* A slip: an unfinished operation is not a fatal finding. *)
ChecksPassSlip ==
  /\ stage = "idle" /\ check = "off"
  /\ bad' \in BOOLEAN
  /\ \E first, second \in ReadsOf(device[Roundtrip]) :
       SameHash(first, second) /\ original' = first
  /\ backed' \in BOOLEAN
  /\ check' = "read"
  /\ UNCHANGED vars

(* Or they get as far as two reads that agree.  A failed identity, HWID or *)
(* journal check is noted, and does not stop the run.                      *)
ChecksPass ==
  /\ stage = "idle" /\ check = "off"
  /\ \E fault \in BOOLEAN : bad' = (fault \/ ~IsClean(log))
  /\ \E first, second \in ReadsOf(device[Roundtrip]) :
       SameHash(first, second) /\ original' = first
  /\ backed' \in BOOLEAN
  /\ check' = "read"
  /\ UNCHANGED vars

(* boox doctor --preflight --read-only *)
SkipWrite ==
  /\ check = "read"
  /\ check' = Refusal(bad)
  /\ UNCHANGED <<vars, bad, original, backed>>

RoundtripBegin ==
  /\ check = "read"
  /\ ids < MaxOps
  /\ ids' = ids + 1
  /\ LET entry == Intent("preflight_write_roundtrip", Roundtrip, original, NoImage)
     IN  Record(entry, "idle", entry)
  /\ Arrive("begun", bad)
  /\ UNCHANGED <<device, dry>>

(* A slip: a dry run counts as a proof. *)
RoundtripDrySlip ==
  /\ check = "begun" /\ dry
  /\ Finish("done")
  /\ Arrive("proven", bad)
  /\ UNCHANGED <<device, ids, dry>>

RoundtripDry ==
  /\ check = "begun" /\ dry
  /\ Finish("done")
  /\ Arrive(Refusal(bad), bad)
  /\ UNCHANGED <<device, ids, dry>>

(* A slip: the dry run writes. *)
RoundtripWriteSlip ==
  /\ check = "begun"
  /\ Touch(Roundtrip, Landed(device[Roundtrip], original))
  /\ check' = "written"
  /\ UNCHANGED <<log, ids, stage, cur, dry, token, bad, original, backed>>

RoundtripWrite ==
  /\ check = "begun" /\ ~dry
  /\ Touch(Roundtrip, Landed(device[Roundtrip], original))
  /\ check' = "written"
  /\ UNCHANGED <<log, ids, stage, cur, dry, token, bad, original, backed>>

RoundtripWriteRaises ==
  /\ check = "begun" /\ ~dry
  /\ Touch(Roundtrip, Interrupted(device[Roundtrip], original))
  /\ Finish("failed")
  /\ Arrive("refused", TRUE)
  /\ UNCHANGED <<ids, dry>>

(* A slip: the read-back is not compared. *)
RoundtripMatchesSlip ==
  /\ check = "written"
  /\ Finish("done")
  /\ Arrive("proven", bad)
  /\ UNCHANGED <<device, ids, dry>>

RoundtripMatches ==
  /\ check = "written"
  /\ \E after \in ReadsOf(device[Roundtrip]) : SameHash(after, original)
  /\ Finish("done")
  /\ Arrive("proven", bad)
  /\ UNCHANGED <<device, ids, dry>>

(* A slip: a failed round trip is closed as done. *)
RoundtripFailsSlip ==
  /\ check = "written"
  /\ Finish("done")
  /\ Arrive("refused", TRUE)
  /\ UNCHANGED <<device, ids, dry>>

(* The read-back raised, or its hash differs: nothing is rolled back. *)
RoundtripFails ==
  /\ check = "written"
  /\ Finish("failed")
  /\ Arrive("refused", TRUE)
  /\ UNCHANGED <<device, ids, dry>>

(* Only now: is there a backup?  Then, if no fatal check failed, the token.*)
Verdict ==
  /\ check = "proven"
  /\ LET ok == ~bad /\ backed
     IN  /\ check' = IF ok THEN "passed" ELSE "refused"
         /\ bad' = ~ok
         /\ token' = IF ok THEN [proven |-> TRUE, backup |-> TRUE, ack |-> FALSE,
                                 expert |-> FALSE, fresh |-> TRUE]
                     ELSE NoToken
  /\ UNCHANGED <<device, log, ids, stage, cur, dry, original, backed>>

(* boox unlock, after its confirmation phrase was typed. *)
ConfirmUnlock ==
  /\ check = "passed" /\ stage = "idle"
  /\ token' = [token EXCEPT !.expert = TRUE]
  /\ UNCHANGED <<device, log, ids, stage, cur, dry, checkVars>>

(* boox rescue restore: no preflight, not even stable reads. *)
Rescue ==
  /\ check = "off"
  /\ GrantRescueToken
  /\ check' = "rescue"
  /\ UNCHANGED <<bad, original, backed>>

-----------------------------------------------------------------------------
(* The process exits or is killed; a round-trip write under way stops where*)
(* it is.                                                                  *)
PDie ==
  \/ check # "begun" /\ Die /\ NoChecks
  \/ /\ check = "begun"
     /\ Touch(Roundtrip, IF dry THEN {device[Roundtrip]}
                         ELSE Interrupted(device[Roundtrip], original))
     /\ Dead /\ NoChecks
     /\ UNCHANGED <<log, ids, dry>>

Preflighting ==
  \/ ChecksRefuse \/ ChecksPass \/ SkipWrite
  \/ RoundtripBegin \/ RoundtripDry
  \/ RoundtripWrite \/ RoundtripWriteRaises
  \/ RoundtripMatches \/ RoundtripFails
  \/ Verdict \/ ConfirmUnlock \/ Rescue

PNext ==
  \/ Preflighting
  \/ (Request \/ Progress \/ Start \/ TokenExpires) /\ Stay
  \/ PDie

PSpec == PInit /\ [][PNext]_pvars
=============================================================================
