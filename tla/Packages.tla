------------------------------ MODULE Packages ------------------------------
(***************************************************************************)
(* The packages of a tablet that runs Android, which are turned off for    *)
(* its user, and back on, over adb (boox/ops/debloat.py).                  *)
(*                                                                         *)
(* One command at a time works through its packages one by one; their      *)
(* order is left open.  The owner turns packages on and off meanwhile.     *)
(***************************************************************************)
EXTENDS Integers, FiniteSets

CONSTANTS
  Tier,       \* Tier[t]: the packages of debloat tier t
  Protected,  \* the packages that are refused
  Others,     \* packages of no tier that the user may name
  NoJob

ASSUME PackagesAssumption == IsFiniteSet(UNION {Tier[t] : t \in DOMAIN Tier})

VARIABLES
  on,    \* the packages turned on
  mine,  \* history: those the tool turned off, and nobody on since
  job    \* the command under way

pvars == <<on, mine, job>>

Listed == UNION {Tier[t] : t \in DOMAIN Tier}
Everything == Listed \cup Protected \cup Others

Job == [kind : {"debloat", "restore", "restore_all"}, left : SUBSET Everything,
        keep : SUBSET Everything, removed : SUBSET Everything,
        failed : SUBSET Everything]

JobOf(kind, left, keep) ==
  [kind |-> kind, left |-> left, keep |-> keep, removed |-> {}, failed |-> {}]

(* A slip: only what the tiers list is held against the protected list. *)
WantedSlip(tiers, extra, keep) ==
  ((UNION {Tier[t] : t \in tiers}) \ (Protected \cup keep)) \cup extra

(* run: of the tiers and the named packages, those that are neither        *)
(* protected nor to be kept.                                               *)
Wanted(tiers, extra, keep) ==
  ((UNION {Tier[t] : t \in tiers}) \cup extra) \ (Protected \cup keep)

(* The list of what is there is taken once, before the first package. *)
DebloatBegin(tiers, extra, keep) ==
  /\ job = NoJob
  /\ job' = JobOf("debloat", Wanted(tiers, extra, keep) \cap on, keep)
  /\ UNCHANGED <<on, mine>>

(* debloat --restore *)
RestoreBegin(S) ==
  /\ job = NoJob
  /\ job' = JobOf("restore", S, {})
  /\ UNCHANGED <<on, mine>>

(* A slip: the tier a plain debloat takes is all there is to bring back. *)
AllKnownSlip == Tier["safe"]

(* all_known_packages *)
AllKnown == Listed

(* debloat --restore-all *)
RestoreAllBegin ==
  /\ job = NoJob
  /\ job' = JobOf("restore_all", AllKnown, {})
  /\ UNCHANGED <<on, mine>>

Done(p) == job' = [job EXCEPT !.left = @ \ {p}, !.removed = @ \cup {p}]

(* pm uninstall --user 0 of a package that is on. *)
Disable(p) ==
  /\ job # NoJob /\ job.kind = "debloat" /\ p \in job.left \cap on
  /\ on' = on \ {p}
  /\ mine' = mine \cup {p}
  /\ Done(p)

(* cmd package install-existing; also of a package that is on. *)
Enable(p) ==
  /\ job # NoJob /\ job.kind # "debloat" /\ p \in job.left
  /\ on' = on \cup {p}
  /\ mine' = mine \ {p}
  /\ Done(p)

(* A slip: it is tried again until it works. *)
PackageFailsSlip(p) ==
  /\ job # NoJob /\ p \in job.left
  /\ job' = [job EXCEPT !.failed = @ \cup {p}]
  /\ UNCHANGED <<on, mine>>

(* The package manager refuses: the command goes on with the next. *)
PackageFails(p) ==
  /\ job # NoJob /\ p \in job.left
  /\ job' = [job EXCEPT !.left = @ \ {p}, !.failed = @ \cup {p}]
  /\ UNCHANGED <<on, mine>>

JobEnds ==
  /\ job # NoJob /\ job.left = {}
  /\ job' = NoJob
  /\ UNCHANGED <<on, mine>>

(* adb does not answer in time, which nobody catches: the rest is not done *)
(* and there is no report, though the last package may be off.             *)
JobDies ==
  /\ job # NoJob
  /\ job' = NoJob
  /\ \E S \in SUBSET job.left :
       /\ Cardinality(S) <= 1
       /\ on' = IF job.kind = "debloat" THEN on \ S ELSE on \cup S
       /\ mine' = IF job.kind = "debloat" THEN mine \cup (S \cap on) ELSE mine \ S

(* The owner turns a package on or off. *)
OwnerChanges(p) ==
  /\ on' = IF p \in on THEN on \ {p} ELSE on \cup {p}
  /\ mine' = mine \ {p}
  /\ UNCHANGED job

KInit == on = Everything /\ mine = {} /\ job = NoJob

JobStep == (\E p \in Everything : Disable(p) \/ Enable(p) \/ PackageFails(p)) \/ JobEnds

KNext ==
  \/ \E tiers \in SUBSET DOMAIN Tier, extra, keep \in SUBSET Everything :
       DebloatBegin(tiers, extra, keep)
  \/ \E S \in SUBSET Everything : RestoreBegin(S)
  \/ RestoreAllBegin
  \/ JobStep \/ JobDies
  \/ \E p \in Everything : OwnerChanges(p)

(* adb and the package manager answer, or adb times out. *)
KSpec == KInit /\ [][KNext]_pvars /\ WF_pvars(JobStep)
=============================================================================
