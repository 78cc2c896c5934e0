-------------------------- MODULE Packages_proofs --------------------------
(***************************************************************************)
(* Debloat for any lists of packages: types, the protected list, and what  *)
(* a restore of everything brings back.                                    *)
(***************************************************************************)
EXTENDS PackagesProps, TLAPS

(* What a command knows of its own list while it works through it. *)
JobOK ==
  job # NoJob =>
    /\ job.kind = "debloat" => job.left \cap (Protected \cup job.keep) = {}
    /\ job.removed \cap job.keep = {}
    /\ job.kind # "debloat" => job.keep = {}
    /\ job.kind = "restore_all" => mine \cap Listed \subseteq job.left \cup job.failed

KInv == KTypeOK /\ JobOK /\ mine \cap Protected = {}

LEMMA KInitInv == ASSUME KInit PROVE KInv
BY DEF KInit, KInv, KTypeOK, JobOK

(* A fresh command on a list that obeys the protected list. *)
LEMMA FreshJob ==
  ASSUME KInv, NEW kind \in {"debloat", "restore", "restore_all"},
         NEW left \in SUBSET Everything, NEW keep \in SUBSET Everything,
         kind = "debloat" => left \cap (Protected \cup keep) = {},
         kind # "debloat" => keep = {},
         kind = "restore_all" => left = Listed,
         job' = JobOf(kind, left, keep), UNCHANGED <<on, mine>>
  PROVE  KInv'
<1>1. job' = [kind |-> kind, left |-> left, keep |-> keep,
              removed |-> {}, failed |-> {}]
  BY DEF JobOf
<1>2. job' \in Job
  BY <1>1 DEF Job
<1>3. KTypeOK'
  BY <1>2 DEF KInv, KTypeOK
<1>4. JobOK'
  BY <1>1 DEF KInv, JobOK, Listed
<1> QED  BY <1>3, <1>4 DEF KInv

(* One package is dealt with. *)
LEMMA PackageStep ==
  ASSUME KInv, NEW p \in Everything,
         Disable(p) \/ Enable(p) \/ PackageFails(p)
  PROVE  KInv'
<1>1. job \in Job /\ job # NoJob /\ p \in job.left
  BY DEF KInv, KTypeOK, Disable, Enable, PackageFails
<1>2. CASE Disable(p)
  <2>1. job' = [job EXCEPT !.left = @ \ {p}, !.removed = @ \cup {p}]
    BY <1>2 DEF Disable, Done
  <2>2. /\ job'.kind = job.kind /\ job'.keep = job.keep /\ job'.failed = job.failed
        /\ job'.left = job.left \ {p} /\ job'.removed = job.removed \cup {p}
        /\ job' \in Job
    BY <1>1, <2>1 DEF Job
  <2>3. KTypeOK'
    BY <1>2, <2>2 DEF KInv, KTypeOK, Disable
  <2>4. JobOK' /\ mine' \cap Protected = {}
    BY <1>1, <1>2, <2>2 DEF KInv, JobOK, Disable
  <2> QED  BY <2>3, <2>4 DEF KInv
<1>3. CASE Enable(p)
  <2>1. job' = [job EXCEPT !.left = @ \ {p}, !.removed = @ \cup {p}]
    BY <1>3 DEF Enable, Done
  <2>2. /\ job'.kind = job.kind /\ job'.keep = job.keep /\ job'.failed = job.failed
        /\ job'.left = job.left \ {p} /\ job'.removed = job.removed \cup {p}
        /\ job' \in Job
    BY <1>1, <2>1 DEF Job
  <2>3. KTypeOK'
    BY <1>3, <2>2 DEF KInv, KTypeOK, Enable
  <2>4. JobOK' /\ mine' \cap Protected = {}
    BY <1>1, <1>3, <2>2 DEF KInv, JobOK, Enable
  <2> QED  BY <2>3, <2>4 DEF KInv
<1>4. CASE PackageFails(p)
  <2>1. job' = [job EXCEPT !.left = @ \ {p}, !.failed = @ \cup {p}]
    BY <1>4 DEF PackageFails
  <2>2. /\ job'.kind = job.kind /\ job'.keep = job.keep /\ job'.removed = job.removed
        /\ job'.left = job.left \ {p} /\ job'.failed = job.failed \cup {p}
        /\ job' \in Job
    BY <1>1, <2>1 DEF Job
  <2>3. KTypeOK'
    BY <1>4, <2>2 DEF KInv, KTypeOK, PackageFails
  <2>4. JobOK' /\ mine' \cap Protected = {}
    BY <1>1, <1>4, <2>2 DEF KInv, JobOK, PackageFails
  <2> QED  BY <2>3, <2>4 DEF KInv
<1> QED  BY <1>2, <1>3, <1>4

(* A command ends, or is cut off with one package perhaps done. *)
LEMMA JobOver ==
  ASSUME KInv, JobEnds \/ JobDies
  PROVE  KInv'
<1>1. CASE JobEnds
  BY <1>1 DEF KInv, KTypeOK, JobOK, JobEnds
<1>2. CASE JobDies
  <2>1. PICK S \in SUBSET job.left :
          /\ on' = IF job.kind = "debloat" THEN on \ S ELSE on \cup S
          /\ mine' = IF job.kind = "debloat" THEN mine \cup (S \cap on) ELSE mine \ S
    BY <1>2 DEF JobDies
  <2>2. job \in Job /\ job # NoJob /\ job' = NoJob
    BY <1>2 DEF KInv, KTypeOK, JobDies
  <2>3. job.left \subseteq Everything
    BY <2>2 DEF Job
  <2>4. CASE job.kind = "debloat"
    <3>1. on' = on \ S /\ mine' = mine \cup (S \cap on)
      BY <2>1, <2>4
    <3>2. S \cap Protected = {}
      BY <2>2, <2>4 DEF KInv, JobOK
    <3> QED  BY <2>2, <2>3, <3>1, <3>2 DEF KInv, KTypeOK, JobOK
  <2>5. CASE job.kind # "debloat"
    <3>1. on' = on \cup S /\ mine' = mine \ S
      BY <2>1, <2>5
    <3> QED  BY <2>2, <2>3, <3>1 DEF KInv, KTypeOK, JobOK
  <2> QED  BY <2>4, <2>5
<1> QED  BY <1>1, <1>2

(* The owner may turn off what a command has in its hands: it is then not  *)
(* the tool that did. *)
LEMMA OwnerStep ==
  ASSUME KInv, NEW p \in Everything, OwnerChanges(p)
  PROVE  KInv'
<1>1. KTypeOK'
  BY DEF KInv, KTypeOK, OwnerChanges
<1>2. JobOK' /\ mine' \cap Protected = {}
  BY DEF KInv, JobOK, OwnerChanges
<1> QED  BY <1>1, <1>2 DEF KInv

LEMMA KStepInv == ASSUME KInv, [KNext]_pvars PROVE KInv'
<1>1. ASSUME NEW tiers \in SUBSET DOMAIN Tier, NEW extra \in SUBSET Everything,
             NEW keep \in SUBSET Everything, DebloatBegin(tiers, extra, keep)
      PROVE  KInv'
  <2>1. Wanted(tiers, extra, keep) \cap on \subseteq Everything
    BY DEF KInv, KTypeOK
  <2>2. (Wanted(tiers, extra, keep) \cap on) \cap (Protected \cup keep) = {}
    BY DEF Wanted
  <2> QED  BY <1>1, <2>1, <2>2, FreshJob DEF DebloatBegin
<1>2. ASSUME NEW S \in SUBSET Everything, RestoreBegin(S)
      PROVE  KInv'
  BY <1>2, FreshJob DEF RestoreBegin
<1>3. CASE RestoreAllBegin
  BY <1>3, FreshJob DEF RestoreAllBegin, AllKnown, Everything
<1>4. CASE JobStep
  BY <1>4, PackageStep, JobOver DEF JobStep
<1>5. CASE JobDies
  BY <1>5, JobOver
<1>6. ASSUME NEW p \in Everything, OwnerChanges(p)
      PROVE  KInv'
  BY <1>6, OwnerStep
<1>7. CASE UNCHANGED pvars
  BY <1>7 DEF pvars, KInv, KTypeOK, JobOK
<1> QED  BY <1>1, <1>2, <1>3, <1>4, <1>5, <1>6, <1>7 DEF KNext

LEMMA KInvHolds == KSpec => []KInv
BY KInitInv, KStepInv, PTL DEF KSpec

(* The variables have their types, whatever the lists say. *)
THEOREM PackagesTyped == KSpec => []KTypeOK
<1>1. KInv => KTypeOK
  BY DEF KInv
<1> QED  BY <1>1, KInvHolds, PTL

(* debloat.py:107: no way onto the list gets a protected package turned    *)
(* off, with any tiers, named packages and packages to keep.               *)
THEOREM NoneProtected == KSpec => []ProtectedStay
<1>1. KInv => ProtectedStay
  BY DEF KInv, JobOK, ProtectedStay
<1> QED  BY <1>1, KInvHolds, PTL

(* debloat.py:158: a restore of everything without a failure undoes every  *)
(* debloat of tiers, also the ones that were cut off.                      *)
THEOREM TiersComeBack == KSpec => RestoreAllUndoesTiers
<1> DEFINE Back ==
      (job # NoJob /\ job.kind = "restore_all" /\ job.left = {} /\ job.failed = {}
         /\ job' = NoJob) => mine' \cap Listed = {}
<1>1. ASSUME KInv, [KNext]_pvars PROVE [Back]_pvars
  <2> SUFFICES ASSUME job # NoJob, job.kind = "restore_all", job.left = {},
                      job.failed = {}, job' = NoJob
               PROVE  mine' \cap Listed = {}
    OBVIOUS
  <2>1. mine \cap Listed = {}
    BY <1>1 DEF KInv, JobOK
  <2>2. mine' \subseteq mine
    <3>1. ASSUME NEW p \in Everything PROVE ~Disable(p) /\ ~Enable(p) /\ ~PackageFails(p)
      BY DEF Disable, Enable, PackageFails
    <3>2. CASE JobEnds
      BY <3>2 DEF JobEnds
    <3>3. CASE JobDies
      BY <3>3 DEF JobDies
    <3>4. ASSUME NEW p \in Everything, OwnerChanges(p) PROVE mine' \subseteq mine
      BY <3>4 DEF OwnerChanges
    <3>5. CASE UNCHANGED pvars
      BY <3>5 DEF pvars
    <3> QED  BY <1>1, <3>1, <3>2, <3>3, <3>4, <3>5
             DEF KNext, JobStep, DebloatBegin, RestoreBegin, RestoreAllBegin
  <2> QED  BY <2>1, <2>2
<1> QED  BY <1>1, KInvHolds, PTL DEF KSpec, RestoreAllUndoesTiers
=============================================================================
