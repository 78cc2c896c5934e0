------------------------------- MODULE Wizard -------------------------------
(***************************************************************************)
(* The wizard (boox/tui.py): one long process that offers stage after      *)
(* stage, with one Context (boox/ops/context.py) whose caches outlive a    *)
(* stage, one backend (boox/transport/edl.py), and a tablet that is in     *)
(* Android or in EDL.  One that quits after each stage stands for the      *)
(* commands backup, root prepare --skip-backup and root apply.             *)
(*                                                                         *)
(* A stage is the sequence of what it asks of the Context, the backend and *)
(* adb.  The owner does not pull the cable in a stage, so the tablet that  *)
(* is attached is the one the stage has read.  What is checked of an image *)
(* before it is written is Rooting and Verifier; here a write is one step. *)
(***************************************************************************)
EXTENDS Integers, Sequences, FiniteSets

CONSTANTS
  Tablets,     \* of one model: only their serials differ
  Slots,       \* the slots a tablet may be started from
  MaxBackups,  \* backups in the workspace
  MaxPlugs,    \* times another tablet is put on the cable
  MaxUpdates,  \* updates that move a tablet to another slot
  None

ASSUME WizardAssumption ==
  /\ IsFiniteSet(Tablets) /\ Tablets # {}
  /\ {MaxBackups, MaxPlugs, MaxUpdates} \subseteq Nat

VARIABLES
  attached,  \* the tablet on the cable
  mode,     \* mode[t]: in Android or in EDL
  loader,   \* loader[t]: it runs a firehose loader
  slot,     \* slot[t]: the slot it is started from
  ctx,      \* the process and its caches; None if there is none
  backups,  \* which tablet each backup says it is of, and is of
  plan,     \* the file root prepare leaves behind
  stage,    \* the stage under way
  plugs, updates  \* how often so far

wvars == <<attached, mode, loader, slot, ctx, backups, plan, stage, plugs, updates>>

Props == [of : Tablets, slot : Slots]

(* What an identity may tell: which tablet, no more than the model where   *)
(* the tool reports no serial, or nothing at all.                          *)
Names == Tablets \cup {"model", "nothing"}

ASSUME NamesAssumption == {"model", "nothing", None} \cap Tablets = {}
                          /\ None \notin {"model", "nothing"}

Context ==
  [given : BOOLEAN,                  \* started with --loader
   temblast : BOOLEAN,               \* which backend it was started with
   props : Props \cup {None},        \* Context._props
   id    : Names \cup {None},        \* DeviceSession._identity
   sent  : BOOLEAN,                  \* TemblastBackend._loaded
   kept  : BOOLEAN,                  \* history: read by what no reboot into EDL followed
   met   : SUBSET Tablets]           \* history: the tablets it talked to

Keys == {"backup", "root-prepare", "root-apply"}

StepsOf(key) ==
  CASE key = "backup" -> <<"props", "edl", "read", "identify", "manifest", "reset">>
    [] key = "root-prepare" ->
         <<"props!", "edl", "identify", "read", "reset", "wait", "plan">>
    [] key = "root-apply" -> <<"pull", "edl", "identify", "same", "read", "write", "reset">>

Stage == [key : Keys,
          next : 1 .. 8,               \* the step it has come to
          slot : Slots \cup {None},    \* the slot that prepare goes by
          kept : BOOLEAN]              \* history: from what the cache had kept

ASSUME NoneAssumption == None \notin Context /\ None \notin Stage

WInit ==
  /\ attached \in Tablets
  /\ mode = [t \in Tablets |-> "android"] /\ loader = [t \in Tablets |-> FALSE]
  /\ slot \in [Tablets -> Slots]
  /\ ctx = None /\ backups = <<>> /\ plan = None /\ stage = None
  /\ plugs = 0 /\ updates = 0

-----------------------------------------------------------------------------
(* What the process can find out. *)

HasProps(t) == [of |-> t, slot |-> slot[t]]

(* Context.device_props: the cached ones, or adb is asked if it answers. *)
DeviceProps ==
  IF ctx.props # None THEN {ctx.props}
  ELSE IF mode[attached] = "android" THEN {HasProps(attached), None} ELSE {None}

(* The backend reaches the tablet: edlclient brings the loader with every  *)
(* call, Temblast with the first of a process.                             *)
Reaches ==
  /\ ctx.given /\ mode[attached] = "edl"
  /\ ~ctx.temblast \/ ~ctx.sent \/ loader[attached]

(* It has a loader already, and an identity without asking the tablet for  *)
(* it: what _ensure_loader returns then is empty.                          *)
Silent == ctx.temblast /\ ctx.sent

Talk == loader' = [loader EXCEPT ![attached] = TRUE]

Talked(c) == [c EXCEPT !.sent = TRUE, !.met = @ \cup {attached}]

(* DeviceSession.identity: asked for once per session.                     *)
Learn ==
  \/ ctx.id # None /\ UNCHANGED <<ctx, loader>>
  \/ ctx.id = None /\ Silent
     /\ ctx' = [ctx EXCEPT !.id = "nothing"] /\ UNCHANGED loader
  \/ /\ ctx.id = None /\ ~Silent /\ Reaches
     /\ \E name \in {attached, "model", "nothing"} : ctx' = [Talked(ctx) EXCEPT !.id = name]
     /\ Talk

-----------------------------------------------------------------------------
(* The process. *)

Open(given, temblast) ==
  /\ ctx = None
  /\ ctx' = [given |-> given, temblast |-> temblast, props |-> None, id |-> None, sent |-> FALSE,
             kept |-> FALSE, met |-> {}]
  /\ UNCHANGED <<attached, mode, loader, slot, backups, plan, stage, plugs, updates>>

(* Recovery, which diagnoses: adb is asked, and if it does not answer, the *)
(* session for the identity and, if that asked nobody, for the table.      *)
Diagnose ==
  /\ ctx # None /\ stage = None
  /\ \/ \E p \in DeviceProps \ {None} :
          ctx' = [ctx EXCEPT !.props = p, !.kept = TRUE] /\ UNCHANGED loader
     \/ None \in DeviceProps /\ ctx.given /\ Learn
     \/ /\ None \in DeviceProps /\ (ctx.id # None \/ Silent) /\ Reaches
        /\ ctx' = [Talked(ctx) EXCEPT !.id = IF @ = None THEN "nothing" ELSE @]
        /\ Talk
  /\ UNCHANGED <<attached, mode, slot, backups, plan, stage, plugs, updates>>

(* can_run of each stage. *)
CanRun(key) ==
  CASE key = "backup" -> ctx.given
    [] key = "root-prepare" -> ctx.given /\ backups # <<>>
    [] key = "root-apply" -> plan # None

Begin(key) ==
  /\ ctx # None /\ stage = None
  /\ CanRun(key)
  /\ stage' = [key |-> key, next |-> 1, slot |-> None, kept |-> FALSE]
  /\ UNCHANGED <<attached, mode, loader, slot, ctx, backups, plan, plugs, updates>>

Quit ==
  /\ ctx # None /\ stage = None
  /\ ctx' = None
  /\ UNCHANGED <<attached, mode, loader, slot, backups, plan, stage, plugs, updates>>

(* The stage has come to this step. *)
At(step) ==
  /\ stage # None /\ stage.next \in DOMAIN StepsOf(stage.key)
  /\ StepsOf(stage.key)[stage.next] = step

Goes(s) == stage' = [s EXCEPT !.next = @ + 1]

(* A BooxError: back to the menu, caches and all.  Nothing raises one      *)
(* between the properties and the reboot (EnterEdlFails) that follows; the *)
(* wait has forgotten the properties when it does.                         *)
StageFails ==
  /\ stage # None /\ ~At("edl")
  /\ ctx' = IF At("wait") THEN [ctx EXCEPT !.props = None, !.kept = FALSE] ELSE ctx
  /\ stage' = None
  /\ UNCHANGED <<attached, mode, loader, slot, backups, plan, plugs, updates>>

(* Anything else, a timeout for one, ends the wizard. *)
StageDies ==
  /\ stage # None
  /\ stage' = None /\ ctx' = None
  /\ UNCHANGED <<attached, mode, loader, slot, backups, plan, plugs, updates>>

-----------------------------------------------------------------------------
(* The steps of a stage. *)

(* device_props(required=FALSE), for the words of a manifest *)
AskProps ==
  /\ At("props")
  /\ \E p \in DeviceProps : ctx' = [ctx EXCEPT !.props = p]
  /\ Goes(stage)
  /\ UNCHANGED <<attached, mode, loader, slot, backups, plan, plugs, updates>>

(* device_props(required=TRUE): the slot that prepare will go by *)
NeedProps ==
  /\ At("props!")
  /\ \E p \in DeviceProps \ {None} :
       /\ ctx' = [ctx EXCEPT !.props = p]
       /\ Goes([stage EXCEPT !.slot = p.slot, !.kept = ctx.kept])
  /\ UNCHANGED <<attached, mode, loader, slot, backups, plan, plugs, updates>>

(* A slip: the properties are kept for the next stage. *)
EnterEdlSlip ==
  /\ At("edl")
  /\ \E p \in DeviceProps :
       \/ p = None /\ UNCHANGED <<ctx, mode, loader>>
       \/ /\ p # None /\ mode[attached] = "android"
          /\ mode' = [mode EXCEPT ![attached] = "edl"]
          /\ loader' = [loader EXCEPT ![attached] = FALSE]
          /\ ctx' = [ctx EXCEPT !.props = p, !.kept = FALSE]
  /\ Goes(stage)
  /\ UNCHANGED <<attached, slot, backups, plan, plugs, updates>>

(* Context.enter_edl: a tablet that adb does not know is taken to be in    *)
(* EDL; properties are of no use once it is.                               *)
EnterEdl ==
  /\ At("edl")
  /\ \E p \in DeviceProps :
       \/ p = None /\ UNCHANGED <<ctx, mode, loader>>
       \/ /\ p # None /\ mode[attached] = "android"
          /\ mode' = [mode EXCEPT ![attached] = "edl"]
          /\ loader' = [loader EXCEPT ![attached] = FALSE]
          /\ ctx' = [ctx EXCEPT !.props = None, !.kept = FALSE]
  /\ Goes(stage)
  /\ UNCHANGED <<attached, slot, backups, plan, plugs, updates>>

(* adb reboot edl fails: the properties stay in the cache. *)
EnterEdlFails ==
  /\ At("edl")
  /\ \E p \in DeviceProps \ {None} :
       ctx' = [ctx EXCEPT !.props = p, !.kept = TRUE]
  /\ stage' = None
  /\ UNCHANGED <<attached, mode, loader, slot, backups, plan, plugs, updates>>

(* A slip: the identity is kept in the workspace. *)
IdentifySlip ==
  /\ At("identify") /\ ctx.given
  /\ IF backups = <<>> THEN Learn
     ELSE /\ Reaches
          /\ ctx' = [Talked(ctx) EXCEPT !.id = backups[1].says]
          /\ Talk
  /\ Goes(stage)
  /\ UNCHANGED <<attached, mode, slot, backups, plan, plugs, updates>>

Identify ==
  /\ At("identify") /\ ctx.given
  /\ Learn
  /\ Goes(stage)
  /\ UNCHANGED <<attached, mode, slot, backups, plan, plugs, updates>>

(* backup reads its images, prepare looks for a ramdisk, and the preflight *)
(* of apply reads once it has an identity.                                 *)
Read ==
  /\ At("read") /\ Reaches
  /\ stage.key = "root-apply" => ctx.id # "nothing"
  /\ ctx' = Talked(ctx) /\ Talk
  /\ Goes(stage)
  /\ UNCHANGED <<attached, mode, slot, backups, plan, plugs, updates>>

(* create: the images are of the tablet that was read, the identity is the *)
(* session's.                                                              *)
Manifest ==
  /\ At("manifest") /\ Len(backups) < MaxBackups
  /\ backups' = Append(backups, [says |-> ctx.id, of |-> attached, met |-> ctx.met])
  /\ Goes(stage)
  /\ UNCHANGED <<attached, mode, loader, slot, ctx, plan, plugs, updates>>

(* reset: a tablet that runs the loader starts Android. *)
Reset ==
  /\ At("reset")
  /\ mode' = [mode EXCEPT ![attached] = IF loader[attached] THEN "android" ELSE @]
  /\ loader' = [loader EXCEPT ![attached] = FALSE]
  /\ Goes(stage)
  /\ UNCHANGED <<attached, slot, ctx, backups, plan, plugs, updates>>

(* _wait_for_adb asks afresh, and what it is told stays in the cache. *)
Wait ==
  /\ At("wait") /\ mode[attached] = "android"
  /\ ctx' = [ctx EXCEPT !.props = HasProps(attached), !.kept = TRUE]
  /\ Goes(stage)
  /\ UNCHANGED <<attached, mode, loader, slot, backups, plan, plugs, updates>>

(* prepare pushes the latest backup's image, whichever tablet that is of,  *)
(* and writes the plan down.                                               *)
WritePlan ==
  /\ At("plan")
  /\ plan' = [slot |-> stage.slot, backup |-> Len(backups), kept |-> stage.kept,
              true |-> stage.slot = slot[attached]]
  /\ Goes(stage)
  /\ UNCHANGED <<attached, mode, loader, slot, ctx, backups, plugs, updates>>

(* apply collects, over adb, what Magisk made. *)
Pull ==
  /\ At("pull") /\ mode[attached] = "android"
  /\ Goes(stage)
  /\ UNCHANGED <<attached, mode, loader, slot, ctx, backups, plan, plugs, updates>>

(* A slip: the plan's backup is trusted to be of this tablet. *)
SameDeviceSlip ==
  /\ At("same")
  /\ Goes(stage)
  /\ UNCHANGED <<attached, mode, loader, slot, ctx, backups, plan, plugs, updates>>

(* mismatch: what either side does not tell is none. *)
Agree(expected, actual) == {expected, actual} \subseteq Tablets => expected = actual

(* require_same_device *)
SameDevice ==
  /\ At("same")
  /\ Agree(backups[plan.backup].says, ctx.id)
  /\ Goes(stage)
  /\ UNCHANGED <<attached, mode, loader, slot, ctx, backups, plan, plugs, updates>>

(* What was pulled is written, and the plan's backup is what a rollback    *)
(* would bring back.                                                       *)
Write ==
  /\ At("write") /\ Reaches
  /\ ctx' = Talked(ctx) /\ Talk
  /\ Goes(stage)
  /\ UNCHANGED <<attached, mode, slot, backups, plan, plugs, updates>>

(* A plan that was carried out is deleted. *)
StageEnds ==
  /\ stage # None /\ stage.next = Len(StepsOf(stage.key)) + 1
  /\ stage' = None
  /\ plan' = IF stage.key = "root-apply" THEN None ELSE plan
  /\ UNCHANGED <<attached, mode, loader, slot, ctx, backups, plugs, updates>>

-----------------------------------------------------------------------------
(* The tablets and their owner; he does not pull the cable in a stage. *)

Plug(t) ==
  /\ stage = None /\ plugs < MaxPlugs /\ t # attached
  /\ attached' = t /\ plugs' = plugs + 1
  /\ UNCHANGED <<mode, loader, slot, ctx, backups, plan, stage, updates>>

(* The power key, held: out of EDL, or started again. *)
Restart(t) ==
  /\ stage = None
  /\ mode' = [mode EXCEPT ![t] = "android"]
  /\ loader' = [loader EXCEPT ![t] = FALSE]
  /\ UNCHANGED <<attached, slot, ctx, backups, plan, stage, plugs, updates>>

(* An update moves a tablet in Android to another slot. *)
Update(t) ==
  /\ stage = None /\ mode[t] = "android" /\ updates < MaxUpdates
  /\ \E s \in Slots \ {slot[t]} : slot' = [slot EXCEPT ![t] = s]
  /\ updates' = updates + 1
  /\ UNCHANGED <<attached, mode, loader, ctx, backups, plan, stage, plugs>>

WNext ==
  \/ \E given, temblast \in BOOLEAN : Open(given, temblast)
  \/ \E key \in Keys : Begin(key)
  \/ Diagnose \/ Quit \/ StageFails \/ StageDies \/ StageEnds
  \/ AskProps \/ NeedProps \/ EnterEdl \/ EnterEdlFails \/ Identify \/ Read
  \/ Manifest \/ Reset \/ Wait \/ WritePlan \/ Pull \/ SameDevice \/ Write
  \/ \E t \in Tablets : Plug(t) \/ Restart(t) \/ Update(t)

WSpec == WInit /\ [][WNext]_wvars
=============================================================================
