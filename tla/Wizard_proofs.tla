--------------------------- MODULE Wizard_proofs ---------------------------
(***************************************************************************)
(* The wizard for any tablets, any number of backups, of tablets put on    *)
(* the cable and of updates: what its caches may lead to.                  *)
(***************************************************************************)
EXTENDS WizardProps, FiniteSetTheorems, SequenceTheorems, TLAPS

(* The steps of the stage that are behind it. *)
Did(step) ==
  \E j \in DOMAIN StepsOf(stage.key) : j < stage.next /\ StepsOf(stage.key)[j] = step

WType ==
  /\ attached \in Tablets /\ slot \in [Tablets -> Slots]
  /\ ctx # None => ctx \in Context
  /\ backups \in Seq(Backup)
  /\ stage # None => stage \in Stage /\ ctx \in Context

(* An identity that names a tablet names one the process talked to.        *)
(* Properties are in the cache for no longer than until the reboot, unless *)
(* they were kept by a failure, by a look at the tablet or by a wait.      *)
CacheOK ==
  ctx # None =>
    /\ ctx.id \in Tablets => ctx.id \in ctx.met
    /\ ctx.props # None =>
         \/ ctx.kept
         \/ stage # None /\ At("edl") /\ ctx.props = HasProps(attached)

(* What each step of a stage leaves for the ones after it. *)
StageOK ==
  stage # None =>
    /\ Did("identify") => ctx.id # None
    /\ Did("read") => attached \in ctx.met
    /\ Did("props!") => stage.kept \/ stage.slot = slot[attached]
    /\ Did("same") => Agree(backups[plan.backup].says, ctx.id)
    /\ stage.key = "root-prepare" => backups # <<>>
    /\ stage.key = "root-apply" => plan # None

PlanOK == plan # None => plan.backup \in DOMAIN backups

WInv ==
  /\ WType /\ CacheOK /\ StageOK /\ PlanOK
  /\ BackupKnowsItsTablet /\ SlotIsTrue

-----------------------------------------------------------------------------
(* The steps of a stage and their order. *)

LEMMA StepLists ==
  /\ StepsOf("backup") = <<"props", "edl", "read", "identify", "manifest", "reset">>
  /\ StepsOf("root-prepare") =
       <<"props!", "edl", "identify", "read", "reset", "wait", "plan">>
  /\ StepsOf("root-apply") = <<"pull", "edl", "identify", "same", "read", "write", "reset">>
  /\ DOMAIN StepsOf("backup") = 1 .. 6
  /\ DOMAIN StepsOf("root-prepare") = 1 .. 7
  /\ DOMAIN StepsOf("root-apply") = 1 .. 7
BY DEF StepsOf

(* What is behind a stage when it comes to a step. *)
LEMMA Order ==
  ASSUME WType, NEW step, At(step)
  PROVE  /\ step = "props!" => stage.key = "root-prepare"
         /\ step \in {"identify", "same"} => ~Did("same")
         /\ step = "manifest" => stage.key = "backup" /\ Did("identify") /\ Did("read")
         /\ step = "plan" => stage.key = "root-prepare" /\ Did("props!") /\ Did("read")
         /\ step = "same" => stage.key = "root-apply"
         /\ step = "write" => stage.key = "root-apply" /\ Did("identify") /\ Did("same")
         /\ step \in {"props", "props!"} =>
              /\ stage.next + 1 \in DOMAIN StepsOf(stage.key)
              /\ StepsOf(stage.key)[stage.next + 1] = "edl"
         /\ stage.next + 1 \in 1 .. 8
<1>1. /\ stage # None /\ stage.key \in Keys /\ stage.next \in 1 .. 8
      /\ stage.next \in DOMAIN StepsOf(stage.key)
      /\ StepsOf(stage.key)[stage.next] = step
  BY DEF At, WType, Stage
<1>2. PICK n \in 1 .. 8 : n = stage.next
  BY <1>1
<1>3. CASE stage.key = "backup"
  <2>1. n \in 1 .. 6 /\ StepsOf(stage.key)[n] = step
    BY <1>1, <1>2, <1>3, StepLists
  <2> QED  BY <1>2, <1>3, <2>1, StepLists DEF Did
<1>4. CASE stage.key = "root-prepare"
  <2>1. n \in 1 .. 7 /\ StepsOf(stage.key)[n] = step
    BY <1>1, <1>2, <1>4, StepLists
  <2> QED  BY <1>2, <1>4, <2>1, StepLists DEF Did
<1>5. CASE stage.key = "root-apply"
  <2>1. n \in 1 .. 7 /\ StepsOf(stage.key)[n] = step
    BY <1>1, <1>2, <1>5, StepLists
  <2> QED  BY <1>2, <1>5, <2>1, StepLists DEF Did
<1> QED  BY <1>1, <1>3, <1>4, <1>5 DEF Keys

(* What only one kind of stage does. *)
LEMMA WhoDid ==
  ASSUME WType, stage # None
  PROVE  /\ Did("same") => stage.key = "root-apply"
         /\ Did("props!") => stage.key = "root-prepare"
<1>1. stage.key \in Keys
  BY DEF WType, Stage
<1> QED  BY <1>1, StepLists DEF Did, Keys

(* A step done joins the ones behind. *)
LEMMA GoesFacts ==
  ASSUME WInv, NEW step, At(step), NEW s \in Stage,
         s.key = stage.key, s.next = stage.next, Goes(s)
  PROVE  /\ stage' \in Stage /\ stage' # None /\ stage # None
         /\ stage'.key = stage.key /\ stage'.next = stage.next + 1
         /\ stage'.slot = s.slot /\ stage'.kept = s.kept
         /\ \A x : Did(x)' <=> Did(x) \/ x = step
<1>1. stage.next + 1 \in 1 .. 8 /\ stage # None /\ stage \in Stage /\ s.next + 1 \in 1 .. 8
  BY Order DEF WInv, WType, At
<1>2. /\ stage' \in Stage /\ stage' # None
      /\ stage'.key = stage.key /\ stage'.next = stage.next + 1
      /\ stage'.slot = s.slot /\ stage'.kept = s.kept
  BY <1>1, NoneAssumption DEF Goes, Stage
<1>3. ASSUME NEW x PROVE Did(x)' <=> Did(x) \/ x = step
  <2> DEFINE L == StepsOf(stage.key)
  <2>1. StepsOf(stage.key)' = L
    BY <1>2 DEF StepsOf
  <2>2. /\ Did(x)' <=> \E j \in DOMAIN L : j < stage.next + 1 /\ L[j] = x
        /\ Did(x) <=> \E j \in DOMAIN L : j < stage.next /\ L[j] = x
        /\ stage.next \in DOMAIN L /\ L[stage.next] = step
    BY <1>2, <2>1 DEF Did, At
  <2>3. DOMAIN L \subseteq Int
    BY <1>1, StepLists DEF Stage, Keys
  <2> HIDE DEF L
  <2>4. \A j \in DOMAIN L : j < stage.next + 1 <=> j < stage.next \/ j = stage.next
    BY <2>2, <2>3
  <2> QED  BY <2>2, <2>4
<1> QED  BY <1>1, <1>2, <1>3

-----------------------------------------------------------------------------
(* The steps of the wizard. *)

LEMMA InitWInv == ASSUME WInit PROVE WInv
<1>1. backups = <<>> /\ backups \in Seq(Backup)
  BY DEF WInit
<1>2. WType
  BY <1>1 DEF WInit, WType
<1>3. CacheOK /\ StageOK /\ PlanOK /\ SlotIsTrue
  BY DEF WInit, CacheOK, StageOK, PlanOK, SlotIsTrue
<1>4. BackupKnowsItsTablet
  BY <1>1 DEF BackupKnowsItsTablet
<1> QED  BY <1>2, <1>3, <1>4 DEF WInv

(* Between stages: properties still in the cache are ones that were kept. *)
LEMMA AtRest ==
  ASSUME WInv, stage' = None, UNCHANGED backups, plan' = plan \/ plan' = None,
         attached' \in Tablets, slot' \in [Tablets -> Slots],
         ctx' # None => /\ ctx' \in Context
                        /\ ctx'.id \in Tablets => ctx'.id \in ctx'.met
                        /\ ctx'.props # None => ctx'.kept
  PROVE  WInv'
<1>1. WType'
  BY DEF WInv, WType
<1>2. CacheOK' /\ StageOK'
  BY DEF CacheOK, StageOK
<1>3. PlanOK' /\ BackupKnowsItsTablet' /\ SlotIsTrue'
  BY DEF WInv, PlanOK, BackupKnowsItsTablet, SlotIsTrue
<1> QED  BY <1>1, <1>2, <1>3 DEF WInv

LEMMA CacheAtRest ==
  ASSUME WInv, ctx # None, ~At("edl")
  PROVE  /\ ctx \in Context
         /\ ctx.id \in Tablets => ctx.id \in ctx.met
         /\ ctx.props # None => ctx.kept
BY DEF WInv, WType, CacheOK

LEMMA TalkedFacts ==
  ASSUME WInv, NEW c \in Context, NEW name \in Names
  PROVE  /\ Talked(c) \in Context
         /\ Talked(c).id = c.id /\ Talked(c).props = c.props /\ Talked(c).kept = c.kept
         /\ Talked(c).met = c.met \cup {attached}
         /\ [Talked(c) EXCEPT !.id = name] \in Context
         /\ [Talked(c) EXCEPT !.id = name].id = name
         /\ [Talked(c) EXCEPT !.id = name].props = c.props
         /\ [Talked(c) EXCEPT !.id = name].kept = c.kept
         /\ [Talked(c) EXCEPT !.id = name].met = c.met \cup {attached}
         /\ [c EXCEPT !.id = name] \in Context
         /\ [c EXCEPT !.id = name].id = name
         /\ [c EXCEPT !.id = name].props = c.props
         /\ [c EXCEPT !.id = name].kept = c.kept
         /\ [c EXCEPT !.id = name].met = c.met
BY DEF WInv, WType, Talked, Context

(* The identity is known afterwards, and names a tablet the process met. *)
LEMMA LearnFacts ==
  ASSUME WInv, ctx \in Context, Learn
  PROVE  /\ ctx' \in Context /\ ctx.met \subseteq ctx'.met
         /\ ctx'.props = ctx.props /\ ctx'.kept = ctx.kept
         /\ ctx'.id # None
         /\ ctx'.id \in Tablets /\ ctx'.id # ctx.id => ctx'.id \in ctx'.met
<1>1. attached \in Names /\ {"model", "nothing"} \subseteq Names /\ attached # None
      /\ "nothing" # None /\ "model" # None /\ "nothing" \notin Tablets /\ "model" \notin Tablets
  BY NamesAssumption DEF WInv, WType, Names
<1>2. CASE ctx.id # None /\ UNCHANGED ctx
  BY <1>2
<1>3. CASE ctx' = [ctx EXCEPT !.id = "nothing"]
  BY <1>1, <1>3, TalkedFacts
<1>4. ASSUME NEW name \in {attached, "model", "nothing"},
             ctx' = [Talked(ctx) EXCEPT !.id = name]
      PROVE  /\ ctx' \in Context /\ ctx.met \subseteq ctx'.met
             /\ ctx'.props = ctx.props /\ ctx'.kept = ctx.kept
             /\ ctx'.id # None
             /\ ctx'.id \in Tablets => ctx'.id \in ctx'.met
  <2>1. name \in Names /\ name # None /\ (name \in Tablets => name = attached)
    BY <1>1
  <2> DEFINE c == [Talked(ctx) EXCEPT !.id = name]
  <2>2. /\ c \in Context /\ c.id = name /\ c.met = ctx.met \cup {attached}
        /\ c.props = ctx.props /\ c.kept = ctx.kept
    BY <2>1, TalkedFacts
  <2>3. ctx' = c
    BY <1>4
  <2> HIDE DEF c
  <2> QED  BY <2>1, <2>2, <2>3
<1> QED  BY <1>2, <1>3, <1>4 DEF Learn

LEMMA PropsFacts ==
  ASSUME WInv, ctx \in Context, NEW p \in DeviceProps
  PROVE  /\ p \in Props \cup {None}
         /\ p # None => \/ p = ctx.props
                        \/ ctx.props = None /\ p = HasProps(attached)
<1>1. HasProps(attached) \in Props
  BY DEF WInv, WType, HasProps, Props
<1>2. ctx.props \in Props \cup {None}
  BY DEF Context
<1>3. CASE ctx.props # None
  <2>1. p = ctx.props
    BY <1>3 DEF DeviceProps
  <2> QED  BY <1>2, <2>1
<1>4. CASE ctx.props = None
  <2>1. p = HasProps(attached) \/ p = None
    BY <1>4 DEF DeviceProps
  <2> QED  BY <1>1, <1>4, <2>1
<1> QED  BY <1>3, <1>4

LEMMA ProcessStep ==
  ASSUME WInv,
         \/ \E given, temblast \in BOOLEAN : Open(given, temblast)
         \/ Diagnose \/ Quit \/ StageFails \/ StageDies \/ StageEnds
  PROVE  WInv'
<1>1. attached \in Tablets /\ slot \in [Tablets -> Slots]
  BY DEF WInv, WType
<1>2. ASSUME NEW given \in BOOLEAN, NEW temblast \in BOOLEAN, Open(given, temblast)
      PROVE  WInv'
  <2>1. /\ ctx' \in Context /\ ctx'.id = None /\ ctx'.props = None
        /\ stage' = stage /\ UNCHANGED <<attached, slot, backups, plan>>
    BY <1>2 DEF Open, Context
  <2>2. stage = None
    BY <1>2, NoneAssumption DEF Open, WInv, WType
  <2>3. None \notin Tablets
    BY NamesAssumption
  <2> QED  BY <1>1, <2>1, <2>2, <2>3, AtRest
<1>3. CASE Diagnose
  <2>1. /\ ctx # None /\ ctx \in Context /\ stage = None /\ stage' = None /\ ~At("edl")
        /\ UNCHANGED <<attached, slot, backups, plan>>
    BY <1>3 DEF Diagnose, WInv, WType, At
  <2>2. ctx.id \in Tablets => ctx.id \in ctx.met
    BY <2>1, CacheAtRest
  <2>3. ctx.props # None => ctx.kept
    BY <2>1, CacheAtRest
  <2>4. ASSUME NEW p \in DeviceProps \ {None},
               ctx' = [ctx EXCEPT !.props = p, !.kept = TRUE]
        PROVE  WInv'
    <3>1. p \in Props
      BY <2>1, PropsFacts
    <3>2. /\ ctx' \in Context /\ ctx'.id = ctx.id /\ ctx'.met = ctx.met /\ ctx'.kept
      BY <2>1, <2>4, <3>1 DEF Context
    <3> QED  BY <1>1, <2>1, <2>2, <3>2, AtRest
  <2>5. ASSUME Learn PROVE WInv'
    <3>1. ctx'.id \in Tablets => ctx'.id \in ctx'.met
      BY <2>1, <2>2, <2>5, LearnFacts
    <3>2. ctx' \in Context /\ (ctx'.props # None => ctx'.kept)
      BY <2>1, <2>3, <2>5, LearnFacts
    <3> QED  BY <1>1, <2>1, <3>1, <3>2, AtRest
  <2>6. ASSUME ctx' = [Talked(ctx) EXCEPT !.id = IF @ = None THEN "nothing" ELSE @]
        PROVE  WInv'
    <3>1. PICK name : name = IF ctx.id = None THEN "nothing" ELSE ctx.id
      OBVIOUS
    <3>2. name \in Names /\ (name \in Tablets => name \in ctx.met)
      BY <2>1, <2>2, <3>1, NamesAssumption DEF Names, Context
    <3>3. ctx' = [Talked(ctx) EXCEPT !.id = name]
      BY <2>1, <2>6, <3>1, <3>2, TalkedFacts
    <3>4. /\ ctx' \in Context /\ ctx'.id = name /\ ctx'.met = ctx.met \cup {attached}
          /\ ctx'.props = ctx.props /\ ctx'.kept = ctx.kept
      BY <2>1, <3>2, <3>3, TalkedFacts
    <3> QED  BY <1>1, <2>1, <2>3, <3>2, <3>4, AtRest
  <2> QED  BY <1>3, <2>4, <2>5, <2>6 DEF Diagnose
<1>4. CASE Quit
  BY <1>1, <1>4, AtRest DEF Quit
<1>5. CASE StageFails
  <2>1. /\ ctx # None /\ stage' = None /\ UNCHANGED <<attached, slot, backups, plan>>
        /\ ~At("edl") /\ (ctx' = ctx \/ ctx' = [ctx EXCEPT !.props = None, !.kept = FALSE])
    BY <1>5, NoneAssumption DEF StageFails, WInv, WType
  <2>2. /\ ctx \in Context
        /\ ctx.id \in Tablets => ctx.id \in ctx.met
        /\ ctx.props # None => ctx.kept
    BY <2>1, CacheAtRest
  <2>3. /\ ctx' \in Context /\ ctx'.id = ctx.id /\ ctx'.met = ctx.met
        /\ ctx'.props # None => ctx'.kept
    BY <2>1, <2>2 DEF Context
  <2> QED  BY <1>1, <2>1, <2>2, <2>3, AtRest
<1>6. CASE StageDies
  BY <1>1, <1>6, AtRest DEF StageDies
<1>7. CASE StageEnds
  <2>1. /\ ctx # None /\ ctx \in Context /\ stage \in Stage
        /\ stage.next = Len(StepsOf(stage.key)) + 1
        /\ stage' = None /\ UNCHANGED <<attached, slot, backups, ctx>>
        /\ plan' = plan \/ plan' = None
    BY <1>7, NoneAssumption DEF StageEnds, WInv, WType
  <2>2. ~At("edl")
    BY <2>1, StepLists DEF At, Stage, Keys
  <2> QED  BY <1>1, <2>1, <2>2, AtRest, CacheAtRest
<1> QED  BY <1>2, <1>3, <1>4, <1>5, <1>6, <1>7

LEMMA OwnerStep ==
  ASSUME WInv, NEW t \in Tablets, Plug(t) \/ Restart(t) \/ Update(t)
  PROVE  WInv'
<1>1. /\ stage = None /\ stage' = None /\ UNCHANGED <<ctx, backups, plan>>
      /\ attached \in Tablets /\ slot \in [Tablets -> Slots] /\ ~At("edl")
  BY DEF WInv, WType, Plug, Restart, Update, At
<1>2. attached' \in Tablets
  BY <1>1 DEF Plug, Restart, Update
<1>3. slot' \in [Tablets -> Slots]
  BY <1>1 DEF Plug, Restart, Update
<1> QED  BY <1>1, <1>2, <1>3, AtRest, CacheAtRest

LEMMA BeginStep ==
  ASSUME WInv, NEW key \in Keys, Begin(key)
  PROVE  WInv'
<1>1. /\ ctx # None /\ ctx \in Context /\ stage = None /\ CanRun(key) /\ ~At("edl")
      /\ UNCHANGED <<attached, slot, ctx, backups, plan>>
  BY DEF Begin, WInv, WType, At
<1>2. stage' = [key |-> key, next |-> 1, slot |-> None, kept |-> FALSE]
  BY DEF Begin
<1>3. stage' \in Stage /\ stage'.key = key /\ stage'.next = 1
  BY <1>2 DEF Stage
<1>4. WType'
  BY <1>1, <1>3 DEF WInv, WType
<1>5. ASSUME NEW step PROVE ~Did(step)'
  <2> DEFINE L == StepsOf(key)
  <2>1. DOMAIN L \subseteq 1 .. 7
    BY StepLists DEF Keys
  <2>2. StepsOf(stage.key)' = L
    BY <1>3 DEF StepsOf
  <2> HIDE DEF L
  <2>3. Did(step)' <=> \E j \in DOMAIN L : j < 1 /\ L[j] = step
    BY <1>3, <2>2 DEF Did
  <2> QED  BY <2>1, <2>3
<1>6. CacheOK'
  BY <1>1, CacheAtRest DEF CacheOK
<1>7. StageOK'
  BY <1>1, <1>3, <1>5 DEF StageOK, CanRun, Keys
<1>8. PlanOK' /\ BackupKnowsItsTablet' /\ SlotIsTrue'
  BY <1>1 DEF WInv, PlanOK, BackupKnowsItsTablet, SlotIsTrue
<1> QED  BY <1>4, <1>6, <1>7, <1>8 DEF WInv

-----------------------------------------------------------------------------
(* The steps of a stage. *)

LEMMA AtFacts ==
  ASSUME WInv, NEW step, At(step)
  PROVE  /\ stage # None /\ stage \in Stage /\ ctx \in Context /\ ctx # None
         /\ attached \in Tablets /\ slot \in [Tablets -> Slots]
         /\ step # "edl" => ~At("edl")
BY NoneAssumption DEF At, WInv, WType

(* A step leaves to the later ones what the earlier ones found out. *)
LEMMA Carried ==
  ASSUME WInv, NEW step, At(step), NEW s \in Stage,
         s.key = stage.key, s.next = stage.next, Goes(s),
         UNCHANGED <<attached, slot, backups, plan>>,
         ctx' \in Context, ctx.met \subseteq ctx'.met,
         ctx'.id = ctx.id \/ step = "identify",
         ctx'.id \in Tablets /\ ctx'.id # ctx.id => ctx'.id \in ctx'.met,
         step = "identify" => ctx'.id # None,
         ctx'.props # None =>
           \/ ctx'.kept
           \/ step \in {"props", "props!"} /\ ctx'.props = HasProps(attached),
         step = "read" => attached \in ctx'.met,
         step # "props!" => s.slot = stage.slot /\ s.kept = stage.kept,
         step = "props!" => s.kept \/ s.slot = slot[attached],
         step = "same" => Agree(backups[plan.backup].says, ctx.id)
  PROVE  WInv'
<1>1. /\ stage # None /\ WType /\ ctx \in Context /\ ctx # None
      /\ stage.next + 1 \in 1 .. 8
  BY AtFacts, Order DEF WInv
<1>2. /\ stage' \in Stage /\ stage' # None
      /\ stage'.key = stage.key /\ stage'.next = stage.next + 1
      /\ stage'.slot = s.slot /\ stage'.kept = s.kept
      /\ \A x : Did(x)' <=> Did(x) \/ x = step
  BY GoesFacts
<1>3. WType'
  BY <1>1, <1>2 DEF WType
<1>4. CacheOK'
  <2>1. ctx'.id \in Tablets => ctx'.id \in ctx'.met
    BY <1>1 DEF WInv, CacheOK
  <2>2. step \in {"props", "props!"} => At("edl")'
    <3>1. StepsOf(stage.key)' = StepsOf(stage.key)
      BY <1>2 DEF StepsOf
    <3>2. ASSUME step \in {"props", "props!"}
          PROVE  /\ stage.next + 1 \in DOMAIN StepsOf(stage.key)
                 /\ StepsOf(stage.key)[stage.next + 1] = "edl"
      BY <1>1, <3>2, Order
    <3> QED  BY <1>2, <3>1, <3>2 DEF At
  <2>3. HasProps(attached)' = HasProps(attached)
    BY DEF HasProps
  <2> QED  BY <1>2, <2>1, <2>2, <2>3 DEF CacheOK
<1>5. StageOK'
  <2>1. Did("identify")' => ctx'.id # None
    BY <1>1, <1>2 DEF WInv, StageOK
  <2>2. Did("read")' => attached' \in ctx'.met
    BY <1>1, <1>2 DEF WInv, StageOK
  <2>3. Did("props!")' => stage'.kept \/ stage'.slot = slot'[attached']
    BY <1>1, <1>2 DEF WInv, StageOK
  <2>4. Did("same")' => Agree(backups'[plan'.backup].says, ctx'.id)
    <3>1. step \in {"identify", "same"} => ~Did("same")
      BY <1>1, Order
    <3> QED  BY <1>1, <1>2, <3>1 DEF WInv, StageOK
  <2>5. /\ stage'.key = "root-prepare" => backups' # <<>>
        /\ stage'.key = "root-apply" => plan' # None
    BY <1>1, <1>2 DEF WInv, StageOK
  <2> QED  BY <2>1, <2>2, <2>3, <2>4, <2>5 DEF StageOK
<1>6. PlanOK' /\ BackupKnowsItsTablet' /\ SlotIsTrue'
  BY DEF WInv, PlanOK, BackupKnowsItsTablet, SlotIsTrue
<1> QED  BY <1>3, <1>4, <1>5, <1>6 DEF WInv

LEMMA AskPropsStep == ASSUME WInv, AskProps PROVE WInv'
<1>1. At("props")
  BY DEF AskProps
<1>2. stage \in Stage /\ ctx \in Context /\ ctx # None /\ ~At("edl")
  BY <1>1, AtFacts
<1>3. PICK p \in DeviceProps : ctx' = [ctx EXCEPT !.props = p]
  BY DEF AskProps
<1>4. /\ p \in Props \cup {None}
      /\ p # None => p = ctx.props \/ p = HasProps(attached)
  BY <1>2, PropsFacts
<1>5. /\ ctx' \in Context /\ ctx'.props = p
      /\ ctx'.id = ctx.id /\ ctx'.met = ctx.met /\ ctx'.kept = ctx.kept
  BY <1>2, <1>3, <1>4 DEF Context
<1>6. ctx.props # None => ctx.kept
  BY <1>2, CacheAtRest
<1>7. Goes(stage) /\ UNCHANGED <<attached, slot, backups, plan>>
  BY DEF AskProps
<1> QED  BY <1>1, <1>2, <1>4, <1>5, <1>6, <1>7, Carried

LEMMA NeedPropsStep == ASSUME WInv, NeedProps PROVE WInv'
<1>1. At("props!")
  BY DEF NeedProps
<1>2. stage \in Stage /\ ctx \in Context /\ ctx # None /\ ~At("edl")
  BY <1>1, AtFacts
<1>3. PICK p \in DeviceProps \ {None} :
        /\ ctx' = [ctx EXCEPT !.props = p]
        /\ Goes([stage EXCEPT !.slot = p.slot, !.kept = ctx.kept])
  BY DEF NeedProps
<1>4. p \in Props /\ (p = ctx.props \/ p = HasProps(attached))
  BY <1>2, PropsFacts
<1>5. /\ ctx' \in Context /\ ctx'.props = p
      /\ ctx'.id = ctx.id /\ ctx'.met = ctx.met /\ ctx'.kept = ctx.kept
      /\ ctx.kept \in BOOLEAN
  BY <1>2, <1>3, <1>4 DEF Context
<1>6. ctx.props # None => ctx.kept
  BY <1>2, CacheAtRest
<1> DEFINE s == [stage EXCEPT !.slot = p.slot, !.kept = ctx.kept]
<1>7. p.slot \in Slots
  BY <1>4 DEF Props
<1>8. /\ s \in Stage /\ s.key = stage.key /\ s.next = stage.next
      /\ s.slot = p.slot /\ s.kept = ctx.kept
  BY <1>2, <1>5, <1>7 DEF Stage
<1>9. s.kept \/ s.slot = slot[attached]
  BY <1>3, <1>4, <1>6, <1>8 DEF HasProps
<1>10. Goes(s) /\ UNCHANGED <<attached, slot, backups, plan>>
  BY <1>3 DEF NeedProps
<1> HIDE DEF s
<1> QED  BY <1>1, <1>2, <1>3, <1>4, <1>5, <1>6, <1>8, <1>9, <1>10, Carried

LEMMA EnterEdlStep == ASSUME WInv, EnterEdl PROVE WInv'
<1>1. At("edl") /\ Goes(stage) /\ UNCHANGED <<attached, slot, backups, plan>>
  BY DEF EnterEdl
<1>2. stage \in Stage /\ ctx \in Context /\ ctx # None
  BY <1>1, AtFacts
<1>3. PICK p \in DeviceProps :
        \/ p = None /\ UNCHANGED ctx
        \/ p # None /\ ctx' = [ctx EXCEPT !.props = None, !.kept = FALSE]
  BY DEF EnterEdl
<1>4. CASE p = None /\ UNCHANGED ctx
  <2>1. ctx.props = None
    BY <1>3, <1>4 DEF DeviceProps
  <2> QED  BY <1>1, <1>2, <1>4, <2>1, Carried
<1>5. CASE ctx' = [ctx EXCEPT !.props = None, !.kept = FALSE]
  <2>1. /\ ctx' \in Context /\ ctx'.props = None
        /\ ctx'.id = ctx.id /\ ctx'.met = ctx.met
    BY <1>2, <1>5 DEF Context
  <2> QED  BY <1>1, <1>2, <2>1, Carried
<1> QED  BY <1>3, <1>4, <1>5

LEMMA EnterEdlFailsStep == ASSUME WInv, EnterEdlFails PROVE WInv'
<1>1. At("edl") /\ stage' = None /\ UNCHANGED <<attached, slot, backups, plan>>
  BY DEF EnterEdlFails
<1>2. /\ ctx \in Context /\ ctx # None
      /\ attached \in Tablets /\ slot \in [Tablets -> Slots]
  BY <1>1, AtFacts
<1>3. PICK p \in DeviceProps \ {None} : ctx' = [ctx EXCEPT !.props = p, !.kept = TRUE]
  BY DEF EnterEdlFails
<1>4. p \in Props
  BY <1>2, PropsFacts
<1>5. /\ ctx' \in Context /\ ctx'.kept /\ ctx'.id = ctx.id /\ ctx'.met = ctx.met
  BY <1>2, <1>3, <1>4 DEF Context
<1>6. ctx.id \in Tablets => ctx.id \in ctx.met
  BY <1>2 DEF WInv, CacheOK
<1> QED  BY <1>1, <1>2, <1>5, <1>6, AtRest

LEMMA IdentifyStep == ASSUME WInv, Identify PROVE WInv'
<1>1. At("identify") /\ Learn /\ Goes(stage) /\ UNCHANGED <<attached, slot, backups, plan>>
  BY DEF Identify
<1>2. stage \in Stage /\ ctx \in Context /\ ctx # None /\ ~At("edl")
  BY <1>1, AtFacts
<1>3. ctx.props # None => ctx.kept
  BY <1>2, CacheAtRest
<1>4. /\ ctx' \in Context /\ ctx.met \subseteq ctx'.met
      /\ ctx'.props = ctx.props /\ ctx'.kept = ctx.kept
      /\ ctx'.id # None
      /\ ctx'.id \in Tablets /\ ctx'.id # ctx.id => ctx'.id \in ctx'.met
  BY <1>1, <1>2, LearnFacts
<1> QED  BY <1>1, <1>2, <1>3, <1>4, Carried

(* Read and Write talk to the tablet and leave the rest as it is. *)
LEMMA AccessStep == ASSUME WInv, Read \/ Write PROVE WInv'
<1>1. PICK step \in {"read", "write"} :
        /\ At(step) /\ Goes(stage) /\ ctx' = Talked(ctx)
        /\ UNCHANGED <<attached, slot, backups, plan>>
  BY DEF Read, Write
<1>2. /\ stage \in Stage /\ ctx \in Context /\ ctx # None /\ ~At("edl")
      /\ attached \in Tablets
  BY <1>1, AtFacts
<1>3. ctx.props # None => ctx.kept
  BY <1>2, CacheAtRest
<1>4. /\ ctx' \in Context /\ ctx'.id = ctx.id /\ ctx'.met = ctx.met \cup {attached}
      /\ ctx'.props = ctx.props /\ ctx'.kept = ctx.kept
  <2>1. "model" \in Names
    BY DEF Names
  <2> QED  BY <1>1, <1>2, <2>1, TalkedFacts
<1> QED  BY <1>1, <1>2, <1>3, <1>4, Carried

LEMMA QuietStep == ASSUME WInv, Reset \/ SameDevice \/ Pull PROVE WInv'
<1>1. PICK step \in {"reset", "same", "pull"} :
        /\ At(step) /\ Goes(stage) /\ UNCHANGED <<attached, slot, ctx, backups, plan>>
        /\ step = "same" => Agree(backups[plan.backup].says, ctx.id)
  BY DEF Reset, SameDevice, Pull
<1>2. stage \in Stage /\ ctx \in Context /\ ctx # None /\ ~At("edl")
  BY <1>1, AtFacts
<1>3. ctx.props # None => ctx.kept
  BY <1>2, CacheAtRest
<1> QED  BY <1>1, <1>2, <1>3, Carried

LEMMA WaitStep == ASSUME WInv, Wait PROVE WInv'
<1>1. /\ At("wait") /\ Goes(stage) /\ UNCHANGED <<attached, slot, backups, plan>>
      /\ ctx' = [ctx EXCEPT !.props = HasProps(attached), !.kept = TRUE]
  BY DEF Wait
<1>2. /\ stage \in Stage /\ ctx \in Context /\ attached \in Tablets
      /\ slot \in [Tablets -> Slots]
  BY <1>1, AtFacts
<1>3. HasProps(attached) \in Props
  BY <1>2 DEF HasProps, Props
<1>4. ctx' \in Context /\ ctx'.kept /\ ctx'.id = ctx.id /\ ctx'.met = ctx.met
  BY <1>1, <1>2, <1>3 DEF Context
<1> QED  BY <1>1, <1>2, <1>4, Carried

(* Two tablets in one set of tablets. *)
LEMMA TwoMakeMore ==
  ASSUME NEW S \in SUBSET Tablets, NEW t \in S, NEW u \in S, t # u
  PROVE  Cardinality(S) > 1
<1>1. IsFiniteSet(S)
  BY WizardAssumption, FS_Subset
<1>2. {t, u} \subseteq S /\ Cardinality({t, u}) = 2
  <2>1. IsFiniteSet({t}) /\ Cardinality({t}) = 1
    BY FS_Singleton
  <2>2. Cardinality({t} \cup {u}) = 2
    BY <2>1, FS_AddElement
  <2>3. {t, u} = {t} \cup {u} /\ {t, u} \subseteq S
    OBVIOUS
  <2> QED  BY <2>2, <2>3
<1>3. Cardinality({t, u}) <= Cardinality(S)
  BY <1>1, <1>2, FS_Subset
<1> QED  BY <1>1, <1>2, <1>3, FS_CardinalityType

LEMMA ManifestStep == ASSUME WInv, Manifest PROVE WInv'
<1> DEFINE b == [says |-> ctx.id, of |-> attached, met |-> ctx.met]
<1>1. /\ At("manifest") /\ Goes(stage) /\ backups' = Append(backups, b)
      /\ UNCHANGED <<attached, slot, ctx, plan>>
  BY DEF Manifest
<1>2. /\ stage \in Stage /\ ctx \in Context /\ ctx # None /\ attached \in Tablets
      /\ stage # None /\ ~At("edl") /\ WType
  BY <1>1, AtFacts DEF WInv
<1>3. stage.key = "backup" /\ Did("identify") /\ Did("read")
  BY <1>1, <1>2, Order
<1>4. /\ ctx.id # None /\ attached \in ctx.met
      /\ ctx.id \in Tablets => ctx.id \in ctx.met
      /\ ctx.props # None => ctx.kept
  BY <1>2, <1>3, CacheAtRest DEF WInv, StageOK
<1>5. ctx.met \in SUBSET Tablets /\ ctx.id \in Names
  BY <1>2, <1>4 DEF Context
<1>6. b \in Backup /\ (b.says \in Tablets /\ b.says # b.of => Cardinality(b.met) > 1)
  BY <1>2, <1>4, <1>5, TwoMakeMore DEF Backup
<1>7. backups \in Seq(Backup)
  BY DEF WInv, WType
<1> HIDE DEF b
<1>8. /\ backups' \in Seq(Backup) /\ backups' # <<>>
      /\ Len(backups') = Len(backups) + 1
      /\ \A i \in 1 .. Len(backups) : backups'[i] = backups[i]
      /\ backups'[Len(backups) + 1] = b
  BY <1>1, <1>6, <1>7
<1>9. DOMAIN backups = 1 .. Len(backups) /\ DOMAIN backups' = 1 .. Len(backups) + 1
  BY <1>7, <1>8
<1>10. /\ stage' \in Stage /\ stage' # None /\ stage'.key = "backup"
       /\ \A x : Did(x)' <=> Did(x) \/ x = "manifest"
  BY <1>1, <1>2, <1>3, GoesFacts
<1>11. WType'
  BY <1>1, <1>2, <1>8, <1>10 DEF WType
<1>12. CacheOK'
  BY <1>1, <1>4 DEF CacheOK
<1>13. StageOK'
  <2>1. ~Did("same") /\ ~Did("props!")
    BY <1>2, <1>3, WhoDid
  <2> QED  BY <1>1, <1>4, <1>10, <2>1 DEF StageOK
<1>14. PlanOK'
  BY <1>1, <1>8, <1>9 DEF WInv, PlanOK
<1>15. BackupKnowsItsTablet'
  BY <1>6, <1>8, <1>9 DEF WInv, BackupKnowsItsTablet
<1>16. SlotIsTrue'
  BY <1>1 DEF WInv, SlotIsTrue
<1> QED  BY <1>11, <1>12, <1>13, <1>14, <1>15, <1>16 DEF WInv

LEMMA WritePlanStep == ASSUME WInv, WritePlan PROVE WInv'
<1>1. /\ At("plan") /\ Goes(stage) /\ UNCHANGED <<attached, slot, ctx, backups>>
      /\ plan' = [slot |-> stage.slot, backup |-> Len(backups), kept |-> stage.kept,
                  true |-> stage.slot = slot[attached]]
  BY DEF WritePlan
<1>2. /\ stage \in Stage /\ ctx \in Context /\ ctx # None /\ stage # None /\ ~At("edl")
      /\ WType
  BY <1>1, AtFacts DEF WInv
<1>3. stage.key = "root-prepare" /\ Did("props!") /\ Did("read")
  BY <1>1, <1>2, Order
<1>4. /\ attached \in ctx.met /\ backups # <<>>
      /\ stage.kept \/ stage.slot = slot[attached]
  BY <1>2, <1>3 DEF WInv, StageOK
<1>5. backups \in Seq(Backup) /\ Len(backups) \in DOMAIN backups
  <2>1. backups \in Seq(Backup)
    BY DEF WInv, WType
  <2>2. Len(backups) \in Nat /\ Len(backups) # 0 /\ DOMAIN backups = 1 .. Len(backups)
    BY <1>4, <2>1, EmptySeq
  <2>3. \A k \in Nat : k # 0 => k \in 1 .. k
    OBVIOUS
  <2> QED  BY <2>1, <2>2, <2>3
<1>6. /\ stage' \in Stage /\ stage' # None /\ stage'.key = "root-prepare"
      /\ stage'.slot = stage.slot /\ stage'.kept = stage.kept
      /\ \A x : Did(x)' <=> Did(x) \/ x = "plan"
  BY <1>1, <1>2, <1>3, GoesFacts
<1>7. WType'
  BY <1>1, <1>2, <1>6 DEF WType
<1>8. CacheOK'
  BY <1>1, <1>2, CacheAtRest DEF CacheOK
<1>9. StageOK'
  <2>1. ~Did("same")
    BY <1>2, <1>3, WhoDid
  <2>2. Did("identify") => ctx.id # None
    BY <1>2 DEF WInv, StageOK
  <2> QED  BY <1>1, <1>4, <1>6, <2>1, <2>2 DEF StageOK
<1>10. plan'.backup = Len(backups) /\ plan'.kept = stage.kept
       /\ plan'.true = (stage.slot = slot[attached])
  BY <1>1
<1>11. PlanOK' /\ SlotIsTrue'
  BY <1>1, <1>4, <1>5, <1>10 DEF PlanOK, SlotIsTrue
<1>12. BackupKnowsItsTablet'
  BY <1>1 DEF WInv, BackupKnowsItsTablet
<1> QED  BY <1>7, <1>8, <1>9, <1>11, <1>12 DEF WInv

LEMMA WNextInv == ASSUME WInv, [WNext]_wvars PROVE WInv'
<1>1. CASE UNCHANGED wvars
  BY <1>1 DEF wvars, WInv, WType, CacheOK, StageOK, PlanOK, BackupKnowsItsTablet,
              SlotIsTrue, Did, At, HasProps, StepsOf
<1>2. ASSUME NEW key \in Keys, Begin(key) PROVE WInv'
  BY <1>2, BeginStep
<1>3. ASSUME NEW t \in Tablets, Plug(t) \/ Restart(t) \/ Update(t) PROVE WInv'
  BY <1>3, OwnerStep
<1>4. CASE \/ \E given, temblast \in BOOLEAN : Open(given, temblast)
           \/ Diagnose \/ Quit \/ StageFails \/ StageDies \/ StageEnds
  BY <1>4, ProcessStep
<1>5. CASE AskProps \/ NeedProps \/ EnterEdl \/ EnterEdlFails
  BY <1>5, AskPropsStep, NeedPropsStep, EnterEdlStep, EnterEdlFailsStep
<1>6. CASE Identify \/ Read \/ Write \/ Reset \/ SameDevice \/ Pull
  BY <1>6, IdentifyStep, AccessStep, QuietStep
<1>7. CASE Manifest \/ Wait \/ WritePlan
  BY <1>7, ManifestStep, WaitStep, WritePlanStep
<1> QED  BY <1>1, <1>2, <1>3, <1>4, <1>5, <1>6, <1>7 DEF WNext

LEMMA AlwaysWInv == WSpec => []WInv
<1>1. WInit => WInv
  BY InitWInv
<1>2. WInv /\ [WNext]_wvars => WInv'
  BY WNextInv
<1> QED  BY <1>1, <1>2, PTL DEF WSpec

(* However long a process lives and whatever fails in it, a manifest that  *)
(* names a tablet names the one its images were read from, unless that     *)
(* process talked to two tablets (safety/backup.py, session.py:122).       *)
THEOREM ManifestsNameTheTablet == WSpec => []BackupKnowsItsTablet
<1>1. WInv => BackupKnowsItsTablet
  BY DEF WInv
<1> QED  BY <1>1, AlwaysWInv, PTL

(* The slot in a plan is the one the tablet was started from, unless       *)
(* prepare found it in the cache, where a failed reboot, Recovery or an    *)
(* earlier prepare's wait had left it (context.py:88, root.py:348).        *)
THEOREM PlansNameTheSlot == WSpec => []SlotIsTrue
<1>1. WInv => SlotIsTrue
  BY DEF WInv
<1> QED  BY <1>1, AlwaysWInv, PTL

(* root apply writes to the tablet the plan's backup is of, unless the     *)
(* manifest or the session names no tablet, or a process that had a part   *)
(* in it talked to two (root.py, require_same_device, mismatch).           *)
THEOREM ApplyOnTheRightTablet == WSpec => AppliesWhereItBelongs
<1>1. ASSUME WInv, At("write")
      PROVE  LET backup == backups[plan.backup] IN
             \/ attached = backup.of
             \/ ~({ctx.id, backup.says} \subseteq Tablets)
             \/ Cardinality(ctx.met \cup {attached}) > 1
             \/ Cardinality(backup.met) > 1
  <2>1. /\ stage # None /\ ctx # None /\ ctx \in Context /\ attached \in Tablets
        /\ ~At("edl") /\ WType
    BY <1>1, AtFacts DEF WInv
  <2>2. stage.key = "root-apply" /\ Did("same")
    BY <1>1, <2>1, Order
  <2>3. /\ plan # None
        /\ Agree(backups[plan.backup].says, ctx.id)
    BY <1>1, <2>1, <2>2 DEF WInv, StageOK
  <2>4. plan.backup \in DOMAIN backups
    BY <1>1, <2>3 DEF WInv, PlanOK
  <2>5. SUFFICES ASSUME ctx.id \in Tablets, backups[plan.backup].says = ctx.id
                 PROVE  \/ attached = backups[plan.backup].of
                        \/ Cardinality(ctx.met \cup {attached}) > 1
                        \/ Cardinality(backups[plan.backup].met) > 1
    BY <2>3 DEF Agree
  <2>6. \/ backups[plan.backup].of = ctx.id
        \/ Cardinality(backups[plan.backup].met) > 1
    BY <1>1, <2>4, <2>5 DEF WInv, BackupKnowsItsTablet
  <2>7. ctx.met \cup {attached} \in SUBSET Tablets /\ ctx.id \in ctx.met
    BY <1>1, <2>1, <2>5, CacheAtRest DEF Context
  <2>8. attached # ctx.id => Cardinality(ctx.met \cup {attached}) > 1
    BY <2>7, TwoMakeMore
  <2> QED  BY <2>6, <2>8
<1>2. WInv /\ [WNext]_wvars =>
        [ At("write") /\ Write
          => LET backup == backups[plan.backup] IN
             \/ attached = backup.of
             \/ ~({ctx.id, backup.says} \subseteq Tablets)
             \/ Cardinality(ctx.met \cup {attached}) > 1
             \/ Cardinality(backup.met) > 1 ]_wvars
  BY <1>1
<1> QED  BY <1>2, AlwaysWInv, PTL DEF WSpec, AppliesWhereItBelongs

=============================================================================
