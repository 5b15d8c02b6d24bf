------------------------ MODULE PolicyLifecycleProofs ------------------------
(***************************************************************************)
(* Proofs about PolicyLifecycle, for any number of objects, versions and   *)
(* training iterations: type correctness and every invariant its run       *)
(* checks.                                                                 *)
(*                                                                         *)
(* What an operation still has to do is in todo, so the arguments are      *)
(* about that list: a register step has its checkpoint behind it           *)
(* (PendingRegister), a registry ahead of its file has the way to          *)
(* saveRegistry in front of it (Owed), a load is for the production policy *)
(* and next (LoadNext), and a refresh has the promotions and the training  *)
(* it needs before it (Climbs, TrainingInv).                               *)
(***************************************************************************)
EXTENDS PolicyLifecycle, TLAPS

StepRec == [do : StepNames, v : Versions]

(* The steps that use train_policy's local variable find it assigned.      *)
NeedLocal == {"saveModel", "learn", "saveMeta", "refresh"}

HolderInv ==
  \A i \in DOMAIN todo : todo[i].do \in NeedLocal => local \in Objs

TypeInv == TypeOK /\ HolderInv
-----------------------------------------------------------------------------
LEMMA NextStageType ==
  \A s \in DOMAIN NextStage : NextStage[s] \in Stages
BY DEF NextStage, Stages

LEMMA ArchivedType ==
  ASSUME NEW r \in Seq(Meta)
  PROVE  /\ Archived(r) \in Seq(Meta)
         /\ Len(Archived(r)) = Len(r)
         /\ DOMAIN Archived(r) = DOMAIN r
         /\ InProduction(Archived(r)) = {}
<1>1. \A v \in DOMAIN r : r[v] \in Meta
  OBVIOUS
<1>2. \A v \in DOMAIN r : [r[v] EXCEPT !.stage = "archived"] \in Meta
  BY <1>1 DEF Meta, Stages
<1>3. DOMAIN r = 1..Len(r) /\ Len(r) \in Nat
  OBVIOUS
<1>4. \A v \in 1..Len(r) : Archived(r)[v] \in Meta
  BY <1>1, <1>2, <1>3 DEF Archived
<1>5. Archived(r) = [v \in 1..Len(r) |-> Archived(r)[v]]
  BY <1>3 DEF Archived
<1>6. Archived(r) \in Seq(Meta) /\ Len(Archived(r)) = Len(r)
  BY <1>3, <1>4, <1>5
<1>7. \A v \in DOMAIN r : Archived(r)[v].stage # "production"
  BY <1>1 DEF Archived, Meta
<1>8. DOMAIN Archived(r) = DOMAIN r
  BY DEF Archived
<1> QED
  BY <1>6, <1>7, <1>8 DEF InProduction

LEMMA SetStageType ==
  ASSUME NEW r \in Seq(Meta), NEW v \in DOMAIN r, NEW s \in Stages
  PROVE  /\ [r EXCEPT ![v].stage = s] \in Seq(Meta)
         /\ Len([r EXCEPT ![v].stage = s]) = Len(r)
         /\ DOMAIN [r EXCEPT ![v].stage = s] = DOMAIN r
<1>1. r[v] \in Meta
  OBVIOUS
<1>2. [r[v] EXCEPT !.stage = s] \in Meta
  BY <1>1 DEF Meta
<1> QED
  BY <1>2

(* Archiving and then promoting one version leaves that version alone in   *)
(* production.                                                             *)
LEMMA OneProduction ==
  ASSUME NEW r \in Seq(Meta), NEW v \in DOMAIN r
  PROVE  \A w \in InProduction([Archived(r) EXCEPT ![v].stage = "production"]) : w = v
<1>1. DOMAIN Archived(r) = DOMAIN r /\ Archived(r) \in Seq(Meta)
  BY ArchivedType
<1>2. \A w \in DOMAIN r : Archived(r)[w].stage # "production"
  BY ArchivedType DEF InProduction
<1> QED
  BY <1>1, <1>2 DEF InProduction

(* What Head, Tail and concatenation do to the list of steps.              *)
LEMMA ProceedType ==
  ASSUME NEW next \in Seq(StepRec), todo \in Seq(StepRec), todo # <<>>,
         \A i \in DOMAIN next : next[i].do \notin NeedLocal,
         HolderInv, local \in Objs \cup {NoObj},
         Proceed(next)
  PROVE  /\ todo' \in Seq(StepRec)
         /\ local' \in Objs \cup {NoObj}
         /\ HolderInv'
<1>1. Tail(todo) \in Seq(StepRec) /\ todo' = next \o Tail(todo)
  BY DEF Proceed
<1>2. todo' \in Seq(StepRec)
  BY <1>1
<1>3. local' \in Objs \cup {NoObj}
  BY DEF Proceed
<1>4. ASSUME NEW i \in DOMAIN todo', todo'[i].do \in NeedLocal
      PROVE  local' \in Objs
  <2>1. todo' # <<>>
    BY <1>2, <1>4
  <2>2. local' = local
    BY <2>1 DEF Proceed
  <2>3. i \in 1..(Len(next) + Len(Tail(todo))) /\ i > Len(next)
    BY <1>1, <1>2, <1>4
  <2>4. todo'[i] = Tail(todo)[i - Len(next)] /\ i - Len(next) \in 1..Len(Tail(todo))
    BY <1>1, <2>3
  <2>5. \E j \in DOMAIN todo : todo[j] = todo'[i]
    BY <1>1, <2>4
  <2> QED
    BY <1>4, <2>2, <2>5 DEF HolderInv
<1> QED
  BY <1>2, <1>3, <1>4 DEF HolderInv
-----------------------------------------------------------------------------
(* What the other operators return.                                        *)
LEMMA StepType ==
  ASSUME NEW name \in StepNames, NEW v \in Versions
  PROVE  Step(name, v) \in StepRec /\ Step(name, v).do = name
BY DEF Step, StepRec

LEMMA CreateStepsType ==
  ASSUME NEW v \in Versions
  PROVE  CreateSteps(v) \in Seq(StepRec)
BY DEF CreateSteps, Step, StepRec, StepNames

LEMMA TrainStepsType ==
  ASSUME NEW v \in Versions
  PROVE  TrainSteps(v) \in Seq(StepRec)
BY DEF TrainSteps, Step, StepRec, StepNames

LEMMA ActiveVersionType ==
  ASSUME registry \in Seq(Meta), Len(registry) <= MaxVersions,
         InProduction(registry) # {}
  PROVE  ActiveVersion \in DOMAIN registry /\ ActiveVersion \in Versions
<1>1. ActiveVersion \in InProduction(registry)
  BY DEF ActiveVersion
<1>2. DOMAIN registry \subseteq Versions
  BY PolicyAssumption DEF Versions
<1> QED
  BY <1>1, <1>2 DEF InProduction

LEMMA NewPolicyType ==
  ASSUME NEW o \in Objs, NEW v \in 0..MaxVersions, NEW w \in Weights,
         heap \in [Objs -> Policy], NewPolicy(o, v, w)
  PROVE  heap' \in [Objs -> Policy]
<1>1. [weights |-> w, steps |-> 0, from |-> v] \in Policy
  BY DEF Policy
<1> QED
  BY <1>1 DEF NewPolicy

(* A step that leaves todo and local alone keeps HolderInv.                *)
LEMMA BeginHolder ==
  ASSUME local' \in Objs
  PROVE  HolderInv'
BY DEF HolderInv
-----------------------------------------------------------------------------
LEMMA InitTypeInv == Init => TypeInv
<1> SUFFICES ASSUME Init PROVE TypeInv
  OBVIOUS
<1> USE PolicyAssumption
<1>1. Seeded \in Seq(Meta) /\ Len(Seeded) = 1 /\ 1 <= MaxVersions
  BY DEF Seeded, Meta, Stages
<1>2. <<>> \in Seq(Meta) /\ Len(<<>>) = 0
  OBVIOUS
<1>3. registry \in Seq(Meta) /\ Len(registry) <= MaxVersions
  BY <1>2 DEF Init
<1>7. file \in Seq(Meta) /\ Len(file) <= MaxVersions
  <2>1. file = <<>> \/ file = Seeded
    BY DEF Init
  <2>2. CASE file = <<>>
    BY <2>2, <1>2
  <2>3. CASE file = Seeded
    BY <2>3, <1>1
  <2> QED
    BY <2>1, <2>2, <2>3
<1>4. heap \in [Objs -> Policy]
  BY DEF Init, Blank, Policy, Weights
<1>5. model \in [Versions -> {Torn, Missing} \cup Weights] /\ link \in 0..MaxVersions
  BY DEF Init, Weights, Versions
<1>6. todo \in Seq(StepRec) /\ HolderInv
  BY DEF Init, HolderInv
<1>8. up \in BOOLEAN /\ aborted \in BOOLEAN
  BY Zenon DEF Init
<1>10. reply = "none" /\ iter \in 0..MaxTrains
  BY DEF Init
<1>9. active = NoObj /\ selector = NoObj /\ local = NoObj
  BY DEF Init
<1> QED
  BY <1>3, <1>4, <1>5, <1>6, <1>7, <1>8, <1>9, <1>10 DEF TypeInv, TypeOK, StepRec
-----------------------------------------------------------------------------
(* Every action that starts an operation preserves TypeInv.                *)
LEMMA BeginTypeInv ==
  ASSUME TypeInv,
         \/ CreatePolicy \/ TrainExisting \/ TrainCannotLoad \/ TrainFirst
         \/ \E v \in DOMAIN registry : Promote(v) \/ Rollback(v)
  PROVE  TypeInv'
<1> USE PolicyAssumption DEF TypeInv
<1>1. CASE CreatePolicy
  <2>1. Len(registry) + 1 \in Versions
    BY <1>1 DEF CreatePolicy, TypeOK, Versions
  <2>2. todo' \in Seq(StepRec)
    BY <1>1, <2>1, CreateStepsType DEF CreatePolicy, Begin
  <2>3. PICK o \in FreeObjs : NewPolicy(o, Len(registry) + 1, {}) /\ local' = o
    BY <1>1 DEF CreatePolicy
  <2>4. heap' \in [Objs -> Policy] /\ local' \in Objs
    BY <2>1, <2>3, NewPolicyType DEF FreeObjs, TypeOK, Weights, Versions
  <2> QED
    BY <1>1, <2>2, <2>4, BeginHolder DEF CreatePolicy, Begin, TypeOK, StepRec, disk
<1>2. ASSUME NEW v \in DOMAIN registry, Promote(v) PROVE TypeInv'
  <2>2. v \in Versions /\ "promote" \in StepNames
    BY DEF TypeOK, Versions, StepNames
  <2>3. Step("promote", v) \in StepRec /\ Step("promote", v).do = "promote"
    BY <2>2, StepType
  <2>4. todo' = << Step("promote", v) >> /\ todo' \in Seq(StepRec)
    BY <1>2, <2>3 DEF Promote, Begin
  <2>5. HolderInv'
    BY <2>3, <2>4 DEF HolderInv, NeedLocal
  <2> QED
    BY <1>2, <2>4, <2>5 DEF Promote, Begin, TypeOK, StepRec, disk
<1>3. CASE TrainCannotLoad
  <2>1. TypeOK'
    BY <1>3 DEF TrainCannotLoad, TypeOK, disk
  <2> QED
    BY <1>3, <2>1 DEF TrainCannotLoad, HolderInv
<1>4. ASSUME NEW v \in DOMAIN registry, Rollback(v) PROVE TypeInv'
  <2>1. v \in Versions /\ "production" \in Stages
    BY DEF TypeOK, Versions, Stages
  <2>2. Archived(registry) \in Seq(Meta) /\ Len(Archived(registry)) = Len(registry)
        /\ v \in DOMAIN Archived(registry)
    BY ArchivedType DEF TypeOK
  <2>3. registry' \in Seq(Meta) /\ Len(registry') <= MaxVersions
    BY <1>4, <2>1, <2>2, SetStageType DEF Rollback, TypeOK
  <2>4. todo' = << Step("relink", v), Step("load", v), Step("saveRegistry", v) >>
    BY <1>4 DEF Rollback, Begin
  <2>5. todo' \in Seq(StepRec) /\ HolderInv'
    BY <2>1, <2>4 DEF Step, StepRec, StepNames, HolderInv, NeedLocal
  <2> QED
    BY <1>4, <2>3, <2>5 DEF Rollback, Begin, TypeOK, StepRec, disk
<1>5. CASE TrainExisting
  <2>1. ActiveVersion \in Versions
    BY <1>5, ActiveVersionType DEF TrainExisting, TypeOK
  <2>2. todo' \in Seq(StepRec)
    BY <1>5, <2>1, TrainStepsType DEF TrainExisting, Begin
  <2>3. /\ local' \in Objs /\ active' \in Objs
        /\ heap' \in [Objs -> Policy]
    <3>1. CASE active # NoObj
      BY <1>5, <3>1 DEF TrainExisting, TypeOK
    <3>2. CASE active = NoObj
      <4>1. PICK o \in FreeObjs :
              /\ model[ActiveVersion] \notin {Torn, Missing}
              /\ NewPolicy(o, ActiveVersion, model[ActiveVersion])
              /\ active' = o
              /\ local' = o
        BY <1>5, <3>2 DEF TrainExisting
      <4>2. model[ActiveVersion] \in Weights /\ ActiveVersion \in 0..MaxVersions
        BY <2>1, <4>1 DEF TypeOK, Versions
      <4> QED
        BY <4>1, <4>2, NewPolicyType DEF FreeObjs, TypeOK
    <3> QED
      BY <3>1, <3>2
  <2> QED
    BY <1>5, <2>2, <2>3, BeginHolder DEF TrainExisting, Begin, TypeOK, StepRec, disk
<1>6. CASE TrainFirst
  <2> DEFINE v == Len(registry) + 1
  <2>1. v \in Versions /\ "promote" \in StepNames
    BY <1>6 DEF TrainFirst, TypeOK, Versions, StepNames
  <2>2. PICK o \in FreeObjs : NewPolicy(o, v, {}) /\ local' = o
    BY <1>6 DEF TrainFirst
  <2>3. heap' \in [Objs -> Policy] /\ local' \in Objs
    BY <2>1, <2>2, NewPolicyType DEF FreeObjs, TypeOK, Weights, Versions
  <2>4. Step("promote", v) \in StepRec
    BY <2>1, StepType
  <2>5. [i \in 1..3 |-> Step("promote", v)] \in Seq(StepRec)
    BY <2>4
  <2>6. todo' = CreateSteps(v) \o [i \in 1..3 |-> Step("promote", v)] \o TrainSteps(v)
    BY <1>6 DEF TrainFirst, Begin
  <2>7. todo' \in Seq(StepRec)
    <3> HIDE DEF v
    <3> QED
      BY <2>1, <2>5, <2>6, CreateStepsType, TrainStepsType
  <2> QED
    BY <1>6, <2>3, <2>7, BeginHolder DEF TrainFirst, Begin, TypeOK, StepRec, disk
<1> QED
  BY <1>1, <1>2, <1>3, <1>4, <1>5, <1>6
-----------------------------------------------------------------------------
LEMMA AtFacts ==
  ASSUME TypeInv, NEW name, At(name)
  PROVE  /\ todo \in Seq(StepRec) /\ todo # <<>>
         /\ Head(todo) \in StepRec /\ Ver \in Versions
         /\ name \in NeedLocal => local \in Objs
<1>1. todo \in Seq(StepRec) /\ todo # <<>>
  BY DEF TypeInv, TypeOK, StepRec, At
<1>2. Head(todo) \in StepRec /\ Head(todo) = todo[1] /\ 1 \in DOMAIN todo
  BY <1>1
<1> QED
  BY <1>1, <1>2 DEF StepRec, Ver, At, TypeInv, HolderInv

LEMMA ProceedNone ==
  ASSUME TypeInv, todo # <<>>, Proceed(<<>>)
  PROVE  todo' \in Seq(StepRec) /\ local' \in Objs \cup {NoObj} /\ HolderInv'
<1>1. <<>> \in Seq(StepRec) /\ \A i \in DOMAIN <<>> : <<>>[i].do \notin NeedLocal
  OBVIOUS
<1>2. todo \in Seq(StepRec) /\ HolderInv /\ local \in Objs \cup {NoObj}
  BY DEF TypeInv, TypeOK, StepRec
<1> QED
  BY <1>1, <1>2, ProceedType

(* Every step of a running operation preserves TypeInv.                    *)
LEMMA StepTypeInv ==
  ASSUME TypeInv,
         \/ SaveModel \/ Register \/ SaveRegistry \/ PromoteStep \/ Relink
         \/ LoadActive \/ LoadFails \/ Learn \/ LearnFails \/ SaveMeta \/ Refresh
  PROVE  TypeInv'
<1> USE PolicyAssumption DEF TypeInv
<1>1. CASE SaveModel
  <2>1. local \in Objs /\ Ver \in Versions /\ todo # <<>>
    BY <1>1, AtFacts DEF SaveModel, NeedLocal
  <2>2. heap[local].weights \in Weights
    BY <2>1 DEF TypeOK, Policy
  <2>3. model' \in [Versions -> {Torn, Missing} \cup Weights]
    BY <1>1, <2>1, <2>2 DEF SaveModel, TypeOK
  <2> QED
    BY <1>1, <2>1, <2>3, ProceedNone DEF SaveModel, TypeOK, StepRec
<1>2. CASE Register
  <2>1. Ver \in Versions /\ todo # <<>> /\ Ver = Len(registry) + 1
    BY <1>2, AtFacts DEF Register
  <2>2. [stage |-> "candidate", steps |-> 0] \in Meta
    BY DEF Meta, Stages
  <2>3. registry' \in Seq(Meta) /\ Len(registry') <= MaxVersions
    BY <1>2, <2>1, <2>2 DEF Register, TypeOK, Versions
  <2> QED
    BY <1>2, <2>1, <2>3, ProceedNone DEF Register, TypeOK, StepRec, disk
<1>3. CASE SaveRegistry
  BY <1>3, AtFacts, ProceedNone DEF SaveRegistry, TypeOK, StepRec
<1>4. CASE PromoteStep
  <2> DEFINE next == NextStage[registry[Ver].stage]
  <2>1. /\ Ver \in Versions /\ Ver \in DOMAIN registry /\ todo # <<>>
        /\ next \in Stages /\ "production" \in Stages
    BY <1>4, AtFacts, NextStageType DEF PromoteStep, Stages
  <2>2. registry' \in Seq(Meta) /\ Len(registry') <= MaxVersions
    <3>1. CASE next = "production"
      <4>1. registry' = [Archived(registry) EXCEPT ![Ver].stage = "production"]
        BY <1>4, <3>1 DEF PromoteStep
      <4> QED
        BY <2>1, <4>1, ArchivedType, SetStageType DEF TypeOK
    <3>2. CASE next # "production"
      <4>1. registry' = [registry EXCEPT ![Ver].stage = next]
        BY <1>4, <3>2 DEF PromoteStep
      <4> QED
        BY <2>1, <4>1, SetStageType DEF TypeOK
    <3> QED
      BY <3>1, <3>2
  <2>3. todo' \in Seq(StepRec) /\ local' \in Objs \cup {NoObj} /\ HolderInv'
    <3>1. PICK pushed \in { << Step("saveRegistry", Ver) >>,
                           << Step("relink", Ver), Step("load", Ver), Step("saveRegistry", Ver) >> } :
            Proceed(pushed)
      BY <1>4 DEF PromoteStep
    <3>2. /\ pushed \in Seq(StepRec)
          /\ \A i \in DOMAIN pushed : pushed[i].do \notin NeedLocal
      <4>1. CASE pushed = << Step("saveRegistry", Ver) >>
        BY <2>1, <4>1 DEF Step, StepRec, StepNames, NeedLocal
      <4>2. CASE pushed = << Step("relink", Ver), Step("load", Ver), Step("saveRegistry", Ver) >>
        BY <2>1, <4>2 DEF Step, StepRec, StepNames, NeedLocal
      <4> QED
        BY <3>1, <4>1, <4>2
    <3>3. todo \in Seq(StepRec) /\ HolderInv /\ local \in Objs \cup {NoObj}
      BY DEF TypeOK, StepRec
    <3> QED
      BY <2>1, <3>1, <3>2, <3>3, ProceedType
  <2> QED
    BY <1>4, <2>2, <2>3 DEF PromoteStep, TypeOK, StepRec, disk
<1>5. CASE Relink
  BY <1>5, AtFacts, ProceedNone DEF Relink, TypeOK, StepRec, Versions
<1>6. CASE LoadActive
  <2>1. Ver \in Versions /\ todo # <<>> /\ model[Ver] \in Weights
    BY <1>6, AtFacts DEF LoadActive, TypeOK
  <2>2. PICK o \in FreeObjs : NewPolicy(o, Ver, model[Ver]) /\ active' = o
    BY <1>6 DEF LoadActive
  <2>3. heap' \in [Objs -> Policy] /\ active' \in Objs
    BY <2>1, <2>2, NewPolicyType DEF FreeObjs, TypeOK, Versions
  <2> QED
    BY <1>6, <2>1, <2>3, ProceedNone DEF LoadActive, TypeOK, StepRec, disk
<1>7. CASE LoadFails
  BY <1>7 DEF LoadFails, Raise, TypeOK, HolderInv, disk
<1>8. CASE Learn
  <2>1. local \in Objs /\ todo # <<>> /\ iter' \in 0..MaxTrains
    BY <1>8, AtFacts DEF Learn, TypeOK, NeedLocal
  <2>2. heap[local].weights \cup {iter'} \in Weights /\ heap[local].steps + 1 \in Nat
    BY <2>1 DEF TypeOK, Policy, Weights
  <2>3. heap' \in [Objs -> Policy]
    BY <1>8, <2>1, <2>2 DEF Learn, TypeOK, Policy
  <2> QED
    BY <1>8, <2>1, <2>3, ProceedNone DEF Learn, TypeOK, StepRec, disk
<1>9. CASE LearnFails
  <2>1. local \in Objs /\ iter' \in 0..MaxTrains
    BY <1>9, AtFacts DEF LearnFails, TypeOK, NeedLocal
  <2>2. PICK w \in {{}, {iter'}} : heap' = [heap EXCEPT ![local].weights = @ \cup w]
    BY <1>9 DEF LearnFails
  <2>3. heap[local].weights \cup w \in Weights
    BY <2>1, <2>2 DEF TypeOK, Policy, Weights
  <2>4. heap' \in [Objs -> Policy]
    BY <2>1, <2>2, <2>3 DEF TypeOK, Policy
  <2> QED
    BY <1>9, <2>1, <2>4 DEF LearnFails, Raise, TypeOK, HolderInv, disk
<1>10. CASE SaveMeta
  <2>1. local \in Objs /\ todo # <<>>
    BY <1>10, AtFacts DEF SaveMeta, NeedLocal
  <2>2. heap[local].steps \in Nat
    BY <2>1 DEF TypeOK, Policy
  <2>3. registry' \in Seq(Meta) /\ Len(registry') <= MaxVersions
    <3>1. registry[Ver] \in Meta
      BY <1>10 DEF SaveMeta, TypeOK
    <3>2. [registry[Ver] EXCEPT !.steps = heap[local].steps] \in Meta
      BY <2>2, <3>1 DEF Meta
    <3> QED
      BY <1>10, <3>2 DEF SaveMeta, TypeOK
  <2> QED
    BY <1>10, <2>1, <2>3, ProceedNone DEF SaveMeta, TypeOK, StepRec, disk
<1>11. CASE Refresh
  <2>1. local \in Objs /\ todo # <<>>
    BY <1>11, AtFacts DEF Refresh, NeedLocal
  <2> QED
    BY <1>11, <2>1, ProceedNone DEF Refresh, TypeOK, StepRec, disk
<1> QED
  BY <1>1, <1>2, <1>3, <1>4, <1>5, <1>6, <1>7, <1>8, <1>9, <1>10, <1>11
-----------------------------------------------------------------------------
(* The death of the process and its restart preserve TypeInv.              *)
LEMMA CrashTypeInv == TypeInv /\ Crash => TypeInv'
<1> SUFFICES ASSUME TypeInv, Crash PROVE TypeInv'
  OBVIOUS
<1> USE PolicyAssumption DEF TypeInv
<1>1. heap' \in [Objs -> Policy]
  BY DEF Crash, Blank, Policy, Weights
<1>2. /\ model' \in [Versions -> {Torn, Missing} \cup Weights]
      /\ link' \in 0..MaxVersions
      /\ file' = Torn \/ (file' \in Seq(Meta) /\ Len(file') <= MaxVersions)
  <2>1. CASE UNCHANGED disk
    BY <2>1 DEF TypeOK, disk
  <2>2. CASE At("saveModel") /\ model' = [model EXCEPT ![Ver] = Torn] /\ UNCHANGED <<file, link>>
    BY <2>2 DEF TypeOK
  <2>3. CASE At("saveRegistry") /\ file' = Torn /\ UNCHANGED <<model, link>>
    BY <2>3 DEF TypeOK
  <2>4. CASE At("relink") /\ link' = 0 /\ UNCHANGED <<file, model>>
    BY <2>4 DEF TypeOK
  <2> QED
    BY <2>1, <2>2, <2>3, <2>4 DEF Crash
<1>3. todo' = <<>> /\ todo' \in Seq(StepRec) /\ HolderInv'
  BY DEF Crash, HolderInv
<1>4. up' \in BOOLEAN /\ aborted' \in BOOLEAN
  BY Zenon DEF Crash
<1>5. registry' \in Seq(Meta) /\ Len(registry') <= MaxVersions
  BY DEF Crash
<1> QED
  BY <1>1, <1>2, <1>3, <1>4, <1>5 DEF Crash, TypeOK, StepRec

LEMMA ConnectTypeInv == TypeInv /\ Connect => TypeInv'
<1> SUFFICES ASSUME TypeInv, Connect PROVE TypeInv'
  OBVIOUS
<1> USE PolicyAssumption DEF TypeInv
<1>1. registry' \in Seq(Meta) /\ Len(registry') <= MaxVersions
  BY DEF Connect, TypeOK
<1>2. /\ heap' \in [Objs -> Policy]
      /\ active' \in Objs \cup {NoObj}
      /\ selector' \in Objs \cup {NoObj}
  <2>1. CASE InProduction(file) = {}
    BY <2>1 DEF Connect, TypeOK
  <2>2. CASE InProduction(file) # {}
    <3>1. PICK v \in InProduction(file), o \in Objs :
            /\ model[v] \notin {Torn, Missing}
            /\ NewPolicy(o, v, model[v])
            /\ active' = o
            /\ selector' = o
      BY <2>2 DEF Connect
    <3>2. v \in Versions
      BY <3>1 DEF Connect, TypeOK, InProduction, Versions
    <3>3. model[v] \in Weights
      BY <3>1, <3>2 DEF TypeOK
    <3> QED
      BY <3>1, <3>2, <3>3, NewPolicyType DEF TypeOK, Versions
  <2> QED
    BY <2>1, <2>2
<1>3. HolderInv'
  BY DEF Connect, HolderInv
<1>4. up' \in BOOLEAN
  BY Zenon DEF Connect
<1> QED
  BY <1>1, <1>2, <1>3, <1>4 DEF Connect, TypeOK, StepRec, disk

LEMMA TypeInvInductive == TypeInv /\ [Next]_vars => TypeInv'
<1> SUFFICES ASSUME TypeInv, [Next]_vars PROVE TypeInv'
  OBVIOUS
<1>1. CASE UNCHANGED vars
  BY <1>1 DEF vars, memory, disk, TypeInv, TypeOK, HolderInv
<1>2. CASE Next
  BY <1>2, BeginTypeInv, StepTypeInv, CrashTypeInv, ConnectTypeInv DEF Next
<1> QED
  BY <1>1, <1>2

(* Every reachable state has the types TypeOK gives, whatever the number   *)
(* of policies, objects and training iterations.                           *)
THEOREM TypeCorrect == Spec => []TypeOK
<1>1. Spec => []TypeInv
  BY InitTypeInv, TypeInvInductive, PTL DEF Spec
<1>2. TypeInv => TypeOK
  BY DEF TypeInv
<1> QED
  BY <1>1, <1>2, PTL
-----------------------------------------------------------------------------
(* AtMostOneProduction is inductive relative to the types: the file only   *)
(* ever receives the registry, and a stage becomes "production" only after *)
(* the registry has been archived.                                         *)
LEMMA OneProductionInductive ==
  TypeInv /\ AtMostOneProduction /\ [Next]_vars => AtMostOneProduction'
<1> SUFFICES ASSUME TypeInv, AtMostOneProduction, [Next]_vars
             PROVE  AtMostOneProduction'
  OBVIOUS
<1> USE DEF TypeInv
<1>1. CASE UNCHANGED <<registry, file>>
  BY <1>1 DEF AtMostOneProduction, InProduction
<1>2. ASSUME NEW v \in DOMAIN registry, Rollback(v) PROVE AtMostOneProduction'
  BY <1>2, OneProduction DEF Rollback, AtMostOneProduction, InProduction, TypeOK, disk
<1>3. CASE Register
  <2>1. \A w \in InProduction(registry') : w \in InProduction(registry)
    BY <1>3 DEF Register, InProduction, TypeOK
  <2> QED
    BY <1>3, <2>1 DEF Register, AtMostOneProduction, disk
<1>4. CASE SaveRegistry
  BY <1>4 DEF SaveRegistry, AtMostOneProduction
<1>5. CASE PromoteStep
  <2> DEFINE next == NextStage[registry[Ver].stage]
  <2>1. Ver \in DOMAIN registry /\ registry \in Seq(Meta) /\ UNCHANGED file
    BY <1>5 DEF PromoteStep, TypeOK, disk
  <2>2. CASE next = "production"
    <3>1. registry' = [Archived(registry) EXCEPT ![Ver].stage = "production"]
      BY <1>5, <2>2 DEF PromoteStep
    <3>2. \A w \in InProduction(registry') : w = Ver
      BY <2>1, <3>1, OneProduction
    <3> QED
      BY <2>1, <3>2 DEF AtMostOneProduction
  <2>3. CASE next # "production"
    <3>1. registry' = [registry EXCEPT ![Ver].stage = next]
      BY <1>5, <2>3 DEF PromoteStep
    <3>2. \A w \in InProduction(registry') : w \in InProduction(registry)
      BY <2>1, <2>3, <3>1 DEF InProduction
    <3> QED
      BY <2>1, <3>2 DEF AtMostOneProduction
  <2> QED
    BY <2>2, <2>3
<1>6. CASE SaveMeta
  <2>1. \A w \in InProduction(registry') : w \in InProduction(registry)
    BY <1>6 DEF SaveMeta, InProduction, TypeOK
  <2> QED
    BY <1>6, <2>1 DEF SaveMeta, AtMostOneProduction, disk
<1>7. CASE Crash
  <2>1. InProduction(registry') = {}
    BY <1>7 DEF Crash, InProduction
  <2>2. file' = file \/ file' = Torn
    BY <1>7 DEF Crash, disk
  <2> QED
    BY <2>1, <2>2 DEF AtMostOneProduction
<1>8. CASE Connect
  BY <1>8 DEF Connect, AtMostOneProduction, disk
<1> QED
  BY <1>1, <1>2, <1>3, <1>4, <1>5, <1>6, <1>7, <1>8
     DEF Next, vars, memory, disk, CreatePolicy, Promote, TrainExisting, TrainCannotLoad,
         TrainFirst, SaveModel, Relink, LoadActive, LoadFails, Learn, LearnFails, Refresh

(* The registry never holds two production policies, in memory or on disk. *)
THEOREM OnlyOneProduction == Spec => []AtMostOneProduction
<1>1. Init => AtMostOneProduction
  BY DEF Init, Seeded, AtMostOneProduction, InProduction
<1>2. Spec => []TypeInv
  BY InitTypeInv, TypeInvInductive, PTL DEF Spec
<1> QED
  BY <1>1, <1>2, OneProductionInductive, PTL DEF Spec
-----------------------------------------------------------------------------
(* A pending "register" step has its checkpoint on disk, or comes right    *)
(* after the "saveModel" step that writes it.                              *)
PendingRegister ==
  \A i \in DOMAIN todo : todo[i].do = "register" =>
    \/ model[todo[i].v] # Missing
    \/ i = 2 /\ todo[1] = Step("saveModel", todo[i].v)

CheckpointInv ==
  /\ \A v \in DOMAIN registry : model[v] # Missing
  /\ RegisteredHasCheckpoint
  /\ PendingRegister

(* No step takes a checkpoint away.                                        *)
LEMMA CheckpointStays ==
  ASSUME TypeInv, [Next]_vars, NEW v \in Versions, model[v] # Missing
  PROVE  model'[v] # Missing
<1>1. CASE SaveModel
  <2>1. local \in Objs
    BY <1>1, AtFacts DEF SaveModel, NeedLocal
  <2>2. heap[local].weights \in SUBSET (0..MaxTrains)
    BY <2>1 DEF TypeInv, TypeOK, Policy, Weights
  <2>3. heap[local].weights # Missing
    BY <2>2, PolicyAssumption
  <2> QED
    BY <1>1, <2>3 DEF SaveModel, TypeInv, TypeOK
<1>2. CASE Crash
  BY <1>2, PolicyAssumption DEF Crash, disk, TypeInv, TypeOK
<1>3. CASE UNCHANGED model
  BY <1>3
<1> QED
  BY <1>1, <1>2, <1>3
     DEF Next, vars, memory, disk, CreatePolicy, Promote, Rollback, TrainExisting,
         TrainCannotLoad, TrainFirst, Register, SaveRegistry, PromoteStep, Relink,
         LoadActive, LoadFails, Learn, LearnFails, SaveMeta, Refresh, Connect

(* A step that drops the head of todo and pushes no "register" keeps       *)
(* PendingRegister, if that head did its work.                             *)
LEMMA PendingProceed ==
  ASSUME TypeInv, TypeInv', PendingRegister, [Next]_vars, todo # <<>>,
         NEW next \in Seq(StepRec), \A i \in DOMAIN next : next[i].do # "register",
         Proceed(next),
         Head(todo).do = "saveModel" => model'[Ver] # Missing
  PROVE  PendingRegister'
<1> SUFFICES ASSUME NEW i \in DOMAIN todo', todo'[i].do = "register"
             PROVE  model'[todo'[i].v] # Missing
  BY DEF PendingRegister
<1>1. todo' = next \o Tail(todo) /\ todo \in Seq(StepRec) /\ todo' \in Seq(StepRec)
  BY DEF Proceed, TypeInv, TypeOK, StepRec
<1>2. i \in 1..(Len(next) + Len(Tail(todo))) /\ i > Len(next)
  BY <1>1
<1> DEFINE j == i - Len(next) + 1
<1>3. j \in DOMAIN todo /\ todo[j] = todo'[i] /\ j > 1
  BY <1>1, <1>2
<1>7. todo[j] \in StepRec
  BY <1>1, <1>3
<1>4. todo[j].v \in Versions
  BY <1>7 DEF StepRec
<1>5. CASE model[todo[j].v] # Missing
  BY <1>3, <1>4, <1>5, CheckpointStays
<1>6. CASE todo[1] = Step("saveModel", todo[j].v)
  <2>1. Head(todo) = todo[1]
    BY <1>1
  <2> QED
    BY <1>3, <1>6, <2>1 DEF Step, Ver
<1> QED
  BY <1>3, <1>5, <1>6 DEF PendingRegister

(* create_policy and the first train_policy put "register" second.         *)
LEMMA PendingCreate ==
  ASSUME NEW v \in Versions, NEW rest \in Seq(StepRec),
         \A i \in DOMAIN rest : rest[i].do # "register",
         todo' = CreateSteps(v) \o rest
  PROVE  PendingRegister'
<1>1. PICK first \in Seq(StepRec) : first = CreateSteps(v)
  BY CreateStepsType
<1>2. /\ Len(first) = 3
      /\ first[1] = Step("saveModel", v)
      /\ first[2] = Step("register", v)
      /\ first[3] = Step("saveRegistry", v)
  BY <1>1 DEF CreateSteps
<1>3. PICK all : all = first \o rest
  OBVIOUS
<1>4. /\ DOMAIN all = 1..(3 + Len(rest))
      /\ \A i \in 1..3 : all[i] = first[i]
      /\ \A i \in 4..(3 + Len(rest)) : all[i] = rest[i - 3] /\ i - 3 \in DOMAIN rest
  <2>5. Len(rest) \in Nat
    OBVIOUS
  <2>6. all \in Seq(StepRec)
    BY <1>3
  <2>7. Len(all) = Len(first) + Len(rest)
    BY <1>3
  <2>1. all \in Seq(StepRec) /\ Len(all) = 3 + Len(rest) /\ Len(rest) \in Nat
    BY <1>2, <2>5, <2>6, <2>7
  <2>2. DOMAIN all = 1..(3 + Len(rest)) /\ DOMAIN rest = 1..Len(rest)
    BY <2>1
  <2>3. \A i \in 1..3 : all[i] = first[i]
    BY <1>2, <1>3, <2>1
  <2>4. ASSUME NEW i \in 4..(3 + Len(rest))
        PROVE  all[i] = rest[i - 3] /\ i - 3 \in DOMAIN rest
    BY <1>2, <1>3, <2>1, <2>2
  <2> QED
    BY <2>2, <2>3, <2>4
<1>5. \A i \in DOMAIN all : all[i].do = "register" => i = 2
  BY <1>2, <1>4 DEF Step
<1>6. all[1] = Step("saveModel", v) /\ all[2].v = v
  BY <1>2, <1>4 DEF Step
<1>7. todo' = all
  BY <1>1, <1>3
<1> QED
  BY <1>5, <1>6, <1>7 DEF PendingRegister

LEMMA TrainStepsNoRegister ==
  ASSUME NEW v \in Versions
  PROVE  \A i \in DOMAIN TrainSteps(v) : TrainSteps(v)[i].do # "register"
BY DEF TrainSteps, Step

LEMMA PendingInductive ==
  ASSUME TypeInv, TypeInv', PendingRegister, [Next]_vars
  PROVE  PendingRegister'
<1> USE DEF TypeInv
<1>1. CASE todo' = <<>>
  BY <1>1 DEF PendingRegister
<1>2. CASE todo' = todo
  <2>1. \A i \in DOMAIN todo : todo[i].v \in Versions
    <3>1. todo \in Seq(StepRec)
      BY DEF TypeOK, StepRec
    <3>2. \A i \in DOMAIN todo : todo[i] \in StepRec
      BY <3>1
    <3> QED
      BY <3>2 DEF StepRec
  <2> QED
    BY <1>2, <2>1, CheckpointStays DEF PendingRegister
<1>3. CASE CreatePolicy
  <2> DEFINE v == Len(registry) + 1
  <2>1. v \in Versions
    BY <1>3, PolicyAssumption DEF CreatePolicy, TypeOK, Versions
  <2>3. todo' = CreateSteps(v)
    BY <1>3 DEF CreatePolicy, Begin
  <2>2. \A i \in DOMAIN CreateSteps(v) :
          CreateSteps(v)[i].do = "register" =>
            i = 2 /\ CreateSteps(v)[1] = Step("saveModel", CreateSteps(v)[i].v)
    BY DEF CreateSteps, Step
  <2> QED
    BY <2>2, <2>3 DEF PendingRegister
<1>4. ASSUME NEW v \in DOMAIN registry, Promote(v) PROVE PendingRegister'
  BY <1>4 DEF Promote, Begin, Step, PendingRegister
<1>5. ASSUME NEW v \in DOMAIN registry, Rollback(v) PROVE PendingRegister'
  BY <1>5 DEF Rollback, Begin, Step, PendingRegister
<1>6. CASE TrainExisting
  <2>1. ActiveVersion \in Versions /\ todo' = TrainSteps(ActiveVersion)
    BY <1>6, ActiveVersionType DEF TrainExisting, Begin, TypeOK
  <2> QED
    BY <2>1, TrainStepsNoRegister DEF PendingRegister
<1>7. CASE TrainFirst
  <2>1. PICK v : v = Len(registry) + 1
    OBVIOUS
  <2>2. v \in Versions /\ "promote" \in StepNames
    <3>1. Len(registry) \in Nat /\ Len(registry) < MaxVersions
      BY <1>7 DEF TrainFirst, TypeOK
    <3> QED
      BY <2>1, <3>1, PolicyAssumption DEF Versions, StepNames
  <2>3. PICK p : p = [i \in 1..3 |-> Step("promote", v)]
    OBVIOUS
  <2>4. p \in Seq(StepRec) /\ Len(p) = 3 /\ \A i \in 1..3 : p[i].do = "promote"
    <3>1. Step("promote", v) \in StepRec
      BY <2>2, StepType
    <3>2. \A i \in 1..3 : p[i].do = "promote"
      BY <2>3 DEF Step
    <3>3. PICK st \in StepRec : st = Step("promote", v)
      BY <3>1
    <3>4. [i \in 1..3 |-> st] \in Seq(StepRec) /\ Len([i \in 1..3 |-> st]) = 3
      OBVIOUS
    <3> QED
      BY <2>3, <3>2, <3>3, <3>4
  <2>5. PICK t \in Seq(StepRec) : t = TrainSteps(v)
    BY <2>2, TrainStepsType
  <2>6. \A i \in DOMAIN t : t[i].do # "register"
    BY <2>2, <2>5, TrainStepsNoRegister
  <2>7. PICK rest : rest = p \o t
    OBVIOUS
  <2>8. rest \in Seq(StepRec) /\ Len(rest) = 3 + Len(t) /\ Len(t) \in Nat
    <3>1. rest \in Seq(StepRec)
      BY <2>4, <2>7
    <3>2. Len(rest) = Len(p) + Len(t)
      <4>1. p \in Seq(StepRec)
        BY <2>4
      <4> QED
        BY <4>1, <2>7
    <3>3. Len(t) \in Nat
      OBVIOUS
    <3> QED
      BY <2>4, <3>1, <3>2, <3>3
  <2>9. \A i \in DOMAIN rest : rest[i].do # "register"
    <3> SUFFICES ASSUME NEW i \in 1..(3 + Len(t)) PROVE rest[i].do # "register"
      BY <2>8
    <3>1. CASE i \in 1..3
      BY <2>4, <2>7, <2>8, <3>1
    <3>2. CASE i > 3
      <4>1. rest[i] = t[i - 3] /\ i - 3 \in 1..Len(t)
        BY <2>4, <2>7, <2>8, <3>2
      <4> QED
        BY <2>6, <4>1
    <3> QED
      BY <3>1, <3>2
  <2>10. todo' = CreateSteps(v) \o rest
    <3>1. PICK c \in Seq(StepRec) : c = CreateSteps(v)
      BY <2>2, CreateStepsType
    <3>2. todo' = c \o p \o t
      BY <1>7, <2>1, <2>3, <2>5, <3>1 DEF TrainFirst, Begin
    <3> QED
      BY <2>7, <3>1, <3>2
  <2> QED
    BY <2>2, <2>8, <2>9, <2>10, PendingCreate
<1>8. CASE SaveModel
  <2>1. /\ todo # <<>> /\ Proceed(<<>>)
        /\ local \in Objs /\ Ver \in Versions
    BY <1>8, AtFacts DEF SaveModel, NeedLocal
  <2>2. heap[local].weights # Missing
    BY <2>1, PolicyAssumption DEF TypeOK, Policy, Weights
  <2>3. model'[Ver] # Missing
    BY <1>8, <2>1, <2>2 DEF SaveModel, TypeOK
  <2>4. <<>> \in Seq(StepRec) /\ \A i \in DOMAIN <<>> : <<>>[i].do # "register"
    OBVIOUS
  <2> QED
    BY <2>1, <2>3, <2>4, PendingProceed
<1>9. ASSUME NEW name, At(name), name # "saveModel", Proceed(<<>>)
      PROVE  PendingRegister'
  <2>1. todo # <<>> /\ Head(todo).do # "saveModel"
    BY <1>9 DEF At
  <2>2. <<>> \in Seq(StepRec) /\ \A i \in DOMAIN <<>> : <<>>[i].do # "register"
    OBVIOUS
  <2> QED
    BY <1>9, <2>1, <2>2, PendingProceed
<1>10. CASE PromoteStep
  <2>1. Ver \in Versions /\ todo # <<>> /\ Head(todo).do = "promote"
    BY <1>10, AtFacts DEF PromoteStep, At
  <2>2. PICK pushed \in { << Step("saveRegistry", Ver) >>,
                         << Step("relink", Ver), Step("load", Ver), Step("saveRegistry", Ver) >> } :
          Proceed(pushed)
    BY <1>10 DEF PromoteStep
  <2>3. pushed \in Seq(StepRec) /\ \A i \in DOMAIN pushed : pushed[i].do # "register"
    <3>1. CASE pushed = << Step("saveRegistry", Ver) >>
      BY <2>1, <3>1 DEF Step, StepRec, StepNames
    <3>2. CASE pushed = << Step("relink", Ver), Step("load", Ver), Step("saveRegistry", Ver) >>
      BY <2>1, <3>2 DEF Step, StepRec, StepNames
    <3> QED
      BY <2>2, <3>1, <3>2
  <2> QED
    BY <2>1, <2>2, <2>3, PendingProceed
<1> QED
  BY <1>1, <1>2, <1>3, <1>4, <1>5, <1>6, <1>7, <1>8, <1>9, <1>10
     DEF Next, vars, memory, TrainCannotLoad, Register, SaveRegistry, Relink, LoadActive,
         LoadFails, Learn, LearnFails, Raise, SaveMeta, Refresh, Crash, Connect
-----------------------------------------------------------------------------
(* Only Register and Connect give the registry an entry it did not have.   *)
LEMMA RegistryDomain ==
  ASSUME TypeInv, [Next]_vars, ~Register, ~Connect
  PROVE  DOMAIN registry' \subseteq DOMAIN registry
<1>1. ASSUME NEW v \in DOMAIN registry, Rollback(v)
      PROVE  DOMAIN registry' \subseteq DOMAIN registry
  BY <1>1 DEF Rollback, Archived
<1>2. CASE PromoteStep
  BY <1>2 DEF PromoteStep, Archived
<1>3. CASE SaveMeta
  BY <1>3 DEF SaveMeta
<1>4. CASE Crash
  BY <1>4 DEF Crash
<1>5. CASE UNCHANGED registry
  BY <1>5
<1> QED
  BY <1>1, <1>2, <1>3, <1>4, <1>5
     DEF Next, vars, memory, CreatePolicy, Promote, TrainExisting, TrainCannotLoad,
         TrainFirst, SaveModel, SaveRegistry, Relink, LoadActive, LoadFails, Learn,
         LearnFails, Refresh

LEMMA CheckpointInductive ==
  ASSUME TypeInv, TypeInv', CheckpointInv, [Next]_vars
  PROVE  CheckpointInv'
<1>1. PendingRegister'
  BY PendingInductive DEF CheckpointInv
<1>2. \A v \in DOMAIN registry' : model'[v] # Missing
  <2>1. CASE Register
    <3>1. todo[1] = Head(todo) /\ 1 \in DOMAIN todo /\ todo[1].do = "register" /\ Ver \in Versions
      BY <2>1, AtFacts DEF Register, At
    <3>2. model[Ver] # Missing
      BY <3>1 DEF CheckpointInv, PendingRegister, Ver, Step
    <3>3. registry \in Seq(Meta) /\ [stage |-> "candidate", steps |-> 0] \in Meta
      BY DEF TypeInv, TypeOK, Meta, Stages
    <3>4. DOMAIN registry' = DOMAIN registry \cup {Ver}
      BY <2>1, <3>3 DEF Register
    <3> QED
      BY <2>1, <3>2, <3>4 DEF Register, CheckpointInv, disk
  <2>2. CASE DOMAIN registry' \subseteq DOMAIN registry
    <3>1. DOMAIN registry \subseteq Versions
      BY PolicyAssumption DEF TypeInv, TypeOK, Versions
    <3> QED
      BY <2>2, <3>1, CheckpointStays DEF CheckpointInv
  <2>3. CASE Connect
    BY <2>3 DEF Connect, CheckpointInv, RegisteredHasCheckpoint, disk
  <2> QED
    BY <2>1, <2>2, <2>3, RegistryDomain
<1>3. RegisteredHasCheckpoint'
  <2>1. CASE file' = file
    <3>1. file # Torn => DOMAIN file \subseteq Versions
      BY PolicyAssumption DEF TypeInv, TypeOK, Versions
    <3> QED
      BY <2>1, <3>1, CheckpointStays DEF CheckpointInv, RegisteredHasCheckpoint
  <2>2. CASE file' = Torn
    BY <2>2 DEF RegisteredHasCheckpoint
  <2>3. CASE SaveRegistry
    BY <2>3 DEF SaveRegistry, CheckpointInv, RegisteredHasCheckpoint
  <2> QED
    BY <2>1, <2>2, <2>3
       DEF Next, vars, memory, disk, CreatePolicy, Promote, Rollback, TrainExisting,
           TrainCannotLoad, TrainFirst, SaveModel, Register, PromoteStep, Relink,
           LoadActive, LoadFails, Learn, LearnFails, SaveMeta, Refresh, Crash, Connect
<1> QED
  BY <1>1, <1>2, <1>3 DEF CheckpointInv

(* No crash leaves a registry.json that names a policy whose checkpoint    *)
(* was never written (create_policy writes the model first).               *)
THEOREM CheckpointBeforeRegistry == Spec => []RegisteredHasCheckpoint
<1>1. Init => CheckpointInv
  <2> SUFFICES ASSUME Init PROVE CheckpointInv
    OBVIOUS
  <2>1. PendingRegister /\ \A v \in DOMAIN registry : model[v] # Missing
    BY DEF Init, PendingRegister
  <2>2. RegisteredHasCheckpoint
    <3>1. {0} # Missing
      <4>1. {0} \in SUBSET (0..MaxTrains)
        BY PolicyAssumption
      <4> QED
        BY <4>1, PolicyAssumption
    <3>2. 1 \in Versions
      BY PolicyAssumption DEF Versions
    <3> QED
      BY <3>1, <3>2 DEF Init, Seeded, RegisteredHasCheckpoint
  <2> QED
    BY <2>1, <2>2 DEF CheckpointInv
<1>2. CheckpointInv => RegisteredHasCheckpoint
  BY DEF CheckpointInv
<1>3. Spec => []TypeInv
  BY InitTypeInv, TypeInvInductive, PTL DEF Spec
<1> QED
  BY <1>1, <1>2, <1>3, CheckpointInductive, PTL DEF Spec
-----------------------------------------------------------------------------
(* What an operation still owes the disk.  While the registry in memory is *)
(* ahead of registry.json, the next steps lead to saveRegistry, and the    *)
(* steps that will change it have theirs right behind them.  (A promote    *)
(* step brings its own.)                                                   *)
Owed(s) ==
  \E i \in DOMAIN s :
    s[i].do = "saveRegistry" /\ \A j \in 1..(i - 1) : s[j].do \in {"relink", "load"}

Changing == {"register", "saveMeta"}

Followed(s) ==
  \A i \in DOMAIN s :
    s[i].do \in Changing => i + 1 \in DOMAIN s /\ s[i + 1].do = "saveRegistry"

DurableInv ==
  /\ ~up => todo = <<>> /\ ~aborted
  /\ Followed(todo)
  /\ up /\ ~aborted /\ file # registry => Owed(todo)

LEMMA FollowedTail ==
  ASSUME NEW s \in Seq(StepRec), s # <<>>, Followed(s)
  PROVE  Tail(s) \in Seq(StepRec) /\ Followed(Tail(s))
<1>1. Tail(s) \in Seq(StepRec) /\ Len(Tail(s)) = Len(s) - 1 /\ Len(s) \in Nat
  OBVIOUS
<1>2. \A i \in 1..(Len(s) - 1) : Tail(s)[i] = s[i + 1]
  OBVIOUS
<1>3. DOMAIN Tail(s) = 1..(Len(s) - 1) /\ DOMAIN s = 1..Len(s)
  BY <1>1
<1> SUFFICES ASSUME NEW i \in 1..(Len(s) - 1), s[i + 1].do \in Changing
             PROVE  i + 1 \in 1..(Len(s) - 1) /\ Tail(s)[i + 1].do = "saveRegistry"
  BY <1>1, <1>2, <1>3 DEF Followed
<1>4. (i + 1) + 1 \in 1..Len(s) /\ s[(i + 1) + 1].do = "saveRegistry"
  BY <1>1, <1>3 DEF Followed
<1>5. i + 1 \in 1..(Len(s) - 1)
  BY <1>1, <1>4
<1> QED
  BY <1>2, <1>4, <1>5

LEMMA CatSteps ==
  ASSUME NEW s \in Seq(StepRec), NEW t \in Seq(StepRec)
  PROVE  /\ s \o t \in Seq(StepRec) /\ Len(s) \in Nat /\ Len(t) \in Nat
         /\ DOMAIN (s \o t) = 1..(Len(s) + Len(t))
         /\ DOMAIN s = 1..Len(s) /\ DOMAIN t = 1..Len(t)
         /\ \A i \in 1..Len(s) : (s \o t)[i] = s[i]
         /\ \A i \in 1..(Len(s) + Len(t)) : i > Len(s) => (s \o t)[i] = t[i - Len(s)]
<1>1. /\ s \o t \in Seq(StepRec) /\ Len(s) \in Nat /\ Len(t) \in Nat
      /\ Len(s \o t) = Len(s) + Len(t)
  OBVIOUS
<1>2. /\ DOMAIN (s \o t) = 1..(Len(s) + Len(t))
      /\ DOMAIN s = 1..Len(s) /\ DOMAIN t = 1..Len(t)
  BY <1>1
<1>3. /\ \A i \in 1..Len(s) : (s \o t)[i] = s[i]
      /\ \A i \in 1..(Len(s) + Len(t)) : i > Len(s) => (s \o t)[i] = t[i - Len(s)]
  BY <1>1
<1> QED
  BY <1>1, <1>2, <1>3

LEMMA FollowedCat ==
  ASSUME NEW s \in Seq(StepRec), NEW t \in Seq(StepRec), Followed(s), Followed(t)
  PROVE  s \o t \in Seq(StepRec) /\ Followed(s \o t)
<1>1. s \o t \in Seq(StepRec) /\ Len(s) \in Nat /\ Len(t) \in Nat
  BY CatSteps
<1>2. /\ DOMAIN (s \o t) = 1..(Len(s) + Len(t))
      /\ DOMAIN s = 1..Len(s) /\ DOMAIN t = 1..Len(t)
  BY CatSteps
<1>3. /\ \A i \in 1..Len(s) : (s \o t)[i] = s[i]
      /\ \A i \in 1..(Len(s) + Len(t)) : i > Len(s) => (s \o t)[i] = t[i - Len(s)]
  BY CatSteps
<1> SUFFICES ASSUME NEW i \in 1..(Len(s) + Len(t)), (s \o t)[i].do \in Changing
             PROVE  /\ i + 1 \in 1..(Len(s) + Len(t))
                    /\ (s \o t)[i + 1].do = "saveRegistry"
  BY <1>1, <1>2 DEF Followed
<1>4. CASE i <= Len(s)
  <2>1. i \in 1..Len(s) /\ s[i].do \in Changing
    BY <1>1, <1>3, <1>4
  <2>2. i + 1 \in 1..Len(s) /\ s[i + 1].do = "saveRegistry"
    BY <1>2, <2>1 DEF Followed
  <2> QED
    BY <1>1, <1>3, <2>2
<1>5. CASE i > Len(s)
  <2>1. i - Len(s) \in 1..Len(t) /\ t[i - Len(s)].do \in Changing
    BY <1>1, <1>3, <1>5
  <2>2. (i - Len(s)) + 1 \in 1..Len(t) /\ t[(i - Len(s)) + 1].do = "saveRegistry"
    BY <1>2, <2>1 DEF Followed
  <2>3. /\ (i - Len(s)) + 1 = (i + 1) - Len(s) /\ i + 1 > Len(s)
        /\ i + 1 \in 1..(Len(s) + Len(t))
    BY <1>1, <1>5, <2>2
  <2> QED
    BY <1>3, <2>2, <2>3
<1> QED
  BY <1>1, <1>4, <1>5

(* The lists of steps an operation begins with.                            *)
LEMMA FollowedLists ==
  ASSUME NEW v \in Versions
  PROVE  /\ CreateSteps(v) \in Seq(StepRec) /\ Followed(CreateSteps(v))
         /\ TrainSteps(v) \in Seq(StepRec) /\ Followed(TrainSteps(v))
         /\ Followed(<< Step("promote", v) >>)
         /\ Followed(<< Step("saveRegistry", v) >>)
         /\ Followed(<< Step("relink", v), Step("load", v), Step("saveRegistry", v) >>)
         /\ [i \in 1..3 |-> Step("promote", v)] \in Seq(StepRec)
         /\ Followed([i \in 1..3 |-> Step("promote", v)])
<1>1. Followed(CreateSteps(v))
  BY DEF CreateSteps, Step, Followed, Changing
<1>2. Followed(TrainSteps(v))
  BY DEF TrainSteps, Step, Followed, Changing
<1>3. Followed(<< Step("promote", v) >>) /\ Followed(<< Step("saveRegistry", v) >>)
  BY DEF Step, Followed, Changing
<1>4. Followed(<< Step("relink", v), Step("load", v), Step("saveRegistry", v) >>)
  BY DEF Step, Followed, Changing
<1>5. Step("promote", v) \in StepRec
  BY StepType DEF StepNames
<1>6. [i \in 1..3 |-> Step("promote", v)] \in Seq(StepRec)
  BY <1>5
<1>7. Followed([i \in 1..3 |-> Step("promote", v)])
  BY DEF Step, Followed, Changing
<1> QED
  BY <1>1, <1>2, <1>3, <1>4, <1>6, <1>7, CreateStepsType, TrainStepsType

LEMMA FollowedProceed ==
  ASSUME TypeInv, NEW name, At(name), Followed(todo),
         NEW next \in Seq(StepRec), Followed(next), Proceed(next)
  PROVE  Followed(todo')
<1>1. todo \in Seq(StepRec) /\ todo # <<>>
  BY AtFacts
<1>2. Tail(todo) \in Seq(StepRec) /\ Followed(Tail(todo))
  BY <1>1, FollowedTail
<1> QED
  BY <1>2, FollowedCat DEF Proceed

(* Where a plain step leaves what comes next.                              *)
LEMMA ProceedSteps ==
  ASSUME TypeInv, NEW name, At(name), Proceed(<<>>)
  PROVE  /\ todo' = Tail(todo) /\ todo' \in Seq(StepRec)
         /\ todo \in Seq(StepRec) /\ todo # <<>>
         /\ Len(todo) \in Nat /\ Len(todo') = Len(todo) - 1
         /\ \A i \in 1..(Len(todo) - 1) : todo'[i] = todo[i + 1]
         /\ todo[1] = Head(todo) /\ 1 \in DOMAIN todo
         /\ Followed(todo) => Followed(todo')
<1>1. todo \in Seq(StepRec) /\ todo # <<>>
  BY AtFacts
<1>2. todo' = Tail(todo) /\ Tail(todo) \in Seq(StepRec)
  BY <1>1 DEF Proceed
<1>3. /\ Len(todo) \in Nat /\ Len(Tail(todo)) = Len(todo) - 1
      /\ \A i \in 1..(Len(todo) - 1) : Tail(todo)[i] = todo[i + 1]
      /\ todo[1] = Head(todo) /\ 1 \in DOMAIN todo
  BY <1>1
<1> QED
  BY <1>1, <1>2, <1>3, FollowedTail

(* A step on the way to saveRegistry stays on it; any other step finds the *)
(* registry on disk.                                                       *)
LEMMA OwedTail ==
  ASSUME TypeInv, NEW name, At(name), Proceed(<<>>), Owed(todo), name # "saveRegistry"
  PROVE  name \in {"relink", "load"} /\ Owed(todo')
<1>1. PICK i \in DOMAIN todo :
        todo[i].do = "saveRegistry" /\ \A j \in 1..(i - 1) : todo[j].do \in {"relink", "load"}
  BY DEF Owed
<1>2. /\ todo' \in Seq(StepRec) /\ todo \in Seq(StepRec) /\ Len(todo) \in Nat
      /\ Len(todo') = Len(todo) - 1
      /\ \A k \in 1..(Len(todo) - 1) : todo'[k] = todo[k + 1]
      /\ todo[1] = Head(todo)
  BY ProceedSteps
<1>3. todo[1].do = name /\ i \in 1..Len(todo) /\ i > 1
  BY <1>1, <1>2 DEF At
<1>4. name \in {"relink", "load"}
  <2>1. 1 \in 1..(i - 1)
    BY <1>2, <1>3
  <2> QED
    BY <1>1, <1>3, <2>1
<1>5. i - 1 \in DOMAIN todo' /\ todo'[i - 1].do = "saveRegistry"
  BY <1>1, <1>2, <1>3
<1>6. ASSUME NEW j \in 1..((i - 1) - 1) PROVE todo'[j].do \in {"relink", "load"}
  <2>1. j \in 1..(Len(todo) - 1) /\ j + 1 \in 1..(i - 1)
    BY <1>2, <1>3
  <2> QED
    BY <1>1, <1>2, <2>1
<1> QED
  BY <1>4, <1>5, <1>6 DEF Owed

LEMMA OwedNext ==
  ASSUME TypeInv, NEW name \in Changing, At(name), Proceed(<<>>), Followed(todo)
  PROVE  Owed(todo')
<1>1. /\ todo' \in Seq(StepRec) /\ todo \in Seq(StepRec) /\ Len(todo) \in Nat
      /\ Len(todo') = Len(todo) - 1
      /\ \A k \in 1..(Len(todo) - 1) : todo'[k] = todo[k + 1]
      /\ todo[1] = Head(todo) /\ 1 \in DOMAIN todo
  BY ProceedSteps
<1>2. 1 + 1 \in DOMAIN todo /\ todo[1 + 1].do = "saveRegistry"
  BY <1>1 DEF Followed, At
<1>3. 1 \in DOMAIN todo' /\ todo'[1].do = "saveRegistry"
  BY <1>1, <1>2
<1>4. 1..(1 - 1) = {}
  OBVIOUS
<1> QED
  BY <1>3, <1>4 DEF Owed

(* promote and rollback put the way to saveRegistry in front.              *)
LEMMA OwedPushed ==
  ASSUME NEW v \in Versions, NEW rest \in Seq(StepRec)
  PROVE  /\ Owed(<< Step("saveRegistry", v) >> \o rest)
         /\ Owed(<< Step("relink", v), Step("load", v), Step("saveRegistry", v) >> \o rest)
<1>1. /\ << Step("saveRegistry", v) >> \in Seq(StepRec)
      /\ << Step("relink", v), Step("load", v), Step("saveRegistry", v) >> \in Seq(StepRec)
  BY DEF Step, StepRec, StepNames
<1>2. PICK a \in Seq(StepRec) : a = << Step("saveRegistry", v) >>
  BY <1>1
<1>3. PICK b \in Seq(StepRec) : b = << Step("relink", v), Step("load", v), Step("saveRegistry", v) >>
  BY <1>1
<1>4. Len(a) = 1 /\ a[1].do = "saveRegistry"
  BY <1>2 DEF Step
<1>5. Len(b) = 3 /\ b[1].do = "relink" /\ b[2].do = "load" /\ b[3].do = "saveRegistry"
  BY <1>3 DEF Step
<1>6. Len(rest) \in Nat
  OBVIOUS
<1>7. Owed(a \o rest)
  <2>1. 1 \in DOMAIN (a \o rest) /\ (a \o rest)[1] = a[1]
    BY <1>4, <1>6, CatSteps
  <2>2. 1..(1 - 1) = {}
    OBVIOUS
  <2> QED
    BY <1>4, <2>1, <2>2 DEF Owed
<1>8. Owed(b \o rest)
  <2>1. /\ DOMAIN (b \o rest) = 1..(3 + Len(rest))
        /\ \A i \in 1..3 : (b \o rest)[i] = b[i]
    <3>1. /\ DOMAIN (b \o rest) = 1..(Len(b) + Len(rest))
          /\ \A i \in 1..Len(b) : (b \o rest)[i] = b[i]
      BY CatSteps
    <3>2. Len(b) = 3
      BY <1>5
    <3> QED
      BY <3>1, <3>2
  <2>3. 3 \in DOMAIN (b \o rest)
    BY <1>6, <2>1
  <2>2. \A j \in 1..(3 - 1) : j = 1 \/ j = 2
    OBVIOUS
  <2> QED
    BY <1>5, <2>1, <2>2, <2>3 DEF Owed
<1> QED
  BY <1>2, <1>3, <1>7, <1>8

LEMMA FollowedInductive ==
  ASSUME TypeInv, Followed(todo), [Next]_vars
  PROVE  Followed(todo')
<1>1. CASE todo' = todo
  BY <1>1
<1>2. CASE todo' = <<>>
  BY <1>2 DEF Followed
<1>3. CASE CreatePolicy
  <2>1. Len(registry) + 1 \in Versions
    BY <1>3, PolicyAssumption DEF CreatePolicy, TypeInv, TypeOK, Versions
  <2> QED
    BY <1>3, <2>1, FollowedLists DEF CreatePolicy, Begin
<1>4. ASSUME NEW v \in DOMAIN registry, Promote(v) \/ Rollback(v) PROVE Followed(todo')
  <2>1. v \in Versions
    BY PolicyAssumption DEF TypeInv, TypeOK, Versions
  <2> QED
    BY <1>4, <2>1, FollowedLists DEF Promote, Rollback, Begin
<1>5. CASE TrainExisting
  <2>1. ActiveVersion \in Versions
    BY <1>5, ActiveVersionType DEF TrainExisting, TypeInv, TypeOK
  <2> QED
    BY <1>5, <2>1, FollowedLists DEF TrainExisting, Begin
<1>6. CASE TrainFirst
  <2>1. PICK v : v = Len(registry) + 1
    OBVIOUS
  <2>2. v \in Versions
    BY <1>6, <2>1, PolicyAssumption DEF TrainFirst, TypeInv, TypeOK, Versions
  <2>3. PICK c \in Seq(StepRec) : c = CreateSteps(v) /\ Followed(c)
    BY <2>2, FollowedLists
  <2>4. PICK p \in Seq(StepRec) : p = [i \in 1..3 |-> Step("promote", v)] /\ Followed(p)
    BY <2>2, FollowedLists
  <2>5. PICK t \in Seq(StepRec) : t = TrainSteps(v) /\ Followed(t)
    BY <2>2, FollowedLists
  <2>6. c \o p \in Seq(StepRec) /\ Followed(c \o p)
    BY <2>3, <2>4, FollowedCat
  <2>7. Followed((c \o p) \o t)
    BY <2>5, <2>6, FollowedCat
  <2>8. todo' = (c \o p) \o t
    BY <1>6, <2>1, <2>3, <2>4, <2>5 DEF TrainFirst, Begin
  <2> QED
    BY <2>7, <2>8
<1>7. ASSUME NEW name, At(name), Proceed(<<>>) PROVE Followed(todo')
  BY <1>7, ProceedSteps
<1>8. CASE PromoteStep
  <2>1. At("promote") /\ Ver \in Versions
    BY <1>8, AtFacts DEF PromoteStep
  <2>2. PICK pushed \in { << Step("saveRegistry", Ver) >>,
                         << Step("relink", Ver), Step("load", Ver), Step("saveRegistry", Ver) >> } :
          Proceed(pushed)
    BY <1>8 DEF PromoteStep
  <2>3. pushed \in Seq(StepRec)
    <3>1. CASE pushed = << Step("saveRegistry", Ver) >>
      BY <2>1, <3>1 DEF Step, StepRec, StepNames
    <3>2. CASE pushed = << Step("relink", Ver), Step("load", Ver), Step("saveRegistry", Ver) >>
      BY <2>1, <3>2 DEF Step, StepRec, StepNames
    <3> QED
      BY <2>2, <3>1, <3>2
  <2>4. Followed(pushed)
    BY <2>1, <2>2, FollowedLists
  <2> QED
    BY <2>1, <2>2, <2>3, <2>4, FollowedProceed
<1> QED
  BY <1>1, <1>2, <1>3, <1>4, <1>5, <1>6, <1>7, <1>8
     DEF Next, vars, memory, TrainCannotLoad, SaveModel, Register, SaveRegistry, Relink,
         LoadActive, LoadFails, Learn, LearnFails, Raise, SaveMeta, Refresh, Crash, Connect

(* Outside of a step that changes it, the registry in memory is on disk or *)
(* owed to it.                                                             *)
LEMMA OwedInductive ==
  ASSUME TypeInv, TypeInv', DurableInv, [Next]_vars, up', ~aborted', file' # registry'
  PROVE  Owed(todo')
<1>1. ASSUME up, ~aborted, UNCHANGED <<file, registry, todo>> PROVE Owed(todo')
  BY <1>1 DEF DurableInv
<1>2. ASSUME Idle, ~aborted, file # registry PROVE FALSE
  BY <1>2 DEF DurableInv, Owed, Idle
<1>3. ASSUME Idle, UNCHANGED <<registry, file, aborted>> PROVE FALSE
  BY <1>2, <1>3
<1>4. ASSUME NEW v \in DOMAIN registry, Rollback(v) PROVE Owed(todo')
  <2>1. v \in Versions
    BY PolicyAssumption DEF TypeInv, TypeOK, Versions
  <2>2. << Step("relink", v), Step("load", v), Step("saveRegistry", v) >> \in Seq(StepRec)
    BY <2>1 DEF Step, StepRec, StepNames
  <2>3. PICK b \in Seq(StepRec) :
          b = << Step("relink", v), Step("load", v), Step("saveRegistry", v) >>
    BY <2>2
  <2>4. b \o <<>> = b /\ <<>> \in Seq(StepRec)
    BY <2>3
  <2> QED
    BY <1>4, <2>1, <2>3, <2>4, OwedPushed DEF Rollback, Begin
<1>5. ASSUME NEW name, At(name), Proceed(<<>>), name # "saveRegistry",
             UNCHANGED <<registry, file, aborted>>
      PROVE  Owed(todo')
  <2>1. Owed(todo)
    BY <1>5 DEF DurableInv, At
  <2> QED
    BY <1>5, <2>1, OwedTail
<1>6. ASSUME NEW name \in Changing, At(name), Proceed(<<>>) PROVE Owed(todo')
  BY <1>6, OwedNext DEF DurableInv
<1>7. CASE PromoteStep
  <2>1. At("promote") /\ Ver \in Versions /\ todo \in Seq(StepRec) /\ todo # <<>>
    BY <1>7, AtFacts DEF PromoteStep
  <2>2. \/ todo' = << Step("saveRegistry", Ver) >> \o Tail(todo)
        \/ todo' = << Step("relink", Ver), Step("load", Ver), Step("saveRegistry", Ver) >> \o Tail(todo)
    BY <1>7 DEF PromoteStep, Proceed
  <2>3. Tail(todo) \in Seq(StepRec)
    BY <2>1
  <2> QED
    BY <2>1, <2>2, <2>3, OwedPushed
<1>8. CASE SaveRegistry
  BY <1>8 DEF SaveRegistry
<1>9. CASE LearnFails
  <2>1. At("learn") /\ up /\ todo # <<>> /\ UNCHANGED <<registry, file, aborted>>
    BY <1>9 DEF LearnFails, At, disk
  <2>2. PICK i \in DOMAIN todo :
          todo[i].do = "saveRegistry" /\ \A j \in 1..(i - 1) : todo[j].do \in {"relink", "load"}
    BY <2>1 DEF DurableInv, Owed
  <2>3. todo \in Seq(StepRec) /\ todo[1].do = "learn"
    BY <2>1, AtFacts DEF At
  <2>4. i \in 1..Len(todo) /\ i > 1
    BY <2>2, <2>3
  <2>5. 1 \in 1..(i - 1)
    BY <2>3, <2>4
  <2> QED
    BY <2>2, <2>3, <2>5
<1>10. CASE LoadFails \/ Crash \/ Connect
  BY <1>10 DEF LoadFails, Crash, Connect, disk
<1>11. CASE CreatePolicy
  BY <1>3, <1>11 DEF CreatePolicy, disk
<1>12. CASE \E v \in DOMAIN registry : Promote(v)
  BY <1>3, <1>12 DEF Promote, disk
<1>13. CASE TrainExisting \/ TrainCannotLoad
  BY <1>3, <1>13 DEF TrainExisting, TrainCannotLoad, disk
<1>14. CASE TrainFirst
  BY <1>3, <1>14 DEF TrainFirst, disk
<1>15. CASE SaveModel
  BY <1>5, <1>15 DEF SaveModel
<1>16. CASE Relink
  BY <1>5, <1>16 DEF Relink
<1>17. CASE LoadActive
  BY <1>5, <1>17 DEF LoadActive, disk
<1>18. CASE Learn
  BY <1>5, <1>18 DEF Learn, disk
<1>19. CASE Refresh
  BY <1>5, <1>19 DEF Refresh, disk
<1>20. CASE Register
  BY <1>6, <1>20 DEF Register, Changing
<1>21. CASE SaveMeta
  BY <1>6, <1>21 DEF SaveMeta, Changing
<1>22. CASE UNCHANGED vars
  BY <1>1, <1>22 DEF vars, memory, disk
<1> QED
  BY <1>4, <1>7, <1>8, <1>9, <1>10, <1>11, <1>12, <1>13, <1>14, <1>15, <1>16, <1>17, <1>18,
     <1>19, <1>20, <1>21, <1>22 DEF Next

(* Only connect brings the process up, and only a crash down.              *)
LEMMA UpChanges ==
  ASSUME [Next]_vars
  PROVE  /\ ~up /\ up' => Connect
         /\ up /\ ~up' => Crash
         /\ ~up /\ ~up' => UNCHANGED vars
<1>1. CASE CreatePolicy \/ TrainExisting
  BY <1>1 DEF CreatePolicy, TrainExisting, Idle
<1>2. CASE TrainCannotLoad \/ TrainFirst
  BY <1>2 DEF TrainCannotLoad, TrainFirst, Idle
<1>3. CASE \E v \in DOMAIN registry : Promote(v) \/ Rollback(v)
  BY <1>3 DEF Promote, Rollback, Idle
<1>4. CASE \/ SaveModel \/ Register \/ SaveRegistry \/ PromoteStep \/ Relink \/ LoadActive
  BY <1>4 DEF SaveModel, Register, SaveRegistry, PromoteStep, Relink, LoadActive, At
<1>5. CASE LoadFails \/ Learn \/ LearnFails \/ SaveMeta \/ Refresh
  BY <1>5 DEF LoadFails, Learn, LearnFails, SaveMeta, Refresh, At
<1>6. CASE Crash
  BY <1>6 DEF Crash
<1>7. CASE Connect
  BY <1>7 DEF Connect
<1>8. CASE UNCHANGED vars
  BY <1>8 DEF vars, memory
<1> QED
  BY <1>1, <1>2, <1>3, <1>4, <1>5, <1>6, <1>7, <1>8 DEF Next

LEMMA DurableInductive ==
  ASSUME TypeInv, TypeInv', DurableInv, [Next]_vars
  PROVE  DurableInv'
<1>1. ASSUME ~up' PROVE todo' = <<>> /\ ~aborted'
  <2>1. CASE up
    BY <1>1, <2>1, UpChanges DEF Crash
  <2>2. CASE ~up
    <3>1. UNCHANGED vars
      BY <1>1, <2>2, UpChanges
    <3> QED
      BY <2>2, <3>1 DEF DurableInv, vars, memory
  <2> QED
    BY <2>1, <2>2
<1>2. Followed(todo)'
  BY FollowedInductive DEF DurableInv
<1>3. up' /\ ~aborted' /\ file' # registry' => Owed(todo')
  BY OwedInductive
<1> QED
  BY <1>1, <1>2, <1>3 DEF DurableInv

(* When no operation is under way and none has raised half-way, a restart  *)
(* finds the registry as the last operation left it.                       *)
THEOREM AcknowledgedStays == Spec => []AcknowledgedIsDurable
<1>1. Init => DurableInv
  BY DEF Init, DurableInv, Followed
<1>2. DurableInv => AcknowledgedIsDurable
  BY DEF DurableInv, AcknowledgedIsDurable, Idle, Owed
<1>3. Spec => []TypeInv
  BY InitTypeInv, TypeInvInductive, PTL DEF Spec
<1> QED
  BY <1>1, <1>2, <1>3, DurableInductive, PTL DEF Spec
-----------------------------------------------------------------------------
(* What the manager's cached policy is.  A load is only ever the next step *)
(* or the one after a relink, and it loads the production policy; until it *)
(* has run the cached policy may be the predecessor.                       *)
LoadNext ==
  \A i \in DOMAIN todo : todo[i].do = "load" =>
    /\ i = 1 \/ (i = 2 /\ todo[1].do = "relink")
    /\ InProduction(registry) = {todo[i].v}

Held == active \in Objs /\ InProduction(registry) = {heap[active].from}

ActiveInv ==
  /\ ~up => active = NoObj /\ todo = <<>>
  /\ LoadNext
  /\ up /\ ~aborted /\ active # NoObj =>
       Held \/ \E i \in DOMAIN todo : todo[i].do = "load"

NoLoads(s) == \A i \in DOMAIN s : s[i].do # "load"

LEMMA PushedType ==
  ASSUME NEW v \in Versions
  PROVE  /\ << Step("saveRegistry", v) >> \in Seq(StepRec)
         /\ << Step("relink", v), Step("load", v), Step("saveRegistry", v) >> \in Seq(StepRec)
BY DEF Step, StepRec, StepNames

LEMMA NoLoadsCat ==
  ASSUME NEW s \in Seq(StepRec), NEW t \in Seq(StepRec), NoLoads(s), NoLoads(t)
  PROVE  s \o t \in Seq(StepRec) /\ NoLoads(s \o t)
<1>1. /\ s \o t \in Seq(StepRec) /\ Len(s) \in Nat /\ Len(t) \in Nat
      /\ DOMAIN (s \o t) = 1..(Len(s) + Len(t))
      /\ DOMAIN s = 1..Len(s) /\ DOMAIN t = 1..Len(t)
  BY CatSteps
<1>2. /\ \A i \in 1..Len(s) : (s \o t)[i] = s[i]
      /\ \A i \in 1..(Len(s) + Len(t)) : i > Len(s) => (s \o t)[i] = t[i - Len(s)]
  BY CatSteps
<1>3. ASSUME NEW i \in 1..(Len(s) + Len(t)) PROVE (s \o t)[i].do # "load"
  <2>1. CASE i <= Len(s)
    <3>1. i \in 1..Len(s)
      BY <1>1, <2>1
    <3> QED
      BY <1>1, <1>2, <3>1 DEF NoLoads
  <2>2. CASE i > Len(s)
    <3>1. i - Len(s) \in 1..Len(t)
      BY <1>1, <2>2
    <3> QED
      BY <1>1, <1>2, <2>2, <3>1 DEF NoLoads
  <2> QED
    BY <1>1, <2>1, <2>2
<1> QED
  BY <1>1, <1>3 DEF NoLoads

LEMMA NoLoadsLists ==
  ASSUME NEW v \in Versions
  PROVE  /\ NoLoads(CreateSteps(v)) /\ NoLoads(TrainSteps(v))
         /\ NoLoads(<< Step("promote", v) >>) /\ NoLoads(<< Step("saveRegistry", v) >>)
         /\ NoLoads([i \in 1..3 |-> Step("promote", v)])
<1>1. NoLoads(CreateSteps(v))
  BY DEF CreateSteps, Step, NoLoads
<1>2. NoLoads(TrainSteps(v))
  BY DEF TrainSteps, Step, NoLoads
<1>3. NoLoads(<< Step("promote", v) >>) /\ NoLoads(<< Step("saveRegistry", v) >>)
  BY DEF Step, NoLoads
<1>4. NoLoads([i \in 1..3 |-> Step("promote", v)])
  BY DEF Step, NoLoads
<1> QED
  BY <1>1, <1>2, <1>3, <1>4

(* After a step other than a relink nothing is left to load; a relink      *)
(* leaves the load as the next step.                                       *)
LEMMA LoadTail ==
  ASSUME TypeInv, LoadNext, NEW name, At(name), Proceed(<<>>)
  PROVE  /\ name # "relink" => NoLoads(todo')
         /\ \A i \in DOMAIN todo' : todo'[i].do = "load" =>
              i = 1 /\ InProduction(registry) = {todo'[i].v}
         /\ name \notin {"load", "relink"} => NoLoads(todo)
         /\ name = "relink" /\ ~NoLoads(todo) => ~NoLoads(todo')
<1>1. /\ todo' \in Seq(StepRec) /\ todo \in Seq(StepRec) /\ Len(todo) \in Nat
      /\ Len(todo') = Len(todo) - 1
      /\ \A k \in 1..(Len(todo) - 1) : todo'[k] = todo[k + 1]
      /\ todo[1] = Head(todo) /\ 1 \in DOMAIN todo
  BY ProceedSteps
<1>2. todo[1].do = name
  BY <1>1 DEF At
<1>3. ASSUME NEW i \in DOMAIN todo', todo'[i].do = "load"
      PROVE  i = 1 /\ name = "relink" /\ InProduction(registry) = {todo'[i].v}
  <2>1. i \in 1..(Len(todo) - 1) /\ i + 1 \in DOMAIN todo /\ todo'[i] = todo[i + 1]
    BY <1>1
  <2>2. /\ i + 1 = 1 \/ (i + 1 = 2 /\ todo[1].do = "relink")
        /\ InProduction(registry) = {todo[i + 1].v}
    BY <1>3, <2>1 DEF LoadNext
  <2> QED
    BY <1>2, <2>1, <2>2
<1>4. ASSUME NEW i \in DOMAIN todo, todo[i].do = "load", name # "load"
      PROVE  name = "relink" /\ 1 \in DOMAIN todo' /\ todo'[1].do = "load"
  <2>1. i = 2 /\ todo[1].do = "relink"
    BY <1>2, <1>4 DEF LoadNext
  <2> QED
    BY <1>1, <1>2, <1>4, <2>1
<1> QED
  BY <1>3, <1>4 DEF NoLoads

(* Archiving and then promoting one version puts it in production.         *)
LEMMA ProductionIs ==
  ASSUME NEW r \in Seq(Meta), NEW v \in DOMAIN r
  PROVE  InProduction([Archived(r) EXCEPT ![v].stage = "production"]) = {v}
<1>1. DOMAIN Archived(r) = DOMAIN r /\ Archived(r) \in Seq(Meta)
  BY ArchivedType
<1>2. [Archived(r) EXCEPT ![v].stage = "production"][v].stage = "production"
  BY <1>1 DEF Meta
<1> QED
  BY <1>1, <1>2, OneProduction DEF InProduction

(* Registering a candidate, counting a training and the first two          *)
(* promotions leave the production policy alone.                           *)
LEMMA SameProduction ==
  ASSUME TypeInv,
         \/ Register \/ SaveMeta
         \/ PromoteStep /\ NextStage[registry[Ver].stage] # "production"
  PROVE  InProduction(registry') = InProduction(registry)
<1>1. registry \in Seq(Meta)
  BY DEF TypeInv, TypeOK
<1>2. CASE Register
  BY <1>1, <1>2 DEF Register, InProduction
<1>3. CASE SaveMeta
  BY <1>1, <1>3 DEF SaveMeta, InProduction, Meta
<1>4. CASE PromoteStep /\ NextStage[registry[Ver].stage] # "production"
  <2>1. /\ registry[Ver].stage \in DOMAIN NextStage /\ Ver \in DOMAIN registry
        /\ registry' = [registry EXCEPT ![Ver].stage = NextStage[registry[Ver].stage]]
    BY <1>4 DEF PromoteStep
  <2>2. registry[Ver].stage # "production"
    BY <2>1 DEF NextStage
  <2> QED
    BY <1>1, <1>4, <2>1, <2>2 DEF InProduction, Meta
<1> QED
  BY <1>2, <1>3, <1>4

(* The version an object was loaded as stays with it: a new policy is      *)
(* never built in an object that is still held, and learn() changes only   *)
(* weights and steps.                                                      *)
LEMMA FromStays ==
  ASSUME TypeInv, active \in Objs,
         \/ UNCHANGED heap
         \/ \E o \in FreeObjs, v \in 0..MaxVersions, w \in Weights : NewPolicy(o, v, w)
         \/ Learn \/ LearnFails
  PROVE  heap'[active].from = heap[active].from
<1>1. heap \in [Objs -> Policy] /\ active # NoObj
  BY PolicyAssumption DEF TypeInv, TypeOK
<1>2. CASE UNCHANGED heap
  BY <1>2
<1>3. ASSUME NEW o \in FreeObjs, NEW v \in 0..MaxVersions, NEW w \in Weights, NewPolicy(o, v, w)
      PROVE  heap'[active].from = heap[active].from
  BY <1>1, <1>3 DEF NewPolicy, FreeObjs
<1>4. CASE Learn
  BY <1>1, <1>4 DEF Learn, Policy
<1>5. CASE LearnFails
  BY <1>1, <1>5 DEF LearnFails, Policy
<1> QED
  BY <1>2, <1>3, <1>4, <1>5

LEMMA LoadNextInductive ==
  ASSUME TypeInv, LoadNext, ~up => todo = <<>>, [Next]_vars
  PROVE  LoadNext'
<1>1. ASSUME NoLoads(todo') PROVE LoadNext'
  BY <1>1 DEF LoadNext, NoLoads
<1>2. ASSUME UNCHANGED <<todo, registry>> PROVE LoadNext'
  BY <1>2 DEF LoadNext, InProduction
<1>3. CASE todo' = <<>>
  BY <1>1, <1>3 DEF NoLoads
<1>4. CASE CreatePolicy
  <2>1. Len(registry) + 1 \in Versions
    BY <1>4, PolicyAssumption DEF CreatePolicy, TypeInv, TypeOK, Versions
  <2> QED
    BY <1>1, <1>4, <2>1, NoLoadsLists DEF CreatePolicy, Begin
<1>5. ASSUME NEW v \in DOMAIN registry, Promote(v) PROVE LoadNext'
  <2>1. v \in Versions
    BY PolicyAssumption DEF TypeInv, TypeOK, Versions
  <2> QED
    BY <1>1, <1>5, <2>1, NoLoadsLists DEF Promote, Begin
<1>6. ASSUME NEW v \in DOMAIN registry, Rollback(v) PROVE LoadNext'
  <2>1. registry \in Seq(Meta)
    BY DEF TypeInv, TypeOK
  <2>2. InProduction(registry') = {v}
    BY <1>6, <2>1, ProductionIs DEF Rollback
  <2>3. todo' = << Step("relink", v), Step("load", v), Step("saveRegistry", v) >>
    BY <1>6 DEF Rollback, Begin
  <2> QED
    BY <2>2, <2>3 DEF LoadNext, Step
<1>7. CASE TrainExisting
  <2>1. ActiveVersion \in Versions
    BY <1>7, ActiveVersionType DEF TrainExisting, TypeInv, TypeOK
  <2> QED
    BY <1>1, <1>7, <2>1, NoLoadsLists DEF TrainExisting, Begin
<1>8. CASE TrainFirst
  <2>1. PICK v : v = Len(registry) + 1
    OBVIOUS
  <2>2. v \in Versions
    BY <1>8, <2>1, PolicyAssumption DEF TrainFirst, TypeInv, TypeOK, Versions
  <2>3. PICK c \in Seq(StepRec) : c = CreateSteps(v) /\ NoLoads(c)
    BY <2>2, FollowedLists, NoLoadsLists
  <2>4. PICK p \in Seq(StepRec) : p = [i \in 1..3 |-> Step("promote", v)] /\ NoLoads(p)
    BY <2>2, FollowedLists, NoLoadsLists
  <2>5. PICK t \in Seq(StepRec) : t = TrainSteps(v) /\ NoLoads(t)
    BY <2>2, FollowedLists, NoLoadsLists
  <2>6. c \o p \in Seq(StepRec) /\ NoLoads(c \o p)
    BY <2>3, <2>4, NoLoadsCat
  <2>7. NoLoads((c \o p) \o t)
    BY <2>5, <2>6, NoLoadsCat
  <2>8. todo' = (c \o p) \o t
    BY <1>8, <2>1, <2>3, <2>4, <2>5 DEF TrainFirst, Begin
  <2> QED
    BY <1>1, <2>7, <2>8
<1>9. ASSUME NEW name, At(name), Proceed(<<>>), name # "relink" PROVE LoadNext'
  BY <1>1, <1>9, LoadTail
<1>10. CASE Relink
  <2>1. At("relink") /\ Proceed(<<>>) /\ UNCHANGED registry
    BY <1>10 DEF Relink
  <2>2. \A i \in DOMAIN todo' : todo'[i].do = "load" =>
          i = 1 /\ InProduction(registry) = {todo'[i].v}
    BY <2>1, LoadTail
  <2> QED
    BY <2>1, <2>2 DEF LoadNext, InProduction
<1>11. CASE PromoteStep
  <2>1. /\ At("promote") /\ Ver \in Versions /\ Ver \in DOMAIN registry
        /\ registry \in Seq(Meta) /\ todo \in Seq(StepRec) /\ todo # <<>>
    BY <1>11, AtFacts DEF PromoteStep, TypeInv, TypeOK
  <2>2. Tail(todo) \in Seq(StepRec) /\ NoLoads(Tail(todo))
    <3>1. /\ Tail(todo) \in Seq(StepRec)
          /\ \A i \in DOMAIN Tail(todo) : i \in Nat /\ i >= 1 /\ i + 1 \in DOMAIN todo
                                           /\ Tail(todo)[i] = todo[i + 1]
          /\ todo[1].do = "promote"
      <4>1. /\ Len(todo) \in Nat /\ Len(todo) >= 1 /\ DOMAIN todo = 1..Len(todo)
            /\ Tail(todo) \in Seq(StepRec) /\ Len(Tail(todo)) = Len(todo) - 1
            /\ \A i \in 1..(Len(todo) - 1) : Tail(todo)[i] = todo[i + 1]
            /\ todo[1] = Head(todo)
        BY <2>1
      <4>2. DOMAIN Tail(todo) = 1..(Len(todo) - 1)
        BY <4>1
      <4> QED
        BY <2>1, <4>1, <4>2 DEF At
    <3>2. ASSUME NEW i \in DOMAIN Tail(todo), Tail(todo)[i].do = "load" PROVE FALSE
      <4>1. i \in Nat /\ i >= 1 /\ i + 1 \in DOMAIN todo /\ todo[i + 1].do = "load"
        BY <3>1, <3>2
      <4>2. i + 1 = 1 \/ todo[1].do = "relink"
        BY <4>1 DEF LoadNext
      <4> QED
        BY <3>1, <4>1, <4>2
    <3> QED
      BY <3>1, <3>2 DEF NoLoads
  <2>3. CASE NextStage[registry[Ver].stage] = "production"
    <3>1. InProduction(registry') = {Ver}
      BY <1>11, <2>1, <2>3, ProductionIs DEF PromoteStep
    <3>2. PICK b \in Seq(StepRec) :
            b = << Step("relink", Ver), Step("load", Ver), Step("saveRegistry", Ver) >>
      BY <2>1, PushedType
    <3>3. todo' = b \o Tail(todo)
      BY <1>11, <2>3, <3>2 DEF PromoteStep, Proceed
    <3>4. /\ Len(b) = 3 /\ b[1].do = "relink" /\ b[2].do = "load" /\ b[2].v = Ver
          /\ b[3].do = "saveRegistry"
      BY <3>2 DEF Step
    <3>5. PICK t \in Seq(StepRec) : t = Tail(todo) /\ NoLoads(t)
      BY <2>2
    <3>6. /\ DOMAIN (b \o t) = 1..(3 + Len(t)) /\ DOMAIN t = 1..Len(t) /\ Len(t) \in Nat
          /\ \A i \in 1..3 : (b \o t)[i] = b[i]
          /\ \A i \in 1..(3 + Len(t)) : i > 3 => (b \o t)[i] = t[i - 3]
      <4>1. /\ DOMAIN (b \o t) = 1..(Len(b) + Len(t)) /\ DOMAIN t = 1..Len(t) /\ Len(t) \in Nat
            /\ \A i \in 1..Len(b) : (b \o t)[i] = b[i]
            /\ \A i \in 1..(Len(b) + Len(t)) : i > Len(b) => (b \o t)[i] = t[i - Len(b)]
        BY CatSteps
      <4>2. Len(b) = 3
        BY <3>4
      <4> QED
        BY <4>1, <4>2
    <3>7. ASSUME NEW i \in 1..(3 + Len(t)), (b \o t)[i].do = "load"
          PROVE  i = 2
      <4>1. CASE i > 3
        <5>1. i - 3 \in 1..Len(t)
          BY <3>6, <4>1
        <5>2. t[i - 3].do # "load"
          BY <3>5, <3>6, <5>1 DEF NoLoads
        <5>3. (b \o t)[i] = t[i - 3]
          BY <3>6, <4>1
        <5> QED
          BY <3>7, <5>2, <5>3
      <4>2. CASE i = 1 \/ i = 3
        BY <3>4, <3>6, <3>7, <4>2
      <4> QED
        BY <3>6, <4>1, <4>2
    <3>8. (b \o t)[1].do = "relink" /\ (b \o t)[2].v = Ver
      BY <3>4, <3>6
    <3>9. todo' = b \o t /\ DOMAIN todo' = 1..(3 + Len(t))
      BY <3>3, <3>5, <3>6
    <3>10. ASSUME NEW i \in DOMAIN todo', todo'[i].do = "load"
           PROVE  i = 2 /\ todo'[1].do = "relink" /\ InProduction(registry') = {todo'[i].v}
      BY <3>1, <3>7, <3>8, <3>9, <3>10
    <3> QED
      BY <3>10 DEF LoadNext
  <2>4. CASE NextStage[registry[Ver].stage] # "production"
    <3>1. PICK b \in Seq(StepRec) : b = << Step("saveRegistry", Ver) >> /\ NoLoads(b)
      BY <2>1, NoLoadsLists, PushedType
    <3>2. todo' = b \o Tail(todo)
      BY <1>11, <2>4, <3>1 DEF PromoteStep, Proceed
    <3> QED
      BY <1>1, <2>2, <3>1, <3>2, NoLoadsCat
  <2> QED
    BY <2>3, <2>4
<1>12. CASE SaveModel \/ Register \/ SaveRegistry
  BY <1>9, <1>12 DEF SaveModel, Register, SaveRegistry
<1>13. CASE LoadActive \/ Learn \/ SaveMeta \/ Refresh
  BY <1>9, <1>13 DEF LoadActive, Learn, SaveMeta, Refresh
<1>14. CASE LoadFails \/ LearnFails \/ Crash
  BY <1>3, <1>14 DEF LoadFails, LearnFails, Raise, Crash
<1>16. CASE Connect
  BY <1>3, <1>16 DEF Connect
<1>15. CASE TrainCannotLoad \/ UNCHANGED vars
  BY <1>2, <1>15 DEF TrainCannotLoad, vars, memory
<1> QED
  BY <1>4, <1>5, <1>6, <1>7, <1>8, <1>10, <1>11, <1>12, <1>13, <1>14, <1>15,
     <1>16 DEF Next

LEMMA ActiveInductive ==
  ASSUME TypeInv, AtMostOneProduction, ActiveInv, [Next]_vars
  PROVE  ActiveInv'
<1>1. LoadNext'
  BY LoadNextInductive DEF ActiveInv
<1>2. ASSUME ~up' PROVE active' = NoObj /\ todo' = <<>>
  <2>1. CASE up
    BY <1>2, <2>1, UpChanges DEF Crash
  <2>2. CASE ~up
    <3>1. UNCHANGED vars
      BY <1>2, <2>2, UpChanges
    <3> QED
      BY <2>2, <3>1 DEF ActiveInv, vars, memory
  <2> QED
    BY <2>1, <2>2
<1> DEFINE Pending == \E i \in DOMAIN todo : todo[i].do = "load"
<1>3. SUFFICES ASSUME up', ~aborted', active' # NoObj
               PROVE  Held' \/ Pending'
  BY <1>1, <1>2 DEF ActiveInv
<1>4. ASSUME up, ~aborted, UNCHANGED active, ~Pending,
             InProduction(registry') = InProduction(registry),
             \/ UNCHANGED heap
             \/ \E o \in FreeObjs, v \in 0..MaxVersions, w \in Weights : NewPolicy(o, v, w)
             \/ Learn \/ LearnFails
      PROVE  Held'
  <2>1. Held
    BY <1>3, <1>4 DEF ActiveInv
  <2> QED
    BY <1>4, <2>1, FromStays DEF Held
<1>5. ASSUME Idle PROVE ~Pending
  BY <1>5 DEF Idle
<1>6. ASSUME NEW name, At(name), Proceed(<<>>), name \notin {"load", "relink"}
      PROVE  ~Pending
  BY <1>6, LoadTail DEF NoLoads, ActiveInv
<1>7. CASE CreatePolicy
  <2>1. Len(registry) + 1 \in 0..MaxVersions /\ {} \in Weights
    BY <1>7, PolicyAssumption DEF CreatePolicy, TypeInv, TypeOK, Weights
  <2> QED
    BY <1>3, <1>4, <1>5, <1>7, <2>1 DEF CreatePolicy, Idle
<1>8. CASE TrainFirst
  <2>1. Len(registry) + 1 \in 0..MaxVersions /\ {} \in Weights
    BY <1>8, PolicyAssumption DEF TrainFirst, TypeInv, TypeOK, Weights
  <2>2. /\ Idle /\ UNCHANGED <<registry, active, up, aborted>>
        /\ \E o \in FreeObjs : NewPolicy(o, Len(registry) + 1, {})
    BY <1>8 DEF TrainFirst
  <2> QED
    BY <1>3, <1>4, <1>5, <2>1, <2>2 DEF Idle
<1>9. CASE \E v \in DOMAIN registry : Promote(v)
  BY <1>3, <1>4, <1>5, <1>9 DEF Promote, Idle
<1>10. CASE \E v \in DOMAIN registry : Rollback(v)
  BY <1>10 DEF Rollback, Begin, Step
<1>11. CASE TrainExisting
  <2>1. Idle /\ InProduction(registry) # {} /\ UNCHANGED <<registry, up, aborted>>
    BY <1>11 DEF TrainExisting
  <2>2. CASE active # NoObj
    <3>1. UNCHANGED <<active, heap>>
      BY <1>11, <2>2 DEF TrainExisting
    <3> QED
      BY <1>3, <1>4, <1>5, <2>1, <3>1 DEF Idle
  <2>3. CASE active = NoObj
    <3>1. PICK o \in FreeObjs : NewPolicy(o, ActiveVersion, model[ActiveVersion]) /\ active' = o
      BY <1>11, <2>3 DEF TrainExisting
    <3>2. ActiveVersion \in InProduction(registry)
      BY <2>1 DEF ActiveVersion
    <3>3. InProduction(registry) = {ActiveVersion}
      BY <3>2 DEF AtMostOneProduction
    <3>4. active' \in Objs /\ heap'[active'].from = ActiveVersion
      BY <3>1 DEF NewPolicy, FreeObjs, TypeInv, TypeOK
    <3> QED
      BY <2>1, <3>3, <3>4 DEF Held
  <2> QED
    BY <2>2, <2>3
<1>12. CASE SaveModel \/ SaveRegistry
  BY <1>3, <1>4, <1>6, <1>12 DEF SaveModel, SaveRegistry
<1>13. CASE Register
  BY <1>3, <1>4, <1>6, <1>13, SameProduction DEF Register
<1>14. CASE SaveMeta
  BY <1>3, <1>4, <1>6, <1>14, SameProduction DEF SaveMeta
<1>15. CASE Learn
  BY <1>3, <1>4, <1>6, <1>15 DEF Learn
<1>16. CASE Refresh
  BY <1>3, <1>4, <1>6, <1>16 DEF Refresh
<1>17. CASE Relink
  <2>1. At("relink") /\ Proceed(<<>>) /\ up /\ ~aborted /\ UNCHANGED <<registry, active, heap>>
    BY <1>3, <1>17 DEF Relink
  <2>2. CASE Pending
    BY <2>1, <2>2, LoadTail DEF NoLoads, ActiveInv
  <2>3. CASE ~Pending
    BY <1>4, <2>1, <2>3
  <2> QED
    BY <2>2, <2>3
<1>18. CASE LoadActive
  <2>1. /\ At("load") /\ todo \in Seq(StepRec) /\ todo # <<>> /\ UNCHANGED registry
    BY <1>18, AtFacts DEF LoadActive
  <2>2. 1 \in DOMAIN todo /\ todo[1].do = "load" /\ todo[1].v = Ver
    BY <2>1 DEF At, Ver
  <2>3. InProduction(registry) = {Ver}
    BY <2>2 DEF ActiveInv, LoadNext
  <2>4. PICK o \in FreeObjs : NewPolicy(o, Ver, model[Ver]) /\ active' = o
    BY <1>18 DEF LoadActive
  <2>5. active' \in Objs /\ heap'[active'].from = Ver
    BY <2>4 DEF NewPolicy, FreeObjs, TypeInv, TypeOK
  <2> QED
    BY <2>1, <2>3, <2>5 DEF Held
<1>19. CASE LearnFails
  <2>1. At("learn") /\ up /\ ~aborted /\ UNCHANGED <<registry, active>>
    BY <1>3, <1>19 DEF LearnFails, At
  <2>2. todo \in Seq(StepRec) /\ todo[1].do = "learn"
    BY <2>1, AtFacts DEF At
  <2>3. ~Pending
    BY <2>2 DEF ActiveInv, LoadNext
  <2> QED
    BY <1>4, <1>19, <2>1, <2>3
<1>20. CASE PromoteStep
  <2>1. /\ At("promote") /\ UNCHANGED <<active, heap, up, aborted>>
        /\ todo \in Seq(StepRec) /\ todo # <<>> /\ Ver \in Versions
    BY <1>20, AtFacts DEF PromoteStep
  <2>2. todo[1].do = "promote"
    BY <2>1 DEF At
  <2>3. CASE NextStage[registry[Ver].stage] = "production"
    <3>1. todo' = << Step("relink", Ver), Step("load", Ver), Step("saveRegistry", Ver) >> \o Tail(todo)
      BY <1>20, <2>3 DEF PromoteStep, Proceed
    <3>2. PICK b \in Seq(StepRec) :
            b = << Step("relink", Ver), Step("load", Ver), Step("saveRegistry", Ver) >>
      BY <2>1, PushedType
    <3>3. Len(b) = 3 /\ b[2].do = "load"
      BY <3>2 DEF Step
    <3>4. Tail(todo) \in Seq(StepRec)
      BY <2>1
    <3>5. 2 \in DOMAIN (b \o Tail(todo)) /\ (b \o Tail(todo))[2] = b[2]
      <4>1. /\ DOMAIN (b \o Tail(todo)) = 1..(Len(b) + Len(Tail(todo))) /\ Len(Tail(todo)) \in Nat
            /\ \A i \in 1..Len(b) : (b \o Tail(todo))[i] = b[i]
        BY <3>4, CatSteps
      <4>2. 2 \in 1..Len(b) /\ 2 \in 1..(Len(b) + Len(Tail(todo)))
        BY <3>3, <4>1
      <4> QED
        BY <4>1, <4>2
    <3> QED
      BY <3>1, <3>2, <3>3, <3>5
  <2>4. CASE NextStage[registry[Ver].stage] # "production"
    <3>1. ~Pending
      BY <2>2 DEF ActiveInv, LoadNext
    <3>2. InProduction(registry') = InProduction(registry)
      BY <1>20, <2>4, SameProduction
    <3> QED
      BY <1>3, <1>4, <2>1, <3>1, <3>2
  <2> QED
    BY <2>3, <2>4
<1>21. CASE TrainCannotLoad
  BY <1>3, <1>4, <1>5, <1>21 DEF TrainCannotLoad, Idle
<1>22. CASE LoadFails \/ Crash
  BY <1>3, <1>22 DEF LoadFails, Crash
<1>23. CASE Connect
  <2>1. ~up /\ file # Torn /\ registry' = file /\ active = NoObj
    BY <1>23 DEF Connect, ActiveInv
  <2>2. PICK v \in InProduction(file), o \in Objs : NewPolicy(o, v, model[v]) /\ active' = o
    BY <1>3, <1>23, <2>1 DEF Connect
  <2>3. InProduction(registry') = {v}
    BY <2>1 DEF AtMostOneProduction
  <2>4. active' \in Objs /\ heap'[active'].from = v
    BY <2>2 DEF NewPolicy, TypeInv, TypeOK
  <2> QED
    BY <2>3, <2>4 DEF Held
<1>24. CASE UNCHANGED vars
  <2>1. UNCHANGED <<up, aborted, active, registry, heap, todo>>
    BY <1>24 DEF vars, memory
  <2> QED
    BY <1>3, <1>4, <2>1
<1> QED
  BY <1>7, <1>8, <1>9, <1>10, <1>11, <1>12, <1>13, <1>14, <1>15, <1>16, <1>17, <1>18, <1>19,
     <1>20, <1>21, <1>22, <1>23, <1>24 DEF Next

(* When no operation is under way and none has raised half-way, the policy *)
(* the manager hands out is the one the registry says is in production.    *)
THEOREM ActiveMatchesRegistry == Spec => []ActiveIsProduction
<1>1. Init => ActiveInv
  BY DEF Init, ActiveInv, LoadNext
<1>2. TypeInv /\ ActiveInv => ActiveIsProduction
  <2> SUFFICES ASSUME TypeInv, ActiveInv, Idle, ~aborted, active # NoObj
               PROVE  ActiveVersion # 0 /\ heap[active].from = ActiveVersion
    BY DEF ActiveIsProduction
  <2>1. Held
    BY DEF ActiveInv, Idle
  <2>2. ActiveVersion \in InProduction(registry)
    BY <2>1 DEF ActiveVersion, Held
  <2>3. heap[active].from = ActiveVersion
    BY <2>1, <2>2 DEF Held
  <2>4. 0 \notin DOMAIN registry
    BY DEF TypeInv, TypeOK
  <2> QED
    BY <2>2, <2>3, <2>4 DEF InProduction
<1>3. Spec => []TypeInv
  BY InitTypeInv, TypeInvInductive, PTL DEF Spec
<1> QED
  BY <1>1, <1>2, <1>3, OnlyOneProduction, ActiveInductive, PTL DEF Spec
-----------------------------------------------------------------------------
(* What the selector predicts with.  The policy a refresh will install is  *)
(* in production or archived already, or the promotions that take it there *)
(* come first: 3 - k of them, then the five steps of training.             *)
Served(r, v) == v \in DOMAIN r /\ r[v].stage \in {"production", "archived"}

(* The stage a policy has after k promotions.                              *)
Rung == [k \in 0..2 |-> IF k = 0 THEN "candidate" ELSE IF k = 1 THEN "shadow" ELSE "canary"]

Climbs(r, s, i, v) ==
  \E k \in 0..2, p \in DOMAIN s :
    /\ p + (7 - k) = i
    /\ \A j \in p..(p + (2 - k)) : s[j] = Step("promote", v)
    /\ \A j \in 1..(p - 1) : s[j].do # "promote"
    /\ \/ v \in DOMAIN r /\ r[v].stage = Rung[k]
       \/ k = 0 /\ \E q \in 1..(p - 1) : s[q] = Step("register", v)

RefreshInv ==
  \A i \in DOMAIN todo : todo[i].do = "refresh" =>
    \/ Served(registry, heap[local].from)
    \/ Climbs(registry, todo, i, heap[local].from)

ServeInv ==
  /\ ~up => active = NoObj /\ selector = NoObj /\ todo = <<>>
  /\ active # NoObj => Served(registry, heap[active].from)
  /\ selector # NoObj => Served(registry, heap[selector].from)
  /\ RefreshInv

LEMMA ClimbArith ==
  ASSUME NEW k \in 0..2, NEW p \in Nat, p > 1, NEW n \in Nat, NEW i \in 1..(n - 1),
         (p - 1) + (7 - k) = i, NEW j \in (p - 1)..((p - 1) + (2 - k))
  PROVE  j + 1 \in p..(p + (2 - k)) /\ j \in 1..(n - 1)
OBVIOUS

LEMMA ClimbTail ==
  ASSUME NEW r, NEW s \in Seq(StepRec), s # <<>>, NEW i \in 1..(Len(s) - 1), NEW v,
         Climbs(r, s, i + 1, v), s[1].do # "promote", s[1] # Step("register", v)
  PROVE  Climbs(r, Tail(s), i, v)
<1>1. /\ Len(s) \in Nat /\ DOMAIN s = 1..Len(s) /\ DOMAIN Tail(s) = 1..(Len(s) - 1)
      /\ \A j \in 1..(Len(s) - 1) : Tail(s)[j] = s[j + 1]
  <2>1. /\ Len(s) \in Nat /\ Len(s) >= 1 /\ DOMAIN s = 1..Len(s)
        /\ Tail(s) \in Seq(StepRec) /\ Len(Tail(s)) = Len(s) - 1
        /\ \A j \in 1..(Len(s) - 1) : Tail(s)[j] = s[j + 1]
    OBVIOUS
  <2> QED
    BY <2>1
<1>2. PICK k \in 0..2, p \in DOMAIN s :
        /\ p + (7 - k) = i + 1
        /\ \A j \in p..(p + (2 - k)) : s[j] = Step("promote", v)
        /\ \A j \in 1..(p - 1) : s[j].do # "promote"
        /\ \/ v \in DOMAIN r /\ r[v].stage = Rung[k]
           \/ k = 0 /\ \E q \in 1..(p - 1) : s[q] = Step("register", v)
  BY DEF Climbs
<1>3. p # 1
  <2>1. p \in p..(p + (2 - k))
    BY <1>1
  <2> QED
    BY <1>2, <2>1 DEF Step
<1>4. p \in Nat /\ p > 1 /\ p - 1 \in DOMAIN Tail(s) /\ (p - 1) + (7 - k) = i
  BY <1>1, <1>2, <1>3
<1>5. ASSUME NEW j \in (p - 1)..((p - 1) + (2 - k)) PROVE Tail(s)[j] = Step("promote", v)
  <2>1. j + 1 \in p..(p + (2 - k)) /\ j \in 1..(Len(s) - 1)
    BY <1>1, <1>4, ClimbArith
  <2> QED
    BY <1>1, <1>2, <2>1
<1>6. ASSUME NEW j \in 1..((p - 1) - 1) PROVE Tail(s)[j].do # "promote"
  <2>1. j + 1 \in 1..(p - 1) /\ j \in 1..(Len(s) - 1)
    BY <1>1, <1>4
  <2> QED
    BY <1>1, <1>2, <2>1
<1>7. ASSUME NEW q \in 1..(p - 1), s[q] = Step("register", v)
      PROVE  \E n \in 1..((p - 1) - 1) : Tail(s)[n] = Step("register", v)
  <2>1. q # 1
    BY <1>7
  <2>2. q - 1 \in 1..((p - 1) - 1) /\ q - 1 \in 1..(Len(s) - 1) /\ (q - 1) + 1 = q
    BY <1>1, <1>4, <2>1
  <2> QED
    BY <1>1, <1>7, <2>2
<1>8. \/ v \in DOMAIN r /\ r[v].stage = Rung[k]
      \/ k = 0 /\ \E n \in 1..((p - 1) - 1) : Tail(s)[n] = Step("register", v)
  BY <1>2, <1>7
<1> QED
  BY <1>4, <1>5, <1>6, <1>8 DEF Climbs

(* A registry that keeps the stage of a policy keeps it climbing.          *)
LEMMA ClimbStage ==
  ASSUME NEW r, NEW t, NEW s, NEW i, NEW v, Climbs(r, s, i, v),
         v \in DOMAIN r => v \in DOMAIN t /\ t[v].stage = r[v].stage
  PROVE  Climbs(t, s, i, v)
BY DEF Climbs

(* The register step puts the policy on the first rung.                    *)
LEMMA ClimbRegister ==
  ASSUME NEW r \in Seq(Meta), NEW s \in Seq(StepRec), s # <<>>, NEW i \in 1..(Len(s) - 1),
         NEW v, Climbs(r, s, i + 1, v), s[1].do = "register", s[1].v = Len(r) + 1
  PROVE  Climbs(Append(r, [stage |-> "candidate", steps |-> 0]), Tail(s), i, v)
<1> DEFINE t == Append(r, [stage |-> "candidate", steps |-> 0])
<1>1. /\ Len(r) \in Nat /\ DOMAIN r = 1..Len(r) /\ DOMAIN t = 1..(Len(r) + 1)
      /\ \A w \in DOMAIN r : t[w] = r[w]
      /\ t[Len(r) + 1] = [stage |-> "candidate", steps |-> 0]
  OBVIOUS
<1>2. /\ Len(s) \in Nat /\ Len(s) >= 1 /\ DOMAIN s = 1..Len(s)
      /\ Tail(s) \in Seq(StepRec) /\ Len(Tail(s)) = Len(s) - 1
      /\ DOMAIN Tail(s) = 1..(Len(s) - 1)
      /\ \A j \in 1..(Len(s) - 1) : Tail(s)[j] = s[j + 1]
  <2>1. /\ Len(s) \in Nat /\ Len(s) >= 1 /\ DOMAIN s = 1..Len(s)
        /\ Tail(s) \in Seq(StepRec) /\ Len(Tail(s)) = Len(s) - 1
        /\ \A j \in 1..(Len(s) - 1) : Tail(s)[j] = s[j + 1]
    OBVIOUS
  <2> QED
    BY <2>1
<1>3. CASE s[1] # Step("register", v)
  <2>1. Climbs(r, Tail(s), i, v)
    BY <1>3, ClimbTail
  <2>2. v \in DOMAIN r => v \in DOMAIN t /\ t[v].stage = r[v].stage
    BY <1>1
  <2> QED
    BY <2>1, <2>2, ClimbStage
<1>4. CASE s[1] = Step("register", v)
  <2>1. v = Len(r) + 1
    BY <1>4 DEF Step
  <2>2. PICK k \in 0..2, p \in DOMAIN s :
          /\ p + (7 - k) = i + 1
          /\ \A j \in p..(p + (2 - k)) : s[j] = Step("promote", v)
          /\ \A j \in 1..(p - 1) : s[j].do # "promote"
          /\ \/ v \in DOMAIN r /\ r[v].stage = Rung[k]
             \/ k = 0 /\ \E q \in 1..(p - 1) : s[q] = Step("register", v)
    BY DEF Climbs
  <2>3. k = 0
    BY <1>1, <2>1, <2>2
  <2>4. p # 1
    <3>1. p \in p..(p + (2 - k))
      BY <1>2
    <3> QED
      BY <2>2, <3>1 DEF Step
  <2>5. p \in Nat /\ p > 1 /\ p - 1 \in DOMAIN Tail(s) /\ (p - 1) + (7 - k) = i
    <3>1. p \in Nat /\ p > 1 /\ p <= Len(s) /\ p + (7 - k) = i + 1 /\ Len(s) \in Nat
      BY <1>2, <2>2, <2>4
    <3>2. p - 1 \in 1..(Len(s) - 1)
      BY <3>1
    <3>3. (p - 1) + (7 - k) = i
      BY <2>3, <3>1
    <3> QED
      BY <1>2, <3>1, <3>2, <3>3
  <2>6. ASSUME NEW j \in (p - 1)..((p - 1) + (2 - k)) PROVE Tail(s)[j] = Step("promote", v)
    <3>1. j + 1 \in p..(p + (2 - k)) /\ j \in 1..(Len(s) - 1)
      <4>1. Len(s) \in Nat /\ p \in Nat /\ p > 1 /\ (p - 1) + (7 - k) = i
        BY <1>2, <2>5
      <4> QED
        BY <4>1, ClimbArith
    <3> QED
      BY <1>2, <2>2, <3>1
  <2>7. ASSUME NEW j \in 1..((p - 1) - 1) PROVE Tail(s)[j].do # "promote"
    <3>1. j + 1 \in 1..(p - 1) /\ j \in 1..(Len(s) - 1)
      BY <1>2, <2>5
    <3> QED
      BY <1>2, <2>2, <3>1
  <2>8. v \in DOMAIN t /\ t[v].stage = Rung[k]
    BY <1>1, <2>1, <2>3 DEF Rung
  <2>9. Climbs(t, Tail(s), i, v)
    BY <2>5, <2>6, <2>7, <2>8 DEF Climbs
  <2> QED
    BY <2>9
<1> QED
  BY <1>3, <1>4

(* A promotion takes the policy one rung up; from the last one it is in    *)
(* production.                                                             *)
LEMMA ClimbPromote ==
  ASSUME NEW r, NEW t, NEW s \in Seq(StepRec), s # <<>>, NEW b \in Seq(StepRec),
         NEW i \in 1..(Len(s) - 1), NEW v, Climbs(r, s, i + 1, v),
         s[1].do = "promote", \A j \in DOMAIN b : b[j].do # "promote",
         s[1].v \in DOMAIN t, t[s[1].v].stage = NextStage[r[s[1].v].stage]
  PROVE  \/ v \in DOMAIN t /\ t[v].stage = "production" /\ v = s[1].v /\ i = 5
         \/ Climbs(t, b \o Tail(s), Len(b) + i, v)
<1>1. /\ Len(s) \in Nat /\ Len(s) >= 1 /\ DOMAIN s = 1..Len(s)
      /\ Tail(s) \in Seq(StepRec) /\ Len(Tail(s)) = Len(s) - 1
      /\ \A j \in 1..(Len(s) - 1) : Tail(s)[j] = s[j + 1]
  OBVIOUS
<1>2. PICK k \in 0..2, p \in DOMAIN s :
        /\ p + (7 - k) = i + 1
        /\ \A j \in p..(p + (2 - k)) : s[j] = Step("promote", v)
        /\ \A j \in 1..(p - 1) : s[j].do # "promote"
        /\ \/ v \in DOMAIN r /\ r[v].stage = Rung[k]
           \/ k = 0 /\ \E q \in 1..(p - 1) : s[q] = Step("register", v)
  BY DEF Climbs
<1>3. p = 1
  <2>1. p \in Nat /\ p >= 1 /\ (p > 1 => 1 \in 1..(p - 1))
    BY <1>1
  <2> QED
    BY <1>2, <2>1
<1>4. s[1].v = v
  <2>1. 1 \in p..(p + (2 - k))
    BY <1>3
  <2> QED
    BY <1>2, <2>1 DEF Step
<1>5. v \in DOMAIN r /\ r[v].stage = Rung[k] /\ t[v].stage = NextStage[Rung[k]] /\ v \in DOMAIN t
  <2>1. 1..(p - 1) = {}
    BY <1>3
  <2>2. v \in DOMAIN r /\ r[v].stage = Rung[k]
    BY <1>2, <2>1
  <2> QED
    BY <1>4, <2>2
<1>6. CASE k = 2
  BY <1>2, <1>3, <1>4, <1>5, <1>6 DEF Rung, NextStage
<1>7. CASE k # 2
  <2>1. k + 1 \in 0..2 /\ NextStage[Rung[k]] = Rung[k + 1]
    BY <1>7 DEF Rung, NextStage
  <2>2. /\ Len(b) \in Nat /\ DOMAIN b = 1..Len(b)
        /\ DOMAIN (b \o Tail(s)) = 1..(Len(b) + (Len(s) - 1))
        /\ \A j \in 1..Len(b) : (b \o Tail(s))[j] = b[j]
        /\ \A j \in 1..(Len(b) + (Len(s) - 1)) : j > Len(b) =>
             (b \o Tail(s))[j] = Tail(s)[j - Len(b)]
    <3>1. PICK e \in Seq(StepRec) : e = Tail(s)
      BY <1>1
    <3>2. /\ Len(b) \in Nat /\ DOMAIN b = 1..Len(b)
          /\ DOMAIN (b \o e) = 1..(Len(b) + Len(e))
          /\ \A j \in 1..Len(b) : (b \o e)[j] = b[j]
          /\ \A j \in 1..(Len(b) + Len(e)) : j > Len(b) => (b \o e)[j] = e[j - Len(b)]
      BY CatSteps
    <3>3. Len(e) = Len(s) - 1
      BY <1>1, <3>1
    <3> QED
      BY <3>1, <3>2, <3>3
  <2> DEFINE m == Len(b) + 1
  <2>3. m \in DOMAIN (b \o Tail(s)) /\ m + (7 - (k + 1)) = Len(b) + i
    BY <1>1, <1>2, <1>3, <2>1, <2>2
  <2>4. ASSUME NEW j \in m..(m + (2 - (k + 1)))
        PROVE  (b \o Tail(s))[j] = Step("promote", v)
    <3>1. /\ j - Len(b) \in 1..(Len(s) - 1) /\ j > Len(b) /\ j \in 1..(Len(b) + (Len(s) - 1))
          /\ (j - Len(b)) + 1 \in p..(p + (2 - k))
      BY <1>1, <1>2, <1>3, <2>1, <2>2
    <3>2. (b \o Tail(s))[j] = s[(j - Len(b)) + 1]
      BY <1>1, <2>2, <3>1
    <3> QED
      BY <1>2, <3>1, <3>2
  <2>5. ASSUME NEW j \in 1..(m - 1) PROVE (b \o Tail(s))[j].do # "promote"
    <3>1. j \in 1..Len(b)
      BY <2>2
    <3> QED
      BY <2>2, <3>1
  <2>6. v \in DOMAIN t /\ t[v].stage = Rung[k + 1]
    BY <1>5, <2>1
  <2> HIDE DEF m
  <2>7. Climbs(t, b \o Tail(s), Len(b) + i, v)
    BY <2>1, <2>3, <2>4, <2>5, <2>6 DEF Climbs
  <2> QED
    BY <2>7
<1> QED
  BY <1>6, <1>7

(* Once a policy has been in production no step takes it back.             *)
LEMMA ServedStays ==
  ASSUME TypeInv, [Next]_vars, up, up', NEW v, Served(registry, v)
  PROVE  Served(registry', v)
<1>1. registry \in Seq(Meta) /\ v \in DOMAIN registry /\ registry[v] \in Meta
  BY DEF TypeInv, TypeOK, Served
<1>2. CASE UNCHANGED registry
  BY <1>2 DEF Served
<1>3. ASSUME NEW w \in DOMAIN registry, Rollback(w) PROVE Served(registry', v)
  BY <1>1, <1>3, ArchivedType DEF Rollback, Served, Archived, Meta
<1>4. CASE Register
  BY <1>1, <1>4 DEF Register, Served
<1>5. CASE SaveMeta
  BY <1>1, <1>5 DEF SaveMeta, Served, Meta
<1>6. CASE PromoteStep
  <2>1. Ver \in DOMAIN registry /\ registry[Ver].stage \in DOMAIN NextStage
    BY <1>6 DEF PromoteStep
  <2>2. Ver # v
    BY <2>1 DEF NextStage, Served
  <2>3. CASE NextStage[registry[Ver].stage] = "production"
    <3>1. registry' = [Archived(registry) EXCEPT ![Ver].stage = "production"]
      BY <1>6, <2>3 DEF PromoteStep
    <3> QED
      BY <1>1, <2>2, <3>1, ArchivedType DEF Served, Archived, Meta
  <2>4. CASE NextStage[registry[Ver].stage] # "production"
    <3>1. registry' = [registry EXCEPT ![Ver].stage = NextStage[registry[Ver].stage]]
      BY <1>6, <2>4 DEF PromoteStep
    <3> QED
      BY <1>1, <2>2, <3>1 DEF Served
  <2> QED
    BY <2>3, <2>4
<1>7. CASE Crash \/ Connect
  BY <1>7 DEF Crash, Connect
<1>8. CASE TrainCannotLoad \/ UNCHANGED vars
  BY <1>2, <1>8 DEF TrainCannotLoad, vars, memory
<1> QED
  BY <1>2, <1>3, <1>4, <1>5, <1>6, <1>7, <1>8
     DEF Next, CreatePolicy, Promote, TrainExisting, TrainFirst, SaveModel, SaveRegistry,
         Relink, LoadActive, LoadFails, Learn, LearnFails, Refresh

(* The version an object was made for stays with it while it is held.      *)
LEMMA HeldFrom ==
  ASSUME TypeInv, [Next]_vars, up, up', NEW o \in Objs, o \in {active, selector, local}
  PROVE  heap'[o].from = heap[o].from
<1>1. heap \in [Objs -> Policy] /\ heap[o] \in Policy
  BY DEF TypeInv, TypeOK
<1>2. CASE UNCHANGED heap
  BY <1>2
<1>3. ASSUME NEW p \in FreeObjs, NEW v, NEW w, NewPolicy(p, v, w)
      PROVE  heap'[o].from = heap[o].from
  BY <1>1, <1>3 DEF NewPolicy, FreeObjs
<1>4. CASE Learn
  BY <1>1, <1>4 DEF Learn, Policy
<1>5. CASE LearnFails
  BY <1>1, <1>5 DEF LearnFails, Policy
<1>6. CASE CreatePolicy \/ TrainFirst
  BY <1>3, <1>6 DEF CreatePolicy, TrainFirst
<1>7. CASE TrainExisting
  BY <1>2, <1>3, <1>7 DEF TrainExisting
<1>8. CASE LoadActive
  BY <1>3, <1>8 DEF LoadActive
<1>9. CASE Crash \/ Connect
  BY <1>9 DEF Crash, Connect
<1>10. CASE TrainCannotLoad \/ UNCHANGED vars
  BY <1>2, <1>10 DEF TrainCannotLoad, vars, memory
<1> QED
  BY <1>2, <1>4, <1>5, <1>6, <1>7, <1>8, <1>9, <1>10
     DEF Next, Promote, Rollback, SaveModel, Register, SaveRegistry, PromoteStep, Relink,
         LoadFails, SaveMeta, Refresh

(* A policy that is held and served stays so.                              *)
LEMMA HeldServed ==
  ASSUME TypeInv, [Next]_vars, up, up', NEW o \in Objs, o \in {active, selector, local},
         Served(registry, heap[o].from)
  PROVE  Served(registry', heap'[o].from)
<1>1. PICK v : v = heap[o].from
  OBVIOUS
<1>2. Served(registry', v)
  BY <1>1, ServedStays
<1> QED
  BY <1>1, <1>2, HeldFrom

(* No refresh among the steps: nothing to show.                            *)
NoRefresh(s) == \A i \in DOMAIN s : s[i].do # "refresh"

LEMMA NoRefreshLists ==
  ASSUME NEW v \in Versions
  PROVE  /\ NoRefresh(CreateSteps(v)) /\ NoRefresh(<< Step("promote", v) >>)
         /\ NoRefresh(<< Step("relink", v), Step("load", v), Step("saveRegistry", v) >>)
BY DEF CreateSteps, Step, NoRefresh

(* The first train call: three promotions between the registration and the *)
(* refresh.                                                                *)
LEMMA ClimbFirst ==
  ASSUME NEW r, NEW v \in Versions,
         NEW i \in DOMAIN (CreateSteps(v) \o [j \in 1..3 |-> Step("promote", v)] \o TrainSteps(v)),
         (CreateSteps(v) \o [j \in 1..3 |-> Step("promote", v)] \o TrainSteps(v))[i].do = "refresh"
  PROVE  /\ Climbs(r, CreateSteps(v) \o [j \in 1..3 |-> Step("promote", v)] \o TrainSteps(v), i, v)
         /\ i = 11
         /\ \A j \in 1..5 :
              (CreateSteps(v) \o [m \in 1..3 |-> Step("promote", v)] \o TrainSteps(v))[j + 6]
                = TrainSteps(v)[j]
         /\ DOMAIN (CreateSteps(v) \o [m \in 1..3 |-> Step("promote", v)] \o TrainSteps(v)) = 1..11
<1>1. PICK c \in Seq(StepRec) : c = CreateSteps(v)
  BY CreateStepsType
<1>2. PICK p \in Seq(StepRec) : p = [j \in 1..3 |-> Step("promote", v)]
  BY FollowedLists
<1>3. PICK t \in Seq(StepRec) : t = TrainSteps(v)
  BY TrainStepsType
<1>4. /\ Len(c) = 3 /\ c[2] = Step("register", v)
      /\ \A j \in 1..3 : c[j].do # "promote" /\ c[j].do # "refresh"
  BY <1>1 DEF CreateSteps, Step
<1>5. Len(p) = 3 /\ \A j \in 1..3 : p[j] = Step("promote", v)
  BY <1>2
<1>6. Len(t) = 5
  BY <1>3 DEF TrainSteps
<1>7. /\ c \o p \in Seq(StepRec) /\ Len(c \o p) = 6
      /\ \A j \in 1..3 : (c \o p)[j] = c[j]
      /\ \A j \in 1..6 : j > 3 => (c \o p)[j] = Step("promote", v)
  <2>1. /\ c \o p \in Seq(StepRec) /\ Len(c \o p) = Len(c) + Len(p)
        /\ \A j \in 1..Len(c) : (c \o p)[j] = c[j]
        /\ \A j \in 1..(Len(c) + Len(p)) : j > Len(c) => (c \o p)[j] = p[j - Len(c)]
    BY CatSteps
  <2>2. \A j \in 1..6 : j > 3 => j - 3 \in 1..3
    OBVIOUS
  <2> QED
    BY <1>4, <1>5, <2>1, <2>2
<1>8. PICK l \in Seq(StepRec) : l = (c \o p) \o t
  BY <1>7, CatSteps
<1>9. /\ DOMAIN l = 1..11 /\ \A j \in 1..6 : l[j] = (c \o p)[j]
      /\ \A j \in 1..5 : l[j + 6] = t[j]
  <2>1. PICK d \in Seq(StepRec) : d = c \o p
    BY <1>7
  <2>2. /\ DOMAIN (d \o t) = 1..(Len(d) + Len(t))
        /\ \A j \in 1..Len(d) : (d \o t)[j] = d[j]
        /\ \A j \in 1..(Len(d) + Len(t)) : j > Len(d) => (d \o t)[j] = t[j - Len(d)]
    BY CatSteps
  <2>3. Len(d) = 6 /\ l = d \o t
    BY <1>7, <1>8, <2>1
  <2>4. Len(d) + Len(t) = 11
    BY <1>6, <2>3
  <2>5. DOMAIN l = 1..11 /\ \A j \in 1..6 : l[j] = d[j]
    BY <2>2, <2>3, <2>4
  <2>6. ASSUME NEW j \in 1..5 PROVE l[j + 6] = t[j]
    <3>1. j + 6 \in 1..11 /\ j + 6 > 6 /\ (j + 6) - 6 = j
      OBVIOUS
    <3>2. Len(d) = 6 /\ j + 6 \in 1..(Len(d) + Len(t)) /\ j + 6 > Len(d) /\ (j + 6) - Len(d) = j
      BY <2>3, <2>4, <3>1
    <3>3. (d \o t)[j + 6] = t[(j + 6) - Len(d)]
      BY <2>2, <3>2
    <3> QED
      BY <2>3, <3>2, <3>3
  <2> QED
    BY <2>1, <2>5, <2>6
<1>10. i \in 1..11 /\ l[i].do = "refresh"
  BY <1>1, <1>2, <1>3, <1>8, <1>9
<1>11. /\ \A j \in 1..3 : l[j] = c[j]
       /\ \A j \in 4..6 : l[j] = Step("promote", v)
  <2>1. /\ \A j \in 1..3 : j \in 1..6
        /\ \A j \in 4..6 : j \in 1..6 /\ j > 3
    OBVIOUS
  <2>2. \A j \in 1..3 : l[j] = c[j]
    BY <1>7, <1>9, <2>1
  <2>3. \A j \in 4..6 : l[j] = Step("promote", v)
    BY <1>7, <1>9, <2>1
  <2> QED
    BY <2>2, <2>3
<1>12. i = 11
  <2>1. \A j \in 1..3 : l[j].do # "refresh"
    BY <1>4, <1>11
  <2>2. \A j \in 4..6 : l[j].do # "refresh"
    BY <1>11 DEF Step
  <2>3. i \notin 1..3 /\ i \notin 4..6
    BY <1>10, <2>1, <2>2
  <2>4. \A j \in 1..4 : t[j].do # "refresh"
    BY <1>3 DEF TrainSteps, Step
  <2>5. ASSUME i \in 7..10 PROVE FALSE
    <3>1. i - 6 \in 1..4 /\ i - 6 \in 1..5 /\ (i - 6) + 6 = i
      BY <2>5
    <3> QED
      BY <1>9, <1>10, <2>4, <3>1
  <2> QED
    BY <1>10, <2>3, <2>5
<1>13. Climbs(r, l, i, v)
  <2>1. 4 + (7 - 0) = i /\ 4 \in DOMAIN l /\ 0 \in 0..2
    BY <1>9, <1>12
  <2>2. \A j \in 4..(4 + (2 - 0)) : l[j] = Step("promote", v)
    BY <1>11
  <2>3. \A j \in 1..(4 - 1) : l[j].do # "promote"
    BY <1>4, <1>11
  <2>4. \E q \in 1..(4 - 1) : l[q] = Step("register", v)
    <3>1. 2 \in 1..(4 - 1) /\ l[2] = Step("register", v)
      BY <1>4, <1>11
    <3> QED
      BY <3>1
  <2> QED
    BY <2>1, <2>2, <2>3, <2>4 DEF Climbs
<1>14. \A j \in 1..5 : l[j + 6] = TrainSteps(v)[j]
  BY <1>3, <1>9
<1> QED
  BY <1>1, <1>2, <1>3, <1>8, <1>9, <1>12, <1>13, <1>14

(* A refresh that is still to come, before and after a step that puts b in *)
(* front of what is left.                                                  *)
LEMMA RefreshBefore ==
  ASSUME TypeInv, NEW name, At(name), NEW b \in Seq(StepRec), Proceed(b),
         \A j \in DOMAIN b : b[j].do # "refresh",
         NEW n \in DOMAIN todo', todo'[n].do = "refresh"
  PROVE  /\ todo \in Seq(StepRec) /\ todo # <<>> /\ Len(b) \in Nat
         /\ n \in Nat /\ n - Len(b) \in 1..(Len(todo) - 1)
         /\ Len(todo') = Len(b) + (Len(todo) - 1)
         /\ (n - Len(b)) + 1 \in DOMAIN todo /\ todo'[n] = todo[(n - Len(b)) + 1]
         /\ local' = local /\ local \in Objs
         /\ \A j \in DOMAIN b : todo'[j] = b[j]
         /\ \A j \in DOMAIN todo' : j > Len(b) =>
              (j - Len(b)) + 1 \in DOMAIN todo /\ todo'[j] = todo[(j - Len(b)) + 1]
<1>1. todo \in Seq(StepRec) /\ todo # <<>>
  BY AtFacts
<1>2. /\ Len(todo) \in Nat /\ Len(todo) >= 1 /\ DOMAIN todo = 1..Len(todo)
      /\ Tail(todo) \in Seq(StepRec) /\ Len(Tail(todo)) = Len(todo) - 1
      /\ \A j \in 1..(Len(todo) - 1) : Tail(todo)[j] = todo[j + 1]
  BY <1>1
<1>3. /\ Len(b) \in Nat /\ DOMAIN b = 1..Len(b)
      /\ Len(todo') = Len(b) + (Len(todo) - 1)
      /\ DOMAIN todo' = 1..(Len(b) + (Len(todo) - 1))
      /\ \A j \in 1..Len(b) : todo'[j] = b[j]
      /\ \A j \in DOMAIN todo' : j > Len(b) => todo'[j] = Tail(todo)[j - Len(b)]
  <2>1. PICK e \in Seq(StepRec) : e = Tail(todo)
    BY <1>2
  <2>2. /\ Len(b) \in Nat /\ DOMAIN b = 1..Len(b)
        /\ Len(b \o e) = Len(b) + Len(e)
        /\ DOMAIN (b \o e) = 1..(Len(b) + Len(e))
        /\ \A j \in 1..Len(b) : (b \o e)[j] = b[j]
        /\ \A j \in 1..(Len(b) + Len(e)) : j > Len(b) => (b \o e)[j] = e[j - Len(b)]
    BY CatSteps
  <2>3. Len(e) = Len(todo) - 1 /\ todo' = b \o e
    BY <1>2, <2>1 DEF Proceed
  <2> QED
    BY <2>1, <2>2, <2>3
<1>4. ASSUME NEW j \in DOMAIN todo', j > Len(b)
      PROVE  /\ j - Len(b) \in 1..(Len(todo) - 1)
             /\ (j - Len(b)) + 1 \in DOMAIN todo
             /\ todo'[j] = todo[(j - Len(b)) + 1]
  <2>1. j - Len(b) \in 1..(Len(todo) - 1) /\ (j - Len(b)) + 1 \in DOMAIN todo
    BY <1>2, <1>3, <1>4
  <2> QED
    BY <1>2, <1>3, <1>4, <2>1
<1>5. n \in Nat /\ n > Len(b)
  <2>1. ~(n \in 1..Len(b))
    BY <1>3
  <2> QED
    BY <1>3, <2>1
<1>6. /\ n - Len(b) \in 1..(Len(todo) - 1) /\ (n - Len(b)) + 1 \in DOMAIN todo
      /\ todo'[n] = todo[(n - Len(b)) + 1]
  BY <1>4, <1>5
<1>7. local \in Objs
  BY <1>6 DEF TypeInv, HolderInv, NeedLocal
<1>8. local' = local
  <2>1. todo' # <<>>
    BY <1>3
  <2> QED
    BY <2>1 DEF Proceed
<1> QED
  BY <1>1, <1>3, <1>4, <1>5, <1>6, <1>7, <1>8

LEMMA RefreshInductive ==
  ASSUME TypeInv, TypeInv', ServeInv, [Next]_vars, up, up'
  PROVE  RefreshInv'
<1>1. ASSUME NoRefresh(todo') PROVE RefreshInv'
  BY <1>1 DEF RefreshInv, NoRefresh
<1>2. CASE todo' = <<>>
  BY <1>1, <1>2 DEF NoRefresh
<1>3. CASE CreatePolicy
  <2>1. Len(registry) + 1 \in Versions
    BY <1>3, PolicyAssumption DEF CreatePolicy, TypeInv, TypeOK, Versions
  <2> QED
    BY <1>1, <1>3, <2>1, NoRefreshLists DEF CreatePolicy, Begin
<1>4. ASSUME NEW v \in DOMAIN registry, Promote(v) \/ Rollback(v) PROVE RefreshInv'
  <2>1. v \in Versions
    BY PolicyAssumption DEF TypeInv, TypeOK, Versions
  <2> QED
    BY <1>1, <1>4, <2>1, NoRefreshLists DEF Promote, Rollback, Begin
<1>5. CASE TrainFirst
  <2>1. PICK v : v = Len(registry) + 1
    OBVIOUS
  <2>2. v \in Versions
    BY <1>5, <2>1, PolicyAssumption DEF TrainFirst, TypeInv, TypeOK, Versions
  <2>3. todo' = CreateSteps(v) \o [j \in 1..3 |-> Step("promote", v)] \o TrainSteps(v)
    BY <1>5, <2>1 DEF TrainFirst, Begin
  <2>4. heap'[local'].from = v
    BY <1>5, <2>1 DEF TrainFirst, NewPolicy, FreeObjs, TypeInv, TypeOK
  <2>5. \A i \in DOMAIN todo' : todo'[i].do = "refresh" => Climbs(registry', todo', i, v)
    BY <2>2, <2>3, ClimbFirst
  <2> QED
    BY <2>4, <2>5 DEF RefreshInv
<1>6. CASE TrainExisting
  <2>1. CASE active # NoObj
    <3>1. Served(registry, heap[active].from) /\ active \in Objs
      BY <2>1 DEF ServeInv, TypeInv, TypeOK
    <3>2. local' = active
      BY <1>6, <2>1 DEF TrainExisting
    <3>3. Served(registry', heap'[active].from)
      BY <3>1, HeldServed
    <3> QED
      BY <3>2, <3>3 DEF RefreshInv
  <2>2. CASE active = NoObj
    <3>1. PICK o \in FreeObjs :
            NewPolicy(o, ActiveVersion, model[ActiveVersion]) /\ local' = o
      BY <1>6, <2>2 DEF TrainExisting
    <3>2. ActiveVersion \in InProduction(registry)
      BY <1>6 DEF TrainExisting, ActiveVersion
    <3>3. registry' = registry /\ heap'[local'].from = ActiveVersion
      BY <1>6, <3>1 DEF TrainExisting, NewPolicy, FreeObjs, TypeInv, TypeOK
    <3>4. Served(registry', heap'[local'].from)
      BY <3>2, <3>3 DEF Served, InProduction
    <3> QED
      BY <3>4 DEF RefreshInv
  <2> QED
    BY <2>1, <2>2
<1>7. ASSUME UNCHANGED <<todo, local, registry, heap>> PROVE RefreshInv'
  BY <1>7 DEF ServeInv, RefreshInv
(* A pending refresh and the policy it installs, before and after a step.  *)
<1>8. ASSUME NEW name, At(name), NEW b \in Seq(StepRec), Proceed(b),
             \A j \in DOMAIN b : b[j].do # "refresh",
             NEW n \in DOMAIN todo', todo'[n].do = "refresh"
      PROVE  /\ todo \in Seq(StepRec) /\ todo # <<>> /\ Len(b) \in Nat
             /\ n - Len(b) \in 1..(Len(todo) - 1)
             /\ local' = local /\ heap'[local].from = heap[local].from
             /\ \/ Served(registry', heap'[local'].from)
                \/ Climbs(registry, todo, (n - Len(b)) + 1, heap[local].from)
  <2>1. /\ todo \in Seq(StepRec) /\ todo # <<>> /\ Len(b) \in Nat
        /\ n - Len(b) \in 1..(Len(todo) - 1) /\ (n - Len(b)) + 1 \in DOMAIN todo
        /\ todo'[n] = todo[(n - Len(b)) + 1] /\ local' = local /\ local \in Objs
    BY <1>8, RefreshBefore
  <2>2. heap'[local].from = heap[local].from
    BY <2>1, HeldFrom
  <2>3. \/ Served(registry, heap[local].from)
        \/ Climbs(registry, todo, (n - Len(b)) + 1, heap[local].from)
    BY <1>8, <2>1 DEF ServeInv, RefreshInv
  <2>4. ASSUME Served(registry, heap[local].from)
        PROVE  Served(registry', heap'[local'].from)
    <3>1. PICK o \in Objs : o = local
      BY <2>1
    <3>2. Served(registry', heap'[o].from)
      BY <2>4, <3>1, HeldServed
    <3>3. heap'[local'].from = heap'[o].from
      BY <2>1, <3>1
    <3> QED
      BY <3>2, <3>3 DEF Served
  <2> QED
    BY <2>1, <2>2, <2>3, <2>4
<1>9. ASSUME NEW name, At(name), Proceed(<<>>), name \notin {"promote", "register"},
             \A v \in DOMAIN registry : v \in DOMAIN registry' /\ registry'[v].stage = registry[v].stage
      PROVE  RefreshInv'
  <2> SUFFICES ASSUME NEW n \in DOMAIN todo', todo'[n].do = "refresh",
                      ~Served(registry', heap'[local'].from)
               PROVE  Climbs(registry', todo', n, heap'[local'].from)
    BY DEF RefreshInv
  <2>1. PICK e \in Seq(StepRec) : e = <<>>
    <3>1. <<>> \in Seq(StepRec)
      OBVIOUS
    <3> QED
      BY <3>1
  <2>2. Len(e) = 0 /\ DOMAIN e = {} /\ Proceed(e)
    BY <1>9, <2>1
  <2>3. /\ todo \in Seq(StepRec) /\ todo # <<>> /\ n - Len(e) \in 1..(Len(todo) - 1)
        /\ local' = local /\ heap'[local].from = heap[local].from
        /\ Climbs(registry, todo, (n - Len(e)) + 1, heap[local].from)
    BY <1>8, <1>9, <2>2
  <2>4. n \in Nat /\ n - Len(e) = n
    <3>1. todo' \in Seq(StepRec)
      BY <1>9, ProceedSteps
    <3> QED
      BY <2>2, <3>1
  <2>5. PICK v : v = heap[local].from
    OBVIOUS
  <2>6. todo[1].do = name
    BY <1>9, <2>3 DEF At
  <2>7. Climbs(registry, Tail(todo), n, v)
    <3>1. n \in 1..(Len(todo) - 1) /\ Climbs(registry, todo, n + 1, v)
      BY <2>3, <2>4, <2>5
    <3>2. todo[1].do # "promote" /\ todo[1] # Step("register", v)
      BY <1>9, <2>6 DEF Step
    <3> QED
      BY <2>3, <3>1, <3>2, ClimbTail
  <2>8. Climbs(registry', Tail(todo), n, v)
    BY <1>9, <2>7, ClimbStage
  <2>9. todo' = Tail(todo)
    BY <1>9, ProceedSteps
  <2> QED
    BY <2>3, <2>5, <2>8, <2>9
<1>10. CASE Register
  <2> SUFFICES ASSUME NEW n \in DOMAIN todo', todo'[n].do = "refresh",
                      ~Served(registry', heap'[local'].from)
               PROVE  Climbs(registry', todo', n, heap'[local'].from)
    BY DEF RefreshInv
  <2>1. PICK e \in Seq(StepRec) : e = <<>>
    <3>1. <<>> \in Seq(StepRec)
      OBVIOUS
    <3> QED
      BY <3>1
  <2>2. At("register") /\ Len(e) = 0 /\ DOMAIN e = {} /\ Proceed(e) /\ Proceed(<<>>)
    BY <1>10, <2>1 DEF Register
  <2>3. /\ todo \in Seq(StepRec) /\ todo # <<>> /\ n - Len(e) \in 1..(Len(todo) - 1)
        /\ local' = local /\ heap'[local].from = heap[local].from
        /\ Climbs(registry, todo, (n - Len(e)) + 1, heap[local].from)
    BY <1>8, <2>2
  <2>4. todo' = Tail(todo) /\ todo' \in Seq(StepRec) /\ todo[1] = Head(todo)
    BY <2>2, ProceedSteps
  <2>5. n \in Nat /\ n - Len(e) = n
    BY <2>2, <2>4
  <2>6. PICK v : v = heap[local].from
    OBVIOUS
  <2>7. /\ todo[1].do = "register" /\ todo[1].v = Len(registry) + 1 /\ registry \in Seq(Meta)
        /\ registry' = Append(registry, [stage |-> "candidate", steps |-> 0])
    BY <1>10, <2>4 DEF Register, At, Ver, TypeInv, TypeOK
  <2>8. n \in 1..(Len(todo) - 1) /\ Climbs(registry, todo, n + 1, v)
    BY <2>3, <2>5, <2>6
  <2>9. Climbs(registry', Tail(todo), n, v)
    BY <2>3, <2>7, <2>8, ClimbRegister
  <2> QED
    BY <2>3, <2>4, <2>6, <2>9
<1>11. CASE PromoteStep
  <2> SUFFICES ASSUME NEW n \in DOMAIN todo', todo'[n].do = "refresh",
                      ~Served(registry', heap'[local'].from)
               PROVE  Climbs(registry', todo', n, heap'[local'].from)
    BY DEF RefreshInv
  <2>1. /\ At("promote") /\ Ver \in Versions /\ Ver \in DOMAIN registry
        /\ registry[Ver].stage \in DOMAIN NextStage /\ registry \in Seq(Meta)
    BY <1>11, AtFacts DEF PromoteStep, TypeInv, TypeOK
  <2>2. PICK b \in Seq(StepRec) :
          Proceed(b) /\ \A j \in DOMAIN b : b[j].do # "promote" /\ b[j].do # "refresh"
    <3>1. CASE NextStage[registry[Ver].stage] = "production"
      <4>1. PICK b \in Seq(StepRec) :
              b = << Step("relink", Ver), Step("load", Ver), Step("saveRegistry", Ver) >>
        BY <2>1, PushedType
      <4>2. Proceed(b)
        BY <1>11, <3>1, <4>1 DEF PromoteStep
      <4>3. \A j \in DOMAIN b : b[j].do # "promote" /\ b[j].do # "refresh"
        BY <4>1 DEF Step
      <4> QED
        BY <4>2, <4>3
    <3>2. CASE NextStage[registry[Ver].stage] # "production"
      <4>1. PICK b \in Seq(StepRec) : b = << Step("saveRegistry", Ver) >>
        BY <2>1, PushedType
      <4>2. Proceed(b)
        BY <1>11, <3>2, <4>1 DEF PromoteStep
      <4>3. \A j \in DOMAIN b : b[j].do # "promote" /\ b[j].do # "refresh"
        BY <4>1 DEF Step
      <4> QED
        BY <4>2, <4>3
    <3> QED
      BY <3>1, <3>2
  <2>3. /\ todo \in Seq(StepRec) /\ todo # <<>> /\ n - Len(b) \in 1..(Len(todo) - 1)
        /\ local' = local /\ heap'[local].from = heap[local].from /\ Len(b) \in Nat
        /\ Climbs(registry, todo, (n - Len(b)) + 1, heap[local].from)
    BY <1>8, <2>1, <2>2
  <2>4. PICK v : v = heap[local].from
    OBVIOUS
  <2>5. PICK i \in 1..(Len(todo) - 1) : i = n - Len(b)
    BY <2>3
  <2>6. todo' = b \o Tail(todo) /\ todo[1].do = "promote" /\ todo[1].v = Ver
    <3>1. todo[1] = Head(todo)
      BY <2>3
    <3> QED
      BY <2>1, <2>2, <3>1 DEF Proceed, At, Ver
  <2>7. Ver \in DOMAIN registry' /\ registry'[Ver].stage = NextStage[registry[Ver].stage]
    <3>1. Archived(registry) \in Seq(Meta) /\ DOMAIN Archived(registry) = DOMAIN registry
      BY <2>1, ArchivedType
    <3>2. CASE NextStage[registry[Ver].stage] = "production"
      <4>1. registry' = [Archived(registry) EXCEPT ![Ver].stage = "production"]
        BY <1>11, <3>2 DEF PromoteStep
      <4>2. Archived(registry)[Ver] \in Meta
        BY <2>1, <3>1
      <4> QED
        BY <2>1, <3>1, <3>2, <4>1, <4>2 DEF Meta
    <3>3. CASE NextStage[registry[Ver].stage] # "production"
      <4>1. registry' = [registry EXCEPT ![Ver].stage = NextStage[registry[Ver].stage]]
        BY <1>11, <3>3 DEF PromoteStep
      <4>2. registry[Ver] \in Meta
        BY <2>1
      <4> QED
        BY <2>1, <4>1, <4>2 DEF Meta
    <3> QED
      BY <3>2, <3>3
  <2>8. Served(registry', v) \/ Climbs(registry', b \o Tail(todo), Len(b) + i, v)
    <3>1. Climbs(registry, todo, i + 1, v)
      BY <2>3, <2>4, <2>5
    <3>2. /\ todo[1].v \in DOMAIN registry'
          /\ registry'[todo[1].v].stage = NextStage[registry[todo[1].v].stage]
      BY <2>6, <2>7
    <3> QED
      BY <2>2, <2>3, <2>6, <3>1, <3>2, ClimbPromote DEF Served
  <2>9. Len(b) + i = n
    <3>1. todo' \in Seq(StepRec)
      BY DEF TypeInv, TypeOK, StepRec
    <3>2. n \in Nat
      BY <3>1
    <3> QED
      BY <2>3, <2>5, <3>2
  <2> QED
    BY <2>3, <2>4, <2>6, <2>8, <2>9
<1>12. CASE SaveMeta
  <2>1. \A v \in DOMAIN registry : v \in DOMAIN registry' /\ registry'[v].stage = registry[v].stage
    BY <1>12 DEF SaveMeta, TypeInv, TypeOK, Meta
  <2> QED
    BY <1>9, <1>12, <2>1 DEF SaveMeta
<1>13. CASE SaveModel \/ SaveRegistry \/ Relink
  BY <1>9, <1>13 DEF SaveModel, SaveRegistry, Relink
<1>14. CASE LoadActive \/ Learn \/ Refresh
  BY <1>9, <1>14 DEF LoadActive, Learn, Refresh
<1>15. CASE LoadFails \/ LearnFails \/ Crash \/ Connect
  BY <1>2, <1>15 DEF LoadFails, LearnFails, Raise, Crash, Connect
<1>16. CASE TrainCannotLoad \/ UNCHANGED vars
  BY <1>7, <1>16 DEF TrainCannotLoad, vars, memory
<1> QED
  BY <1>3, <1>4, <1>5, <1>6, <1>10, <1>11, <1>12, <1>13, <1>14, <1>15, <1>16 DEF Next

LEMMA ServeInductive ==
  ASSUME TypeInv, TypeInv', LoadNext, ServeInv, [Next]_vars
  PROVE  ServeInv'
<1>1. CASE ~up'
  <2>1. CASE up
    <3>1. Crash
      BY <1>1, <2>1, UpChanges
    <3> QED
      BY <1>1, <3>1 DEF Crash, ServeInv, RefreshInv
  <2>2. CASE ~up
    <3>1. UNCHANGED vars
      BY <1>1, <2>2, UpChanges
    <3> QED
      BY <3>1 DEF ServeInv, RefreshInv, vars, memory
  <2> QED
    BY <2>1, <2>2
<1>2. CASE Connect
  <2>1. ~up /\ todo' = <<>> /\ up' /\ active = NoObj /\ selector = NoObj /\ registry' = file
    BY <1>2 DEF Connect, ServeInv
  <2>2. CASE InProduction(file) = {}
    BY <1>2, <2>1, <2>2 DEF Connect, ServeInv, RefreshInv
  <2>3. CASE InProduction(file) # {}
    <3>1. PICK v \in InProduction(file), o \in Objs :
            NewPolicy(o, v, model[v]) /\ active' = o /\ selector' = o
      BY <1>2, <2>3 DEF Connect
    <3>2. heap'[o].from = v
      BY <3>1 DEF NewPolicy, TypeInv, TypeOK
    <3>3. Served(registry', v)
      BY <2>1, <3>1 DEF Served, InProduction
    <3> QED
      BY <2>1, <3>1, <3>2, <3>3 DEF ServeInv, RefreshInv
  <2> QED
    BY <2>2, <2>3
<1>3. CASE up /\ up'
  <2>1. RefreshInv'
    BY <1>3, RefreshInductive
  <2>2. ASSUME active' = active, active # NoObj PROVE Served(registry', heap'[active'].from)
    BY <1>3, <2>2, HeldServed DEF ServeInv, TypeInv, TypeOK
  <2>3. ASSUME selector' = selector, selector # NoObj
        PROVE  Served(registry', heap'[selector'].from)
    BY <1>3, <2>3, HeldServed DEF ServeInv, TypeInv, TypeOK
  <2>4. CASE LoadActive
    <3>1. At("load") /\ registry' = registry /\ selector' = selector
      BY <2>4 DEF LoadActive
    <3>2. todo \in Seq(StepRec) /\ todo # <<>>
      BY <3>1, AtFacts
    <3>3. 1 \in DOMAIN todo /\ todo[1].do = "load" /\ todo[1].v = Ver
      BY <3>1, <3>2 DEF At, Ver
    <3>4. Ver \in InProduction(registry)
      BY <3>3 DEF LoadNext
    <3>5. PICK o \in FreeObjs : NewPolicy(o, Ver, model[Ver]) /\ active' = o
      BY <2>4 DEF LoadActive
    <3>6. heap'[active'].from = Ver
      BY <3>5 DEF NewPolicy, FreeObjs, TypeInv, TypeOK
    <3>7. Served(registry', heap'[active'].from)
      BY <3>1, <3>4, <3>6 DEF Served, InProduction
    <3> QED
      BY <1>3, <2>1, <2>3, <3>1, <3>7 DEF ServeInv
  <2>5. CASE TrainExisting
    <3>1. selector' = selector /\ registry' = registry
      BY <2>5 DEF TrainExisting
    <3>2. CASE active # NoObj
      <4>1. active' = active
        BY <2>5, <3>2 DEF TrainExisting
      <4> QED
        BY <1>3, <2>1, <2>2, <2>3, <3>1, <3>2, <4>1 DEF ServeInv
    <3>3. CASE active = NoObj
      <4>1. PICK o \in FreeObjs :
              NewPolicy(o, ActiveVersion, model[ActiveVersion]) /\ active' = o
        BY <2>5, <3>3 DEF TrainExisting
      <4>2. ActiveVersion \in InProduction(registry)
        BY <2>5 DEF TrainExisting, ActiveVersion
      <4>3. heap'[active'].from = ActiveVersion
        BY <4>1 DEF NewPolicy, FreeObjs, TypeInv, TypeOK
      <4>4. Served(registry', heap'[active'].from)
        BY <3>1, <4>2, <4>3 DEF Served, InProduction
      <4> QED
        BY <1>3, <2>1, <2>3, <3>1, <4>4 DEF ServeInv
    <3> QED
      BY <3>2, <3>3
  <2>6. CASE Refresh
    <3>1. At("refresh") /\ active' = active /\ selector' = local
      BY <2>6 DEF Refresh
    <3>2. todo \in Seq(StepRec) /\ todo # <<>> /\ local \in Objs
      BY <3>1, AtFacts DEF NeedLocal
    <3>3. 1 \in DOMAIN todo /\ todo[1].do = "refresh"
      BY <3>1, <3>2 DEF At
    <3>4. ~Climbs(registry, todo, 1, heap[local].from)
      <4>1. \A k \in 0..2, p \in DOMAIN todo : ~(p + (7 - k) = 1)
        BY <3>2
      <4> QED
        BY <4>1 DEF Climbs
    <3>5. Served(registry, heap[local].from)
      BY <3>3, <3>4 DEF ServeInv, RefreshInv
    <3>6. Served(registry', heap'[local].from)
      BY <1>3, <3>2, <3>5, HeldServed
    <3> QED
      BY <1>3, <2>1, <2>2, <3>1, <3>6 DEF ServeInv
  <2>7. CASE UNCHANGED <<active, selector>>
    BY <1>3, <2>1, <2>2, <2>3, <2>7 DEF ServeInv
  <2>8. CASE Crash
    BY <1>3, <2>8 DEF Crash
  <2> QED
    BY <1>2, <2>4, <2>5, <2>6, <2>7, <2>8
       DEF Next, vars, memory, CreatePolicy, Promote, Rollback, TrainCannotLoad, TrainFirst,
           SaveModel, Register, SaveRegistry, PromoteStep, Relink, LoadFails, Learn,
           LearnFails, SaveMeta
<1>4. CASE ~up /\ up'
  <2>1. Connect
    BY <1>4, UpChanges
  <2> QED
    BY <1>2, <2>1
<1> QED
  BY <1>1, <1>3, <1>4 DEF TypeInv, TypeOK

(* The selector never predicts with a policy that has not been promoted    *)
(* all the way: every policy it was ever given has been in production.     *)
THEOREM OnlyPromotedServe == Spec => []NeverServesUnpromoted
<1>1. Init => ActiveInv /\ ServeInv
  BY DEF Init, ActiveInv, LoadNext, ServeInv, RefreshInv
<1>2. ServeInv => NeverServesUnpromoted
  BY DEF ServeInv, NeverServesUnpromoted, Served
<1>3. Spec => [](TypeInv /\ AtMostOneProduction)
  <2>1. Spec => []TypeInv
    BY InitTypeInv, TypeInvInductive, PTL DEF Spec
  <2> QED
    BY <2>1, OnlyOneProduction, PTL
<1>4. TypeInv /\ TypeInv' /\ AtMostOneProduction /\ ActiveInv /\ ServeInv /\ [Next]_vars
        => ActiveInv' /\ ServeInv'
  BY ActiveInductive, ServeInductive DEF ActiveInv
<1> QED
  BY <1>1, <1>2, <1>3, <1>4, PTL DEF Spec
-----------------------------------------------------------------------------
(* What training leaves behind.  The refresh is the last step, the four    *)
(* before it are those of training, and what they have written so far is   *)
(* what the policy has learnt; the version they write is the production    *)
(* one, or will be after the promotions in front of them.                  *)
TrainNames == <<"learn", "saveModel", "saveMeta", "saveRegistry", "refresh">>

Arrives(r, s, i, v) ==
  \/ InProduction(r) = {v} /\ \A j \in DOMAIN s : s[j].do # "promote"
  \/ Climbs(r, s, i, v)

TrainingInv ==
  \A i \in DOMAIN todo : todo[i].do = "refresh" =>
    /\ i = Len(todo)
    /\ \A j \in 1..5 : j + i > 5 => todo[(j + i) - 5] = Step(TrainNames[j], todo[i].v)
    /\ i < 4 => model[todo[i].v] = heap[local].weights
    /\ i < 3 => registry[todo[i].v].steps = heap[local].steps
    /\ Arrives(registry, todo, i, todo[i].v)

TrainedInv ==
  /\ ~up => todo = <<>> /\ reply # "trained"
  /\ TrainingInv
  /\ reply = "trained" =>
       /\ todo = <<>> /\ selector \in Objs
       /\ \E v \in DOMAIN registry :
            /\ InProduction(registry) = {v}
            /\ model[v] = heap[selector].weights
            /\ registry[v].steps = heap[selector].steps

(* Once the training steps have begun the version is in production.        *)
LEMMA ArrivedAt ==
  ASSUME NEW r, NEW s \in Seq(StepRec), NEW i \in 1..5, NEW v, Arrives(r, s, i, v)
  PROVE  /\ InProduction(r) = {v} /\ v \in DOMAIN r
         /\ \A j \in DOMAIN s : s[j].do # "promote"
<1>1. ~Climbs(r, s, i, v)
  <2>1. \A k \in 0..2, p \in DOMAIN s : ~(p + (7 - k) = i)
    OBVIOUS
  <2> QED
    BY <2>1 DEF Climbs
<1> QED
  BY <1>1 DEF Arrives, InProduction

(* A step of training that is neither a promotion nor the refresh.         *)
LEMMA TrainingKept ==
  ASSUME TypeInv, TrainingInv, NEW name, At(name), Proceed(<<>>), name # "promote",
         InProduction(registry') = InProduction(registry),
         \/ Register
         \/ /\ name # "register"
            /\ \A v \in DOMAIN registry :
                 v \in DOMAIN registry' /\ registry'[v].stage = registry[v].stage,
         IF name = "saveModel" THEN model' = [model EXCEPT ![Ver] = heap[local].weights]
                               ELSE model' = model,
         name # "learn" /\ local \in Objs =>
           /\ heap'[local].weights = heap[local].weights
           /\ heap'[local].steps = heap[local].steps,
         IF name = "saveMeta" THEN registry'[Ver].steps = heap[local].steps
         ELSE \A v \in DOMAIN registry : registry'[v].steps = registry[v].steps
  PROVE  TrainingInv'
<1> SUFFICES ASSUME NEW n \in DOMAIN todo', todo'[n].do = "refresh"
             PROVE  /\ n = Len(todo')
                    /\ \A j \in 1..5 : j + n > 5 =>
                         todo'[(j + n) - 5] = Step(TrainNames[j], todo'[n].v)
                    /\ n < 4 => model'[todo'[n].v] = heap'[local'].weights
                    /\ n < 3 => registry'[todo'[n].v].steps = heap'[local'].steps
                    /\ Arrives(registry', todo', n, todo'[n].v)
  BY DEF TrainingInv
<1>1. PICK e \in Seq(StepRec) : e = <<>>
  <2>1. <<>> \in Seq(StepRec)
    OBVIOUS
  <2> QED
    BY <2>1
<1>2. Len(e) = 0 /\ DOMAIN e = {} /\ Proceed(e)
  BY <1>1
<1>3. /\ todo \in Seq(StepRec) /\ todo # <<>> /\ n \in Nat
      /\ n - Len(e) \in 1..(Len(todo) - 1) /\ Len(todo') = Len(e) + (Len(todo) - 1)
      /\ (n - Len(e)) + 1 \in DOMAIN todo /\ todo'[n] = todo[(n - Len(e)) + 1]
      /\ local' = local /\ local \in Objs
      /\ \A j \in DOMAIN todo' : j > Len(e) =>
           (j - Len(e)) + 1 \in DOMAIN todo /\ todo'[j] = todo[(j - Len(e)) + 1]
  BY <1>2, RefreshBefore
<1>4. todo' \in Seq(StepRec) /\ todo' = Tail(todo) /\ todo[1] = Head(todo) /\ todo[1] \in StepRec
  BY ProceedSteps, AtFacts
<1>5. PICK i : i = n + 1
  OBVIOUS
<1>6. PICK v \in Versions : v = todo'[n].v
  <2>1. todo'[n] \in StepRec
    BY <1>4
  <2> QED
    BY <2>1 DEF StepRec
<1>7. /\ n \in 1..(Len(todo) - 1) /\ Len(todo') = Len(todo) - 1 /\ Len(todo) \in Nat
      /\ i \in DOMAIN todo /\ todo'[n] = todo[i] /\ DOMAIN todo' = 1..(Len(todo) - 1)
      /\ \A j \in DOMAIN todo' : j \in Nat /\ j + 1 \in DOMAIN todo /\ todo'[j] = todo[j + 1]
  BY <1>2, <1>3, <1>4, <1>5
<1>8. /\ i = Len(todo)
      /\ \A j \in 1..5 : j + i > 5 => todo[(j + i) - 5] = Step(TrainNames[j], v)
      /\ i < 4 => model[v] = heap[local].weights
      /\ i < 3 => registry[v].steps = heap[local].steps
      /\ Arrives(registry, todo, i, v)
  BY <1>6, <1>7 DEF TrainingInv
<1>9. n = Len(todo')
  BY <1>5, <1>7, <1>8
<1>10. ASSUME NEW j \in 1..5, j + n > 5
       PROVE  todo'[(j + n) - 5] = Step(TrainNames[j], v)
  <2>1. (j + n) - 5 \in DOMAIN todo' /\ ((j + n) - 5) + 1 = (j + i) - 5 /\ j + i > 5
    <3>1. n \in Nat /\ n <= Len(todo) - 1 /\ Len(todo) \in Nat /\ i = n + 1
      BY <1>5, <1>7
    <3>2. /\ (j + n) - 5 \in 1..(Len(todo) - 1)
          /\ ((j + n) - 5) + 1 = (j + i) - 5 /\ j + i > 5
      BY <1>10, <3>1
    <3> QED
      BY <1>7, <3>2
  <2> QED
    BY <1>7, <1>8, <2>1
<1>11. name = todo[1].do /\ Ver = todo[1].v
  BY <1>4 DEF At, Ver
<1>12. /\ i = 4 => name = "saveModel" /\ Ver = v
       /\ i = 3 => name = "saveMeta" /\ Ver = v
       /\ i = 2 => name = "saveRegistry" /\ Ver = v
  <2>1. i = 4 => todo[1] = Step(TrainNames[2], v)
    BY <1>8
  <2>2. i = 3 => todo[1] = Step(TrainNames[3], v)
    BY <1>8
  <2>3. i = 2 => todo[1] = Step(TrainNames[4], v)
    BY <1>8
  <2> QED
    BY <1>11, <2>1, <2>2, <2>3 DEF Step, TrainNames
<1>13. i \in Nat /\ i >= 2 /\ (i < 6 => v \in DOMAIN registry)
  <2>1. i \in Nat /\ i >= 2
    BY <1>5, <1>7
  <2>2. ASSUME i < 6 PROVE v \in DOMAIN registry
    <3>1. i \in 1..5
      BY <2>1, <2>2
    <3> QED
      BY <1>3, <1>8, <3>1, ArrivedAt
  <2> QED
    BY <2>1, <2>2
<1>14. n < 4 => model'[v] = heap'[local].weights
  <2>1. CASE i = 4
    BY <1>3, <1>12, <2>1 DEF TypeInv, TypeOK
  <2>2. CASE i < 4
    <3>1. i = 2 \/ i = 3
      BY <1>13, <2>2
    <3> QED
      BY <1>3, <1>8, <1>12, <2>2, <3>1
  <2> QED
    BY <1>5, <1>7, <1>13, <2>1, <2>2
<1>15. n < 3 => registry'[v].steps = heap'[local].steps
  <2>1. CASE i = 3
    BY <1>3, <1>12, <2>1
  <2>2. CASE i < 3
    <3>1. i = 2
      BY <1>13, <2>2
    <3>2. v \in DOMAIN registry /\ name # "saveMeta"
      BY <1>12, <1>13, <3>1
    <3>3. registry'[v].steps = registry[v].steps
      BY <3>2
    <3>4. name # "learn" /\ heap'[local].steps = heap[local].steps
      BY <1>3, <1>12, <3>1
    <3> QED
      BY <1>8, <2>2, <3>3, <3>4
  <2> QED
    BY <1>5, <1>7, <1>13, <2>1, <2>2
<1>16. Arrives(registry', todo', n, v)
  <2>1. CASE InProduction(registry) = {v} /\ \A j \in DOMAIN todo : todo[j].do # "promote"
    BY <1>7, <2>1 DEF Arrives
  <2>2. CASE Climbs(registry, todo, i, v)
    <3>1. n \in 1..(Len(todo) - 1) /\ Climbs(registry, todo, n + 1, v)
      BY <1>5, <1>7, <2>2
    <3>2. CASE Register
      <4>1. /\ todo[1].do = "register" /\ todo[1].v = Len(registry) + 1
            /\ registry \in Seq(Meta)
            /\ registry' = Append(registry, [stage |-> "candidate", steps |-> 0])
        BY <1>4, <3>2 DEF Register, At, Ver, TypeInv, TypeOK
      <4>2. Climbs(registry', Tail(todo), n, v)
        BY <1>3, <3>1, <4>1, ClimbRegister
      <4> QED
        BY <1>4, <4>2 DEF Arrives
    <3>3. CASE /\ name # "register"
               /\ \A w \in DOMAIN registry :
                    w \in DOMAIN registry' /\ registry'[w].stage = registry[w].stage
      <4>1. todo[1].do # "promote" /\ todo[1] # Step("register", v)
        BY <1>11, <3>3 DEF Step
      <4>2. Climbs(registry, Tail(todo), n, v)
        BY <1>3, <3>1, <4>1, ClimbTail
      <4>3. Climbs(registry', Tail(todo), n, v)
        BY <3>3, <4>2, ClimbStage
      <4> QED
        BY <1>4, <4>3 DEF Arrives
    <3> QED
      BY <3>2, <3>3
  <2> QED
    BY <1>8, <2>1, <2>2 DEF Arrives
<1> QED
  BY <1>3, <1>6, <1>9, <1>10, <1>14, <1>15, <1>16

LEMMA TrainingPromote ==
  ASSUME TypeInv, TrainingInv, PromoteStep
  PROVE  TrainingInv'
<1>1. /\ At("promote") /\ Ver \in Versions /\ Ver \in DOMAIN registry /\ registry \in Seq(Meta)
  BY AtFacts DEF PromoteStep, TypeInv, TypeOK
<1>2. PICK b \in Seq(StepRec) :
        /\ Proceed(b) /\ Len(b) >= 1
        /\ \A j \in DOMAIN b : b[j].do # "promote" /\ b[j].do # "refresh"
  <2>1. CASE NextStage[registry[Ver].stage] = "production"
    <3>1. PICK b \in Seq(StepRec) :
            b = << Step("relink", Ver), Step("load", Ver), Step("saveRegistry", Ver) >>
      BY <1>1, PushedType
    <3>2. Proceed(b) /\ Len(b) >= 1
      BY <2>1, <3>1 DEF PromoteStep
    <3>3. \A j \in DOMAIN b : b[j].do # "promote" /\ b[j].do # "refresh"
      BY <3>1 DEF Step
    <3> QED
      BY <3>2, <3>3
  <2>2. CASE NextStage[registry[Ver].stage] # "production"
    <3>1. PICK b \in Seq(StepRec) : b = << Step("saveRegistry", Ver) >>
      BY <1>1, PushedType
    <3>2. Proceed(b) /\ Len(b) >= 1
      BY <2>2, <3>1 DEF PromoteStep
    <3>3. \A j \in DOMAIN b : b[j].do # "promote" /\ b[j].do # "refresh"
      BY <3>1 DEF Step
    <3> QED
      BY <3>2, <3>3
  <2> QED
    BY <2>1, <2>2
<1>3. /\ Ver \in DOMAIN registry' /\ registry'[Ver].stage = NextStage[registry[Ver].stage]
      /\ NextStage[registry[Ver].stage] = "production" => InProduction(registry') = {Ver}
  <2>1. Archived(registry) \in Seq(Meta) /\ DOMAIN Archived(registry) = DOMAIN registry
    BY <1>1, ArchivedType
  <2>2. registry[Ver] \in Meta /\ Archived(registry)[Ver] \in Meta
    BY <1>1, <2>1
  <2>3. CASE NextStage[registry[Ver].stage] = "production"
    <3>1. registry' = [Archived(registry) EXCEPT ![Ver].stage = "production"]
      BY <2>3 DEF PromoteStep
    <3> QED
      BY <1>1, <2>1, <2>2, <2>3, <3>1, ProductionIs DEF Meta
  <2>4. CASE NextStage[registry[Ver].stage] # "production"
    <3>1. registry' = [registry EXCEPT ![Ver].stage = NextStage[registry[Ver].stage]]
      BY <2>4 DEF PromoteStep
    <3> QED
      BY <1>1, <2>2, <2>4, <3>1 DEF Meta
  <2> QED
    BY <2>3, <2>4
<1> SUFFICES ASSUME NEW n \in DOMAIN todo', todo'[n].do = "refresh"
             PROVE  /\ n = Len(todo')
                    /\ \A j \in 1..5 : j + n > 5 =>
                         todo'[(j + n) - 5] = Step(TrainNames[j], todo'[n].v)
                    /\ n < 4 => model'[todo'[n].v] = heap'[local'].weights
                    /\ n < 3 => registry'[todo'[n].v].steps = heap'[local'].steps
                    /\ Arrives(registry', todo', n, todo'[n].v)
  BY DEF TrainingInv
<1>4. /\ todo \in Seq(StepRec) /\ todo # <<>> /\ n \in Nat /\ Len(b) \in Nat
      /\ n - Len(b) \in 1..(Len(todo) - 1) /\ Len(todo') = Len(b) + (Len(todo) - 1)
      /\ (n - Len(b)) + 1 \in DOMAIN todo /\ todo'[n] = todo[(n - Len(b)) + 1]
      /\ \A j \in DOMAIN b : todo'[j] = b[j]
      /\ \A j \in DOMAIN todo' : j > Len(b) =>
           (j - Len(b)) + 1 \in DOMAIN todo /\ todo'[j] = todo[(j - Len(b)) + 1]
  BY <1>1, <1>2, RefreshBefore
<1>5. PICK i \in 1..(Len(todo) - 1) : i = n - Len(b)
  BY <1>4
<1>6. PICK v : v = todo'[n].v
  OBVIOUS
<1>7. todo[1].do = "promote" /\ todo[1].v = Ver /\ 1 \in DOMAIN todo
  BY <1>1, <1>4 DEF At, Ver
<1>8. /\ i + 1 \in DOMAIN todo /\ todo[i + 1].do = "refresh" /\ todo[i + 1].v = v
      /\ i \in Nat /\ n = Len(b) + i
  BY <1>4, <1>5, <1>6
<1>9. /\ i + 1 = Len(todo)
      /\ \A j \in 1..5 : j + (i + 1) > 5 => todo[(j + (i + 1)) - 5] = Step(TrainNames[j], v)
      /\ Arrives(registry, todo, i + 1, v)
  BY <1>8 DEF TrainingInv
<1>10. Climbs(registry, todo, i + 1, v)
  BY <1>7, <1>9 DEF Arrives
<1>11. i >= 5
  <2>1. \A k \in 0..2, p \in DOMAIN todo : p + (7 - k) = i + 1 => i >= 5
    BY <1>4, <1>8
  <2> QED
    BY <1>10, <2>1 DEF Climbs
<1>12. n = Len(todo') /\ n >= 6
  <2>1. Len(todo) - 1 = i
    BY <1>8, <1>9
  <2>2. Len(todo') = Len(b) + i
    BY <1>4, <2>1
  <2>3. n = Len(b) + i /\ i \in Nat
    BY <1>8
  <2>4. Len(b) \in Nat /\ Len(b) >= 1
    BY <1>2, <1>4
  <2>5. n >= 6
    BY <1>11, <2>3, <2>4
  <2> QED
    BY <2>2, <2>3, <2>5
<1>13. todo' \in Seq(StepRec) /\ DOMAIN todo' = 1..Len(todo')
  <2>1. Tail(todo) \in Seq(StepRec)
    BY <1>4
  <2>2. todo' = b \o Tail(todo) /\ todo' \in Seq(StepRec)
    BY <1>2, <2>1, CatSteps DEF Proceed
  <2> QED
    BY <2>2
<1>14. ASSUME NEW j \in 1..5, j + n > 5
       PROVE  todo'[(j + n) - 5] = Step(TrainNames[j], v)
  <2>1. Len(b) \in Nat /\ n = Len(b) + i /\ i \in Nat /\ i >= 5 /\ n \in Nat
    BY <1>4, <1>8, <1>11
  <2>2. (j + n) - 5 > Len(b) /\ (j + n) - 5 >= 1 /\ (j + n) - 5 <= n /\ (j + n) - 5 \in Nat
    <3>1. (j + n) - 5 = (j + Len(b)) + (i - 5) /\ i - 5 \in Nat
      BY <2>1
    <3>2. (j + n) - 5 > Len(b) /\ (j + n) - 5 \in Nat
      BY <2>1, <3>1
    <3> QED
      BY <2>1, <3>2
  <2>3. (((j + n) - 5) - Len(b)) + 1 = (j + (i + 1)) - 5 /\ j + (i + 1) > 5
    BY <2>1
  <2>4. (j + n) - 5 \in DOMAIN todo'
    BY <1>12, <1>13, <2>2
  <2>5. todo'[(j + n) - 5] = todo[(((j + n) - 5) - Len(b)) + 1]
    BY <1>4, <2>2, <2>4
  <2>6. todo[(j + (i + 1)) - 5] = Step(TrainNames[j], v)
    BY <1>9, <2>3
  <2> QED
    BY <2>3, <2>5, <2>6
<1>15. Arrives(registry', todo', n, v)
  <2>1. todo' = b \o Tail(todo)
    BY <1>2 DEF Proceed
  <2>2. \/ /\ v \in DOMAIN registry' /\ registry'[v].stage = "production" /\ v = todo[1].v
           /\ i = 5
        \/ Climbs(registry', b \o Tail(todo), Len(b) + i, v)
    <3>1. /\ todo[1].v \in DOMAIN registry'
          /\ registry'[todo[1].v].stage = NextStage[registry[todo[1].v].stage]
      BY <1>3, <1>7
    <3> QED
      BY <1>2, <1>4, <1>7, <1>10, <3>1, ClimbPromote
  <2>3. CASE /\ v \in DOMAIN registry' /\ registry'[v].stage = "production" /\ v = todo[1].v
             /\ i = 5
    <3>1. InProduction(registry') = {v}
      BY <1>3, <1>7, <2>3
    <3>2. ASSUME NEW j \in DOMAIN todo' PROVE todo'[j].do # "promote"
      <4>1. CASE j <= Len(b)
        <5>1. j \in DOMAIN b
          BY <1>4, <1>13, <4>1
        <5> QED
          BY <1>2, <1>4, <5>1
      <4>2. CASE j > Len(b)
        <5>1. PICK m \in 1..5 : m = j - Len(b)
          <6>1. Len(todo) - 1 = 5 /\ Len(todo') = Len(b) + 5
            <7>1. Len(todo) - 1 = 5
              BY <1>8, <1>9, <2>3
            <7> QED
              BY <1>4, <7>1
          <6>2. j \in 1..(Len(b) + 5) /\ Len(b) \in Nat
            BY <1>4, <1>13, <6>1
          <6>3. j - Len(b) \in 1..5
            BY <4>2, <6>2
          <6> QED
            BY <6>3
        <5>2. todo'[j] = todo[m + 1] /\ (m + (i + 1)) - 5 = m + 1 /\ m + (i + 1) > 5
          <6>1. (m + (i + 1)) - 5 = m + 1 /\ m + (i + 1) > 5
            BY <2>3
          <6>2. todo'[j] = todo[(j - Len(b)) + 1]
            BY <1>4, <4>2
          <6> QED
            BY <5>1, <6>1, <6>2
        <5>3. todo'[j] = Step(TrainNames[m], v)
          BY <1>9, <5>2
        <5> QED
          BY <5>1, <5>3 DEF Step, TrainNames
      <4> QED
        BY <1>4, <1>13, <4>1, <4>2
    <3> QED
      BY <3>1, <3>2 DEF Arrives
  <2>4. CASE Climbs(registry', b \o Tail(todo), Len(b) + i, v)
    BY <1>8, <2>1, <2>4 DEF Arrives
  <2> QED
    BY <2>2, <2>3, <2>4
<1>16. ~(n < 4) /\ ~(n < 3)
  BY <1>4, <1>12
<1> QED
  BY <1>6, <1>12, <1>14, <1>15, <1>16

LEMMA TrainingInductive ==
  ASSUME TypeInv, TypeInv', AtMostOneProduction, TrainedInv, [Next]_vars, up, up'
  PROVE  TrainingInv'
<1>1. ASSUME NoRefresh(todo') PROVE TrainingInv'
  BY <1>1 DEF TrainingInv, NoRefresh
<1>2. CASE todo' = <<>>
  BY <1>1, <1>2 DEF NoRefresh
<1>3. CASE CreatePolicy
  <2>1. Len(registry) + 1 \in Versions
    BY <1>3, PolicyAssumption DEF CreatePolicy, TypeInv, TypeOK, Versions
  <2> QED
    BY <1>1, <1>3, <2>1, NoRefreshLists DEF CreatePolicy, Begin
<1>4. ASSUME NEW v \in DOMAIN registry, Promote(v) \/ Rollback(v) PROVE TrainingInv'
  <2>1. v \in Versions
    BY PolicyAssumption DEF TypeInv, TypeOK, Versions
  <2> QED
    BY <1>1, <1>4, <2>1, NoRefreshLists DEF Promote, Rollback, Begin
<1>5. CASE TrainFirst
  <2>1. PICK v : v = Len(registry) + 1
    OBVIOUS
  <2>2. v \in Versions
    BY <1>5, <2>1, PolicyAssumption DEF TrainFirst, TypeInv, TypeOK, Versions
  <2>3. todo' = CreateSteps(v) \o [j \in 1..3 |-> Step("promote", v)] \o TrainSteps(v)
    BY <1>5, <2>1 DEF TrainFirst, Begin
  <2> SUFFICES ASSUME NEW i \in DOMAIN todo', todo'[i].do = "refresh"
               PROVE  /\ i = Len(todo')
                      /\ \A j \in 1..5 : j + i > 5 =>
                           todo'[(j + i) - 5] = Step(TrainNames[j], todo'[i].v)
                      /\ i < 4 => model'[todo'[i].v] = heap'[local'].weights
                      /\ i < 3 => registry'[todo'[i].v].steps = heap'[local'].steps
                      /\ Arrives(registry', todo', i, todo'[i].v)
    BY DEF TrainingInv
  <2>4. /\ Climbs(registry', todo', i, v) /\ i = 11 /\ DOMAIN todo' = 1..11
        /\ \A j \in 1..5 : todo'[j + 6] = TrainSteps(v)[j]
    BY <2>2, <2>3, ClimbFirst
  <2>5. \A j \in 1..5 : TrainSteps(v)[j] = Step(TrainNames[j], v)
    BY DEF TrainSteps, TrainNames
  <2>6. \A j \in 1..5 : todo'[j + 6] = Step(TrainNames[j], v) /\ (j + i) - 5 = j + 6
    BY <2>4, <2>5
  <2>7. todo'[i].v = v
    <3>1. 5 \in 1..5 /\ 5 + 6 = i
      BY <2>4
    <3>2. todo'[i] = Step(TrainNames[5], v)
      BY <2>6, <3>1
    <3> QED
      BY <3>2 DEF Step
  <2>8. Len(todo') = 11
    <3>1. todo' \in Seq(StepRec)
      BY DEF TypeInv, TypeOK, StepRec
    <3> QED
      BY <2>4, <3>1
  <2> QED
    BY <2>4, <2>6, <2>7, <2>8 DEF Arrives
<1>6. CASE TrainExisting
  <2>1. PICK v : v = ActiveVersion
    OBVIOUS
  <2>2. v \in InProduction(registry) /\ registry' = registry /\ todo' = TrainSteps(v)
    BY <1>6, <2>1 DEF TrainExisting, ActiveVersion, Begin
  <2>3. InProduction(registry') = {v}
    BY <2>2 DEF AtMostOneProduction
  <2>4. /\ DOMAIN todo' = 1..5 /\ Len(todo') = 5
        /\ \A j \in 1..5 : todo'[j] = Step(TrainNames[j], v)
    BY <2>2 DEF TrainSteps, TrainNames
  <2>5. \A j \in 1..5 : todo'[j].do # "promote" /\ todo'[j].v = v
    BY <2>4 DEF Step, TrainNames
  <2>6. \A j \in 1..4 : todo'[j].do # "refresh"
    BY <2>4 DEF Step, TrainNames
  <2>7. ASSUME NEW i \in DOMAIN todo', todo'[i].do = "refresh" PROVE i = 5
    BY <2>4, <2>6, <2>7
  <2>8. \A j \in 1..5 : (j + 5) - 5 = j
    OBVIOUS
  <2>9. ASSUME NEW i \in DOMAIN todo', i = 5
        PROVE  /\ i = Len(todo')
               /\ \A j \in 1..5 : todo'[(j + i) - 5] = Step(TrainNames[j], todo'[i].v)
               /\ ~(i < 4) /\ ~(i < 3)
               /\ Arrives(registry', todo', i, todo'[i].v)
    BY <2>3, <2>4, <2>5, <2>8, <2>9 DEF Arrives
  <2> QED
    BY <2>7, <2>9 DEF TrainingInv
<1>7. ASSUME UNCHANGED <<todo, local, registry, heap, model>> PROVE TrainingInv'
  <2>1. TrainingInv
    BY DEF TrainedInv
  <2> QED
    BY <1>7, <2>1 DEF TrainingInv
<1>8. TrainingInv
  BY DEF TrainedInv
<1>9. CASE SaveModel
  BY <1>8, <1>9, TrainingKept DEF SaveModel
<1>10. CASE Register
  <2>1. InProduction(registry') = InProduction(registry)
    BY <1>10, SameProduction
  <2>2. \A v \in DOMAIN registry : registry'[v].steps = registry[v].steps
    BY <1>10 DEF Register, TypeInv, TypeOK
  <2>3. At("register") /\ Proceed(<<>>) /\ UNCHANGED <<heap, model>>
    BY <1>10 DEF Register, disk
  <2> QED
    BY <1>8, <1>10, <2>1, <2>2, <2>3, TrainingKept
<1>11. CASE SaveRegistry
  BY <1>8, <1>11, TrainingKept DEF SaveRegistry
<1>12. CASE PromoteStep
  BY <1>8, <1>12, TrainingPromote
<1>13. CASE Relink
  BY <1>8, <1>13, TrainingKept DEF Relink
<1>14. CASE LoadActive
  <2>1. At("load") /\ Proceed(<<>>) /\ UNCHANGED <<registry, model>>
    BY <1>14 DEF LoadActive, disk
  <2>2. local \in Objs => heap'[local] = heap[local]
    BY <1>14 DEF LoadActive, NewPolicy, FreeObjs, TypeInv, TypeOK
  <2> QED
    BY <1>8, <2>1, <2>2, TrainingKept
<1>15. CASE Learn
  <2>1. At("learn") /\ Proceed(<<>>) /\ UNCHANGED <<registry, model>>
    BY <1>15 DEF Learn, disk
  <2> QED
    BY <1>8, <2>1, TrainingKept
<1>16. CASE SaveMeta
  <2>1. InProduction(registry') = InProduction(registry)
    BY <1>16, SameProduction
  <2>2. /\ At("saveMeta") /\ Proceed(<<>>) /\ UNCHANGED <<heap, model>>
        /\ registry' = [registry EXCEPT ![Ver].steps = heap[local].steps]
        /\ Ver \in DOMAIN registry
    BY <1>16 DEF SaveMeta, disk
  <2>3. \A v \in DOMAIN registry : registry[v] \in Meta
    BY DEF TypeInv, TypeOK
  <2>4. /\ \A v \in DOMAIN registry : v \in DOMAIN registry' /\ registry'[v].stage = registry[v].stage
        /\ registry'[Ver].steps = heap[local].steps
    BY <2>2, <2>3 DEF Meta
  <2> QED
    BY <1>8, <2>1, <2>2, <2>4, TrainingKept
<1>17. CASE Refresh
  BY <1>8, <1>17, TrainingKept DEF Refresh, disk
<1>18. CASE LoadFails \/ LearnFails \/ Crash \/ Connect
  BY <1>2, <1>18 DEF LoadFails, LearnFails, Raise, Crash, Connect
<1>19. CASE TrainCannotLoad \/ UNCHANGED vars
  BY <1>7, <1>19 DEF TrainCannotLoad, vars, memory, disk
<1> QED
  BY <1>3, <1>4, <1>5, <1>6, <1>9, <1>10, <1>11, <1>12, <1>13, <1>14, <1>15, <1>16, <1>17,
     <1>18, <1>19 DEF Next

(* Only the refresh reports "trained", and the next operation begins by    *)
(* taking the report back.                                                 *)
LEMMA TrainedReply ==
  ASSUME TypeInv, TrainedInv, [Next]_vars, reply' = "trained"
  PROVE  Refresh \/ UNCHANGED vars
<1>1. todo # <<>> => reply # "trained"
  BY DEF TrainedInv
<1>2. CASE CreatePolicy \/ TrainFirst
  BY <1>2 DEF CreatePolicy, TrainFirst, Begin
<1>3. CASE TrainExisting \/ TrainCannotLoad
  BY <1>3 DEF TrainExisting, TrainCannotLoad, Begin
<1>4. CASE \E v \in DOMAIN registry : Promote(v) \/ Rollback(v)
  BY <1>4 DEF Promote, Rollback, Begin
<1>5. CASE SaveModel \/ Register \/ SaveRegistry \/ Relink
  BY <1>1, <1>5 DEF SaveModel, Register, SaveRegistry, Relink, At
<1>6. CASE LoadActive \/ Learn \/ SaveMeta
  BY <1>1, <1>6 DEF LoadActive, Learn, SaveMeta, At
<1>7. CASE PromoteStep
  BY <1>1, <1>7 DEF PromoteStep, At
<1>8. CASE LoadFails \/ LearnFails
  BY <1>8 DEF LoadFails, LearnFails, Raise
<1>9. CASE Crash \/ Connect
  BY <1>9 DEF Crash, Connect, TrainedInv
<1> QED
  BY <1>2, <1>3, <1>4, <1>5, <1>6, <1>7, <1>8, <1>9 DEF Next

LEMMA TrainedInductive ==
  ASSUME TypeInv, TypeInv', AtMostOneProduction, TrainedInv, [Next]_vars
  PROVE  TrainedInv'
<1>1. ASSUME reply' = "trained"
      PROVE  /\ up' /\ todo' = <<>> /\ selector' \in Objs
             /\ \E v \in DOMAIN registry' :
                  /\ InProduction(registry') = {v}
                  /\ model'[v] = heap'[selector'].weights
                  /\ registry'[v].steps = heap'[selector'].steps
  <2>1. CASE UNCHANGED vars
    <3>1. UNCHANGED <<up, todo, selector, registry, model, heap, reply>>
      BY <2>1 DEF vars, memory, disk
    <3> QED
      BY <1>1, <3>1 DEF TrainedInv
  <2>2. CASE Refresh
    <3>1. /\ At("refresh") /\ Proceed(<<>>) /\ selector' = local /\ up'
          /\ UNCHANGED <<registry, model, heap>>
      BY <2>2 DEF Refresh, disk, At
    <3>2. /\ todo \in Seq(StepRec) /\ todo # <<>> /\ local \in Objs
          /\ todo' = Tail(todo) /\ todo[1] = Head(todo) /\ 1 \in DOMAIN todo
      BY <3>1, AtFacts, ProceedSteps DEF NeedLocal
    <3>3. todo[1].do = "refresh"
      BY <3>1, <3>2 DEF At
    <3>4. PICK v : v = todo[1].v
      OBVIOUS
    <3>5. /\ 1 = Len(todo) /\ model[v] = heap[local].weights
          /\ registry[v].steps = heap[local].steps /\ Arrives(registry, todo, 1, v)
      <4>1. /\ 1 = Len(todo) /\ (1 < 4 => model[v] = heap[local].weights)
            /\ (1 < 3 => registry[v].steps = heap[local].steps)
            /\ Arrives(registry, todo, 1, v)
        BY <3>2, <3>3, <3>4 DEF TrainedInv, TrainingInv
      <4> QED
        BY <4>1
    <3>6. todo' = <<>>
      BY <3>2, <3>5
    <3>7. InProduction(registry) = {v} /\ v \in DOMAIN registry
      BY <3>2, <3>5, ArrivedAt
    <3> QED
      BY <3>1, <3>2, <3>5, <3>6, <3>7
  <2> QED
    BY <1>1, <2>1, <2>2, TrainedReply
<1>2. ASSUME up' PROVE TrainingInv'
  <2>1. CASE up
    BY <1>2, <2>1, TrainingInductive
  <2>2. CASE ~up
    <3>1. Connect
      BY <1>2, <2>2, UpChanges
    <3>2. todo' = <<>>
      BY <2>2, <3>1 DEF Connect, TrainedInv
    <3> QED
      BY <3>2 DEF TrainingInv
  <2> QED
    BY <2>1, <2>2
<1>3. ASSUME ~up' PROVE todo' = <<>> /\ reply' # "trained" /\ TrainingInv'
  <2>1. todo' = <<>>
    <3>1. CASE up
      <4>1. Crash
        BY <1>3, <3>1, UpChanges
      <4> QED
        BY <4>1 DEF Crash
    <3>2. CASE ~up
      <4>1. UNCHANGED vars
        BY <1>3, <3>2, UpChanges
      <4> QED
        BY <3>2, <4>1 DEF vars, memory, TrainedInv
    <3> QED
      BY <3>1, <3>2
  <2>2. TrainingInv'
    BY <2>1 DEF TrainingInv
  <2> QED
    BY <1>1, <1>3, <2>1, <2>2
<1> QED
  BY <1>1, <1>2, <1>3 DEF TrainedInv

(* After a train call has reported "trained", the production checkpoint    *)
(* and its entry in the registry are those of the policy that serves.      *)
THEOREM TrainedIsOnDisk == Spec => []TrainedIsCheckpointed
<1>1. Init => TrainedInv
  BY DEF Init, TrainedInv, TrainingInv
<1>2. TrainedInv => TrainedIsCheckpointed
  <2> SUFFICES ASSUME TrainedInv, reply = "trained"
               PROVE  /\ heap[selector].weights = model[Status.version]
                      /\ Status.steps = heap[selector].steps
    BY DEF TrainedIsCheckpointed
  <2>1. PICK v \in DOMAIN registry :
          /\ InProduction(registry) = {v}
          /\ model[v] = heap[selector].weights
          /\ registry[v].steps = heap[selector].steps
    BY DEF TrainedInv
  <2>2. ActiveVersion = v
    BY <2>1 DEF ActiveVersion
  <2>3. Status.version = v /\ Status.steps = registry[v].steps
    BY <2>1, <2>2 DEF Status
  <2> QED
    BY <2>1, <2>3
<1>3. Spec => [](TypeInv /\ AtMostOneProduction)
  <2>1. Spec => []TypeInv
    BY InitTypeInv, TypeInvInductive, PTL DEF Spec
  <2> QED
    BY <2>1, OnlyOneProduction, PTL
<1>4. TypeInv /\ TypeInv' /\ AtMostOneProduction /\ TrainedInv /\ [Next]_vars => TrainedInv'
  BY TrainedInductive
<1> QED
  BY <1>1, <1>2, <1>3, <1>4, PTL DEF Spec
=============================================================================
