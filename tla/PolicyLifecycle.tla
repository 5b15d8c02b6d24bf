--------------------------- MODULE PolicyLifecycle ---------------------------
(***************************************************************************)
(* The PPO policy lifecycle: PolicyManager (_internal/_policy.py) and the  *)
(* train_policy / connect operations of ReinforceSpec (client.py) that     *)
(* drive it.                                                               *)
(*                                                                         *)
(* One server process owns the policies/ directory.  Every operation of    *)
(* PolicyManager is synchronous, so two operations never interleave; what  *)
(* can come between two of its steps is an exception or the death of the   *)
(* process.  An operation is therefore a list of steps (todo), each with   *)
(* at most one durable write, and a crash falls before, after or in the    *)
(* middle of that write.                                                   *)
(*                                                                         *)
(* A PPOPolicy is an object with an identity: the same object can be the   *)
(* manager's _active_policy, the selector's _policy and the local variable *)
(* of train_policy.  Its weights are the set of training iterations that   *)
(* produced them.                                                          *)
(***************************************************************************)
EXTENDS Naturals, Sequences, FiniteSets

CONSTANTS Objs,         (* PPOPolicy instances                             *)
          NoObj,        (* Python's None                                   *)
          Torn,         (* a file whose write was cut short                *)
          Missing,      (* a file that was never written                   *)
          MaxVersions,  (* bound: create_policy calls                      *)
          MaxTrains     (* bound: training iterations                      *)

ASSUME PolicyAssumption ==
  /\ NoObj \notin Objs
  /\ Torn # Missing
  /\ \A w \in SUBSET (0..MaxTrains) : w # Torn /\ w # Missing
  /\ MaxVersions \in Nat \ {0}
  /\ MaxTrains \in Nat \ {0}

VARIABLES
  registry,   (* _registry: policy_id -> metadata; ids are 1, 2, ...       *)
  active,     (* PolicyManager._active_policy                              *)
  selector,   (* HybridSelector._policy                                    *)
  local,      (* the policy the running operation holds                    *)
  heap,       (* the PPOPolicy objects                                     *)
  todo,       (* the steps the running operation still has to take         *)
  up,         (* the process is running and connected                      *)
  reply,      (* status of the last train_policy call                      *)
  aborted,    (* a promote or rollback of this process raised half-way     *)
  iter,       (* training iterations so far                                *)
  file,       (* registry.json                                             *)
  model,      (* vNNN/model.zip                                            *)
  link        (* the version the production symlink names, 0 if none       *)

memory  == <<registry, active, selector, local, heap, todo, up, reply, aborted>>
disk    == <<file, model, link>>
vars    == <<memory, iter, disk>>
-----------------------------------------------------------------------------
Versions == 1..MaxVersions
Stages   == {"candidate", "shadow", "canary", "production", "archived"}
Meta     == [stage : Stages, steps : Nat]

Weights == SUBSET (0..MaxTrains)

(* from is the version the object was created or loaded as.                *)
Policy == [weights : Weights, steps : Nat, from : 0..MaxVersions]
Blank  == [weights |-> {}, steps |-> 0, from |-> 0]

StepNames == {"saveModel", "register", "saveRegistry", "promote", "relink",
              "load", "learn", "saveMeta", "refresh"}

Step(name, v) == [do |-> name, v |-> v]

(* PROMOTION_ORDER: the stage promote() moves a policy to.                 *)
NextStage == [candidate |-> "shadow", shadow |-> "canary",
              canary |-> "production"]

InProduction(r) == {v \in DOMAIN r : r[v].stage = "production"}

(* active_version: the policy of the registry in production (the first one *)
(* met; AtMostOneProduction says that there is no other).                  *)
ActiveVersion == IF InProduction(registry) = {} THEN 0
                 ELSE CHOOSE v \in InProduction(registry) : TRUE

(* get_policy_status: what the registry says of the production policy.     *)
Status == IF InProduction(registry) = {}
          THEN [version |-> 0, stage |-> "candidate", steps |-> 0]
          ELSE [version |-> ActiveVersion, stage |-> registry[ActiveVersion].stage,
                steps |-> registry[ActiveVersion].steps]

(* Mutant of Archived: the predecessor keeps its stage.                    *)
NotArchived(r) == r

(* _archive_current_production                                             *)
Archived(r) ==
  [v \in DOMAIN r |-> IF r[v].stage = "production"
                      THEN [r[v] EXCEPT !.stage = "archived"] ELSE r[v]]

FreeObjs == Objs \ {active, selector, local}

Idle == up /\ todo = <<>>
-----------------------------------------------------------------------------
(* An operation begins.                                                    *)

Begin(steps) ==
  /\ todo' = steps
  /\ reply' = "none"

(* Mutant of CreateSteps: the registry is saved before the checkpoint.     *)
RegisterFirst(v) ==
  << Step("register", v), Step("saveRegistry", v), Step("saveModel", v) >>

(* The steps of create_policy: the checkpoint, then the registry.          *)
CreateSteps(v) ==
  << Step("saveModel", v), Step("register", v), Step("saveRegistry", v) >>

(* Mutants of TrainSteps: the counter stays in memory; the checkpoint is    *)
(* written before learn() has run.                                         *)
CounterNotSaved(v) ==
  << Step("learn", v), Step("saveModel", v), Step("saveMeta", v), Step("refresh", v) >>
CheckpointBeforeLearn(v) ==
  << Step("saveModel", v), Step("learn", v), Step("saveMeta", v),
     Step("saveRegistry", v), Step("refresh", v) >>

(* The end of train_policy: learn, save_checkpoint, refresh the selector.  *)
TrainSteps(v) ==
  << Step("learn", v), Step("saveModel", v), Step("saveMeta", v),
     Step("saveRegistry", v), Step("refresh", v) >>

NewPolicy(o, v, w) == heap' = [heap EXCEPT ![o] = [weights |-> w, steps |-> 0, from |-> v]]

CreatePolicy ==
  /\ Idle
  /\ Len(registry) < MaxVersions
  /\ \E o \in FreeObjs :
       /\ NewPolicy(o, Len(registry) + 1, {})
       /\ local' = o
  /\ Begin(CreateSteps(Len(registry) + 1))
  /\ UNCHANGED <<registry, active, selector, up, aborted, iter, disk>>

(* promote() of an archived policy raises ValueError and of a production   *)
(* policy returns: neither changes anything.                               *)
Promote(v) ==
  /\ Idle
  /\ registry[v].stage \in DOMAIN NextStage
  /\ Begin(<< Step("promote", v) >>)
  /\ UNCHANGED <<registry, active, selector, local, heap, up, aborted, iter, disk>>

(* rollback(): any registered version, whatever its stage.                 *)
Rollback(v) ==
  /\ Idle
  /\ registry' = [Archived(registry) EXCEPT ![v].stage = "production"]
  /\ Begin(<< Step("relink", v), Step("load", v), Step("saveRegistry", v) >>)
  /\ UNCHANGED <<active, selector, local, heap, up, aborted, iter, disk>>

(* train_policy with a production policy: get_production_policy returns    *)
(* the cached object when there is one, and loads the checkpoint if not.   *)
TrainExisting ==
  /\ Idle
  /\ InProduction(registry) # {}
  /\ iter < MaxTrains
  /\ IF active # NoObj
     THEN /\ local' = active
          /\ UNCHANGED <<active, heap>>
     ELSE \E o \in FreeObjs :
            /\ model[ActiveVersion] \notin {Torn, Missing}
            /\ NewPolicy(o, ActiveVersion, model[ActiveVersion])
            /\ active' = o
            /\ local' = o
  /\ Begin(TrainSteps(ActiveVersion))
  /\ UNCHANGED <<registry, selector, up, aborted, iter, disk>>

(* get_production_policy raises: nothing was changed yet.                  *)
TrainCannotLoad ==
  /\ Idle
  /\ InProduction(registry) # {}
  /\ active = NoObj
  /\ reply' = "error"
  /\ UNCHANGED <<registry, active, selector, local, heap, todo, up, aborted, iter, disk>>

(* train_policy without one: create a policy and promote it three times.   *)
TrainFirst ==
  /\ Idle
  /\ InProduction(registry) = {}
  /\ Len(registry) < MaxVersions
  /\ iter < MaxTrains
  /\ LET v == Len(registry) + 1 IN
       /\ \E o \in FreeObjs : NewPolicy(o, v, {}) /\ local' = o
       /\ Begin(CreateSteps(v) \o [i \in 1..3 |-> Step("promote", v)] \o TrainSteps(v))
  /\ UNCHANGED <<registry, active, selector, up, aborted, iter, disk>>
-----------------------------------------------------------------------------
(* The steps of an operation.                                              *)

At(name) == up /\ todo # <<>> /\ Head(todo).do = name
Ver      == Head(todo).v

Proceed(next) ==
  /\ todo' = next \o Tail(todo)
  /\ local' = IF todo' = <<>> THEN NoObj ELSE local

SaveModel ==
  /\ At("saveModel")
  /\ model' = [model EXCEPT ![Ver] = heap[local].weights]
  /\ Proceed(<<>>)
  /\ UNCHANGED <<registry, active, selector, heap, up, reply, aborted, iter, file, link>>

Register ==
  /\ At("register")
  /\ Ver = Len(registry) + 1
  /\ registry' = Append(registry, [stage |-> "candidate", steps |-> 0])
  /\ Proceed(<<>>)
  /\ UNCHANGED <<active, selector, heap, up, reply, aborted, iter, disk>>

SaveRegistry ==
  /\ At("saveRegistry")
  /\ file' = registry
  /\ Proceed(<<>>)
  /\ UNCHANGED <<registry, active, selector, heap, up, reply, aborted, iter, model, link>>

(* promote(): one stage up; production archives its predecessor, moves the *)
(* symlink and loads the policy before the registry is saved.              *)
PromoteStep ==
  /\ At("promote")
  /\ Ver \in DOMAIN registry
  /\ registry[Ver].stage \in DOMAIN NextStage
  /\ LET next == NextStage[registry[Ver].stage] IN
       IF next = "production"
       THEN /\ registry' = [Archived(registry) EXCEPT ![Ver].stage = next]
            /\ Proceed(<< Step("relink", Ver), Step("load", Ver), Step("saveRegistry", Ver) >>)
       ELSE /\ registry' = [registry EXCEPT ![Ver].stage = next]
            /\ Proceed(<< Step("saveRegistry", Ver) >>)
  /\ UNCHANGED <<active, selector, heap, up, reply, aborted, iter, disk>>

Relink ==
  /\ At("relink")
  /\ link' = Ver
  /\ Proceed(<<>>)
  /\ UNCHANGED <<registry, active, selector, heap, up, reply, aborted, iter, file, model>>

(* Mutant of LoadActive: a policy that is already cached is kept.          *)
LoadIfNone ==
  /\ At("load")
  /\ IF active # NoObj THEN UNCHANGED <<active, heap>>
     ELSE \E o \in FreeObjs : NewPolicy(o, Ver, model[Ver]) /\ active' = o
  /\ Proceed(<<>>)
  /\ UNCHANGED <<registry, selector, up, reply, aborted, iter, disk>>

(* _load_policy: a new object, with the weights of the checkpoint and a    *)
(* step counter of zero.                                                   *)
LoadActive ==
  /\ At("load")
  /\ model[Ver] \notin {Torn, Missing}
  /\ \E o \in FreeObjs : NewPolicy(o, Ver, model[Ver]) /\ active' = o
  /\ Proceed(<<>>)
  /\ UNCHANGED <<registry, selector, up, reply, aborted, iter, disk>>

Raise ==
  /\ todo' = <<>>
  /\ local' = NoObj
  /\ reply' = "error"

(* _load_policy raises: what promote() or rollback() did so far stays.     *)
LoadFails ==
  /\ At("load")
  /\ Raise
  /\ aborted' = TRUE
  /\ UNCHANGED <<registry, active, selector, heap, up, iter, disk>>

Learn ==
  /\ At("learn")
  /\ iter < MaxTrains
  /\ iter' = iter + 1
  /\ heap' = [heap EXCEPT ![local].weights = @ \cup {iter'}, ![local].steps = @ + 1]
  /\ Proceed(<<>>)
  /\ UNCHANGED <<registry, active, selector, up, reply, aborted, disk>>

(* PolicyTrainingError: learn() may have changed the weights in place.     *)
LearnFails ==
  /\ At("learn")
  /\ iter < MaxTrains
  /\ iter' = iter + 1
  /\ \E w \in {{}, {iter'}} : heap' = [heap EXCEPT ![local].weights = @ \cup w]
  /\ Raise
  /\ UNCHANGED <<registry, active, selector, up, aborted, disk>>

SaveMeta ==
  /\ At("saveMeta")
  /\ Ver \in DOMAIN registry
  /\ registry' = [registry EXCEPT ![Ver].steps = heap[local].steps]
  /\ Proceed(<<>>)
  /\ UNCHANGED <<active, selector, heap, up, reply, aborted, iter, disk>>

Refresh ==
  /\ At("refresh")
  /\ selector' = local
  /\ reply' = "trained"
  /\ Proceed(<<>>)
  /\ UNCHANGED <<registry, active, heap, up, aborted, iter, disk>>
-----------------------------------------------------------------------------
(* The process dies: its memory is gone and the write it was in the middle *)
(* of is either not begun or cut short.  open(path, "w") truncates, so a   *)
(* registry.json or model.zip cut short no longer parses; the symlink is   *)
(* removed before it is made again.                                        *)
Crash ==
  /\ up
  /\ up' = FALSE
  /\ registry' = <<>>
  /\ active' = NoObj /\ selector' = NoObj /\ local' = NoObj
  /\ heap' = [o \in Objs |-> Blank]
  /\ todo' = <<>>
  /\ reply' = "none"
  /\ aborted' = FALSE
  /\ \/ UNCHANGED disk
     \/ At("saveModel") /\ model' = [model EXCEPT ![Ver] = Torn] /\ UNCHANGED <<file, link>>
     \/ At("saveRegistry") /\ file' = Torn /\ UNCHANGED <<model, link>>
     \/ At("relink") /\ link' = 0 /\ UNCHANGED <<file, model>>
  /\ UNCHANGED iter

(* Mutant of Connect: the newest version is loaded, not the production one.*)
ConnectNewest ==
  /\ ~up
  /\ file \notin {Torn, <<>>}
  /\ \E o \in Objs :
       /\ NewPolicy(o, Len(file), model[Len(file)])
       /\ active' = o
       /\ selector' = o
  /\ registry' = file
  /\ up' = TRUE
  /\ UNCHANGED <<local, todo, reply, aborted, iter, disk>>

(* connect(): read registry.json, load the production policy and give it   *)
(* to the selector.  A torn registry or checkpoint makes it raise, and the *)
(* process stays down.                                                     *)
Connect ==
  /\ ~up
  /\ file # Torn
  /\ LET prod == InProduction(file) IN
       IF prod = {}
       THEN UNCHANGED <<active, selector, heap>>
       ELSE \E v \in prod, o \in Objs :
              /\ model[v] \notin {Torn, Missing}
              /\ NewPolicy(o, v, model[v])
              /\ active' = o
              /\ selector' = o
  /\ registry' = file
  /\ up' = TRUE
  /\ UNCHANGED <<local, todo, reply, aborted, iter, disk>>
-----------------------------------------------------------------------------
(* The directory is empty, or seeded with one trained production policy    *)
(* (scripts/docker_entrypoint.sh copies data/policies).                    *)
Seeded == <<[stage |-> "production", steps |-> 1]>>

Init ==
  /\ registry = <<>>
  /\ active = NoObj /\ selector = NoObj /\ local = NoObj
  /\ heap = [o \in Objs |-> Blank]
  /\ todo = <<>>
  /\ up = FALSE
  /\ reply = "none"
  /\ aborted = FALSE
  /\ iter = 0
  /\ \/ /\ file = <<>>
        /\ model = [v \in Versions |-> Missing]
        /\ link = 0
     \/ /\ file = Seeded
        /\ model = [v \in Versions |-> IF v = 1 THEN {0} ELSE Missing]
        /\ link = 1

Next ==
  \/ CreatePolicy
  \/ \E v \in DOMAIN registry : Promote(v) \/ Rollback(v)
  \/ TrainExisting \/ TrainCannotLoad \/ TrainFirst
  \/ SaveModel \/ Register \/ SaveRegistry \/ PromoteStep \/ Relink
  \/ LoadActive \/ LoadFails \/ Learn \/ LearnFails \/ SaveMeta \/ Refresh
  \/ Crash \/ Connect

Spec == Init /\ [][Next]_vars
-----------------------------------------------------------------------------
TypeOK ==
  /\ registry \in Seq(Meta) /\ Len(registry) <= MaxVersions
  /\ file = Torn \/ (file \in Seq(Meta) /\ Len(file) <= MaxVersions)
  /\ active \in Objs \cup {NoObj}
  /\ selector \in Objs \cup {NoObj}
  /\ local \in Objs \cup {NoObj}
  /\ heap \in [Objs -> Policy]
  /\ todo \in Seq([do : StepNames, v : Versions])
  /\ up \in BOOLEAN /\ aborted \in BOOLEAN
  /\ reply \in {"none", "trained", "error"}
  /\ iter \in 0..MaxTrains
  /\ model \in [Versions -> {Torn, Missing} \cup Weights]
  /\ link \in 0..MaxVersions

(* Neither the registry in memory nor the one a restart would read ever    *)
(* holds two production policies, whatever fails or crashes in between     *)
(* (promote and rollback archive the predecessor first; active_version and *)
(* get_production_policy take the first production policy they meet).      *)
AtMostOneProduction ==
  /\ \A v, w \in InProduction(registry) : v = w
  /\ file # Torn => \A v, w \in InProduction(file) : v = w

(* The policy object the manager hands out was loaded from the version the *)
(* registry says is in production, unless a promote or rollback raised     *)
(* half-way (active_policy: "the currently loaded production policy").     *)
ActiveIsProduction ==
  Idle /\ ~aborted /\ active # NoObj =>
    /\ ActiveVersion # 0
    /\ heap[active].from = ActiveVersion

(* When an operation has returned, a restart would find the registry it    *)
(* left: no acknowledged stage change or training count is only in memory. *)
AcknowledgedIsDurable == Idle /\ ~aborted => file = registry

(* A crash never leaves a registry that names a policy whose checkpoint    *)
(* was never written: create_policy saves the model first.                 *)
RegisteredHasCheckpoint ==
  file # Torn => \A v \in DOMAIN file : model[v] # Missing

(* The selector only ever predicts with a policy that is, or has been, in  *)
(* production: no crash, failed training or failed promotion lets a        *)
(* candidate, shadow or canary policy answer requests.                     *)
NeverServesUnpromoted ==
  up /\ selector # NoObj =>
    registry[heap[selector].from].stage \in {"production", "archived"}

(* After a train call that reported "trained", the weights the selector    *)
(* predicts with are those a restart would load from the production        *)
(* checkpoint, and the status reports the version and the number of        *)
(* trainings of that very policy.                                          *)
TrainedIsCheckpointed ==
  Idle /\ reply = "trained" =>
    /\ heap[selector].weights = model[Status.version]
    /\ Status.steps = heap[selector].steps

(* Training adds to what the checkpoint of a policy has learnt: no write   *)
(* of a checkpoint drops training iterations that the previous checkpoint  *)
(* of a registered policy held.  The code violates it.                     *)
TrainingAccumulates ==
  [][\A v \in DOMAIN registry :
       {model[v], model'[v]} \cap {Torn, Missing} = {} => model[v] \subseteq model'[v]]_vars
=============================================================================
