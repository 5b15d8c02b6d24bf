--------------------------- MODULE LearningProofs ---------------------------
(***************************************************************************)
(* Proofs about Learning in the data loop: for any number of clients,      *)
(* trainers, selections and batches, PPO learns from the record, and the   *)
(* whole of each batch; no environment is left in replay mode; and what    *)
(* the script counts is trained.                                           *)
(*                                                                         *)
(* What a step is paid from is decided by resets that may lie in an earlier*)
(* training.  So the invariant speaks of every environment at all times:   *)
(* the observation its PPO object remembers is the one its rewards are of. *)
(***************************************************************************)
EXTENDS DataLoop, FiniteSetTheorems, SequenceTheorems, TLAPS

(* The observation a PPO object was last shown is a recorded transition,   *)
(* and its environment has the rewards of the same one.                    *)
ObservationInv ==
  \A e \in Envs : lastObs[e] # None => lastObs[e] \in buffer /\ env[e].rewards = lastObs[e]

(* Only the environment of the training that runs is in replay mode.       *)
ReplayInv == \A e \in Envs : env[e].replay # <<>> => (~Quiet /\ learn.env = e)

(* That one has a batch of recorded transitions, and nothing to shape its  *)
(* rewards with.                                                           *)
TrainingInv ==
  ~Quiet => LET e == env[learn.env] IN
    /\ e.replay # <<>>
    /\ \A i \in 1..Len(e.replay) : e.replay[i] \in buffer
    /\ ~e.signal
    /\ lastObs[learn.env] # None

(* Ratings go to the environment of the service.                           *)
SignalInv == ~env["policy"].signal

Inv == LearningTypeOK /\ ObservationInv /\ ReplayInv /\ TrainingInv /\ SignalInv
-----------------------------------------------------------------------------
(* What a sampled batch is.                                                *)
LEMMA Batches ==
  ASSUME LearningTypeOK, buffer # {}, NEW batch \in Sample
  PROVE  /\ batch \in Seq(Transitions) /\ batch # <<>>
         /\ Len(batch) \in 1..BatchSize
         /\ \A i \in 1..Len(batch) : batch[i] \in buffer
<1>1. buffer \subseteq 1..MaxSelects /\ selects \in Nat
  BY LearningAssumption DEF LearningTypeOK
<1>2. IsFiniteSet(buffer)
  <2>1. IsFiniteSet(1..MaxSelects)
    BY FS_Interval, LearningAssumption
  <2> QED
    BY <1>1, <2>1, FS_Subset
<1>3. Cardinality(buffer) \in Nat /\ Cardinality(buffer) # 0
  BY <1>2, FS_CardinalityType, FS_EmptySet
<1>4. PICK n \in 1..BatchSize : batch \in [1..n -> buffer]
  BY <1>3, LearningAssumption DEF Sample
<1>5. batch \in [1..n -> Transitions]
  BY <1>1, <1>4 DEF Transitions
<1>6. batch \in Seq(Transitions) /\ Len(batch) = n
  BY <1>5, LenProperties
<1>7. batch # <<>>
  BY <1>6
<1> QED
  BY <1>4, <1>6, <1>7

(* A reset shows a transition of the batch, and sets the rewards to it.    *)
LEMMA Resets ==
  ASSUME NEW e \in EnvState, e.replay # <<>>
  PROVE  /\ Reset(e) \in EnvState
         /\ Reset(e).replay = e.replay /\ Reset(e).signal = FALSE
         /\ Reset(e).obs = Reset(e).rewards
         /\ \E i \in 1..Len(e.replay) : Reset(e).rewards = e.replay[i]
<1> DEFINE i == (e.next % Len(e.replay)) + 1
<1>1. e.replay \in Seq(Transitions) /\ e.next \in Nat
  BY DEF EnvState
<1>2. Len(e.replay) \in Nat /\ Len(e.replay) > 0
  BY <1>1
<1>3. i \in 1..Len(e.replay)
  BY <1>1, <1>2
<1>4. e.replay[i] \in 0..MaxSelects
  BY <1>1, <1>3, LearningAssumption DEF Transitions
<1> HIDE DEF i
<1>5. Reset(e) = [e EXCEPT !.signal = FALSE, !.next = e.next + 1, !.obs = e.replay[i],
                           !.rewards = e.replay[i]]
  BY DEF Reset, EnvState, i
<1>6. /\ Reset(e).replay = e.replay /\ Reset(e).signal = FALSE
      /\ Reset(e).obs = e.replay[i] /\ Reset(e).rewards = e.replay[i]
  BY <1>5 DEF EnvState
<1>7. Reset(e) \in EnvState
  <2> DEFINE n == e.next + 1
             t == e.replay[i]
  <2>1. n \in Nat /\ t \in 0..MaxSelects
    BY <1>1, <1>4
  <2>2. Reset(e) = [e EXCEPT !.signal = FALSE, !.next = n, !.obs = t, !.rewards = t]
    BY <1>5
  <2> HIDE DEF n, t
  <2> QED
    BY <2>1, <2>2 DEF EnvState
<1> QED
  BY <1>3, <1>6, <1>7

LEMMA Parts ==
  ASSUME LearningTypeOK, NEW e \in Envs
  PROVE  /\ env[e] \in EnvState
         /\ env[e].replay \in Seq(Transitions)
BY DEF LearningTypeOK, EnvState

(* A training that runs is a record, with fields None has not.             *)
LEMMA NotTraining == \A l \in Learn : l # None
BY NoTrainingAssumption

LEMMA Numbers ==
  ASSUME LearningTypeOK, NEW t \in buffer PROVE t \in 0..MaxSelects /\ t # None
<1>1. selects \in 0..MaxSelects /\ t \in 1..selects
  BY DEF LearningTypeOK
<1>2. MaxSelects \in Nat /\ None \notin Nat
  BY LearningAssumption
<1> QED
  BY <1>1, <1>2

LEMMA NewEnvIs == NewEnv \in EnvState /\ NewEnv.replay = <<>> /\ NewEnv.signal = FALSE
<1>1. <<>> \in Seq(Transitions)
  OBVIOUS
<1> QED
  BY <1>1, LearningAssumption DEF NewEnv, EnvState
-----------------------------------------------------------------------------
LEMMA InitInv == LearningInit => Inv
<1> SUFFICES ASSUME LearningInit PROVE Inv
  OBVIOUS
<1> USE DEF LearningInit
<1>1. LearningTypeOK
  BY NewEnvIs, LearningAssumption DEF LearningTypeOK
<1>2. ObservationInv /\ ReplayInv /\ TrainingInv /\ SignalInv
  BY NewEnvIs DEF ObservationInv, ReplayInv, TrainingInv, SignalInv, Quiet, Envs
<1> QED
  BY <1>1, <1>2 DEF Inv

(* Steps while nothing is trained that change neither what a PPO object    *)
(* was shown nor its environment's batch and rewards.                      *)
LEMMA QuietKeeps ==
  ASSUME Inv, LearningTypeOK', Quiet, Quiet', buffer \subseteq buffer',
         ~env'["policy"].signal,
         \A e \in Envs : \/ /\ lastObs'[e] = lastObs[e] /\ env'[e].rewards = env[e].rewards
                            /\ env'[e].replay = env[e].replay
                         \/ lastObs'[e] = None /\ env'[e].replay = <<>>
  PROVE  Inv'
<1>1. ObservationInv'
  BY DEF Inv, ObservationInv
<1>2. ReplayInv'
  BY DEF Inv, ReplayInv
<1>3. TrainingInv' /\ SignalInv'
  BY DEF TrainingInv, SignalInv, Quiet
<1> QED
  BY <1>1, <1>2, <1>3 DEF Inv

LEMMA ShowCandidatesKeeps == Inv /\ ShowCandidates => Inv'
<1> SUFFICES ASSUME Inv, ShowCandidates PROVE Inv'
  OBVIOUS
<1> USE DEF Inv, ShowCandidates, SetCandidates
<1>1. selects \in Nat /\ selects' \in 1..MaxSelects /\ selects' = selects + 1
  BY LearningAssumption DEF LearningTypeOK
<1>2. SetCandidates(env["service"], selects') \in EnvState
  <2>1. env["service"] \in EnvState /\ selects' \in 0..MaxSelects
    BY <1>1, LearningAssumption DEF LearningTypeOK, Envs
  <2> QED
    BY <2>1 DEF EnvState
<1>3. LearningTypeOK'
  BY <1>1, <1>2 DEF LearningTypeOK, Envs
<1>4. /\ ~env'["policy"].signal
      /\ \A e \in Envs : env'[e].rewards = env[e].rewards /\ env'[e].replay = env[e].replay
  BY DEF LearningTypeOK, Envs, EnvState, SignalInv
<1> QED
  BY <1>3, <1>4, QuietKeeps DEF Quiet

LEMMA RecordKeeps ==
  ASSUME NEW t \in pending, Inv, Record(t) \/ Unrecorded(t) PROVE Inv'
<1> USE DEF Inv, Record, Unrecorded
<1>1. LearningTypeOK'
  BY DEF LearningTypeOK
<1>2. buffer \subseteq buffer' /\ ~env'["policy"].signal
  BY DEF SignalInv
<1> QED
  BY <1>1, <1>2, QuietKeeps DEF Quiet

LEMMA SubmitFeedbackKeeps == Inv /\ SubmitFeedback => Inv'
<1> SUFFICES ASSUME Inv, SubmitFeedback PROVE Inv'
  OBVIOUS
<1> USE DEF Inv, SubmitFeedback, SetFeedbackSignal
<1>1. LearningTypeOK'
  BY DEF LearningTypeOK, Envs, EnvState
<1>2. /\ ~env'["policy"].signal
      /\ \A e \in Envs : env'[e].rewards = env[e].rewards /\ env'[e].replay = env[e].replay
  BY DEF LearningTypeOK, Envs, EnvState, SignalInv
<1> QED
  BY <1>1, <1>2, QuietKeeps DEF Quiet

LEMMA ReloadKeeps == Inv /\ Reload => Inv'
<1> SUFFICES ASSUME Inv, Reload PROVE Inv'
  OBVIOUS
<1> USE DEF Inv, Reload
<1>1. LearningTypeOK'
  BY NewEnvIs DEF LearningTypeOK, Envs
<1>2. /\ ~env'["policy"].signal
      /\ env'["policy"].replay = <<>> /\ lastObs'["policy"] = None
      /\ env'["service"] = env["service"] /\ lastObs'["service"] = lastObs["service"]
  BY NewEnvIs DEF LearningTypeOK, Envs
<1> QED
  BY <1>1, <1>2, QuietKeeps DEF Quiet, Envs

LEMMA RestartKeeps == Inv /\ Restart => Inv'
<1> SUFFICES ASSUME Inv, Restart PROVE Inv'
  OBVIOUS
<1> USE DEF Inv, Restart
<1>1. LearningTypeOK'
  BY NewEnvIs DEF LearningTypeOK
<1>2. ObservationInv' /\ ReplayInv' /\ TrainingInv' /\ SignalInv'
  BY NewEnvIs DEF ObservationInv, ReplayInv, TrainingInv, SignalInv, Quiet, Envs
<1> QED
  BY <1>1, <1>2
-----------------------------------------------------------------------------
LEMMA IdleKeeps ==
  ASSUME NEW who \in Callers, Inv, TrainNothing(who) \/ TrainRaises(who) PROVE Inv'
<1> USE DEF Inv
<1>1. CASE TrainNothing(who)
  <2>1. LearningTypeOK'
    BY <1>1 DEF TrainNothing, LearningTypeOK
  <2>2. ~env'["policy"].signal
    BY <1>1 DEF TrainNothing, SignalInv
  <2> QED
    BY <1>1, <2>1, <2>2, QuietKeeps DEF TrainNothing, Quiet
<1>2. CASE TrainRaises(who)
  <2>1. /\ UNCHANGED <<selects, pending, buffer, learn>> /\ Quiet /\ Quiet'
        /\ reply' = [reply EXCEPT ![who] = "error"]
    BY <1>2 DEF TrainRaises, Quiet
  <2>2. CASE UNCHANGED <<production, env, lastObs>>
    <3>1. LearningTypeOK'
      BY <2>1, <2>2 DEF LearningTypeOK
    <3> QED
      BY <2>1, <2>2, <3>1, QuietKeeps DEF SignalInv
  <2>3. CASE /\ production' = TRUE
             /\ env' = [env EXCEPT !["policy"] = NewEnv]
             /\ lastObs' = [lastObs EXCEPT !["policy"] = None]
    <3>1. LearningTypeOK'
      BY <2>1, <2>3, NewEnvIs DEF LearningTypeOK, Envs
    <3>2. /\ ~env'["policy"].signal
          /\ env'["policy"].replay = <<>> /\ lastObs'["policy"] = None
          /\ env'["service"] = env["service"] /\ lastObs'["service"] = lastObs["service"]
      BY <2>3, NewEnvIs DEF LearningTypeOK, Envs
    <3> QED
      BY <2>1, <3>1, <3>2, QuietKeeps DEF Envs
  <2> QED
    BY <1>2, <2>2, <2>3 DEF TrainRaises
<1> QED
  BY <1>1, <1>2

(* The beginning of a training, in environments that meet the invariant.   *)
LEMMA BeginKeeps ==
  ASSUME Inv, NEW who \in Callers, NEW name \in Envs,
         NEW envs \in [Envs -> EnvState], NEW shown \in [Envs -> 0..MaxSelects \cup {None}],
         \A e \in Envs : /\ envs[e].replay = <<>>
                         /\ shown[e] # None => shown[e] \in buffer /\ envs[e].rewards = shown[e],
         ~envs["policy"].signal,
         name = "service" => shown[name] = None,
         buffer # {}, Begin(who, name, envs, shown),
         production' \in BOOLEAN, reply' = [reply EXCEPT ![who] = "none"],
         UNCHANGED <<selects, pending, buffer>>
  PROVE  Inv'
<1> USE DEF Inv
<1> DEFINE first == shown[name] = None
           primed(b) == LoadTransitions(envs[name], b)
           ready(b) == IF first THEN Reset(primed(b)) ELSE primed(b)
<1>1. PICK batch \in Sample, k \in Rollouts :
        /\ env' = [envs EXCEPT ![name] = ready(batch)]
        /\ lastObs' = IF first THEN [shown EXCEPT ![name] = ready(batch).obs] ELSE shown
        /\ learn' = [by |-> who, env |-> name, left |-> k * Rollout, batch |-> batch,
                     first |-> first, met |-> {}]
  BY DEF Begin
<1>2. /\ batch \in Seq(Transitions) /\ batch # <<>>
      /\ Len(batch) \in Nat /\ Len(batch) > 0
      /\ \A i \in 1..Len(batch) : batch[i] \in buffer
  BY Batches
<1>3. /\ primed(batch) \in EnvState /\ primed(batch).replay = batch
      /\ primed(batch).signal = envs[name].signal
      /\ primed(batch).rewards = envs[name].rewards
  <2>1. envs[name] \in EnvState
    OBVIOUS
  <2> QED
    BY <1>2, <2>1 DEF LoadTransitions, EnvState
<1> DEFINE e == ready(batch)
<1> HIDE DEF primed
<1>4. /\ e \in EnvState /\ e.replay = batch /\ ~e.signal
      /\ lastObs'[name] # None /\ lastObs'[name] \in buffer /\ e.rewards = lastObs'[name]
      /\ lastObs' \in [Envs -> 0..MaxSelects \cup {None}]
      /\ \A f \in Envs : f # name => lastObs'[f] = shown[f]
  <2>1. CASE first
    <3>1. /\ Reset(primed(batch)) \in EnvState
          /\ Reset(primed(batch)).replay = batch /\ Reset(primed(batch)).signal = FALSE
          /\ Reset(primed(batch)).obs = Reset(primed(batch)).rewards
          /\ Reset(primed(batch)).rewards \in buffer
      BY <1>2, <1>3, Resets
    <3>3. e = Reset(primed(batch)) /\ lastObs' = [shown EXCEPT ![name] = e.obs]
      BY <1>1, <2>1
    <3> HIDE DEF e
    <3>4. e.obs \in buffer
      BY <3>1, <3>3
    <3>5. e.obs \in 0..MaxSelects /\ e.obs # None
      BY <3>4, Numbers
    <3> QED
      BY <3>1, <3>3, <3>4, <3>5
  <2>2. CASE ~first
    <3>1. e = primed(batch) /\ lastObs' = shown
      BY <1>1, <2>2
    <3>2. name = "policy"
      BY <2>2 DEF Envs
    <3> HIDE DEF e
    <3> QED
      BY <1>3, <2>2, <3>1, <3>2
  <2> QED
    BY <2>1, <2>2
<1>5. env' = [envs EXCEPT ![name] = e]
  BY <1>1
<1> HIDE DEF e, ready, first
<1>6. env' \in [Envs -> EnvState] /\ env'[name] = e /\ \A f \in Envs : f # name => env'[f] = envs[f]
  BY <1>4, <1>5
<1>7. learn' \in Learn /\ learn' # None /\ learn'.env = name
  <2>1. first \in BOOLEAN
    BY DEF first
  <2>2. k * Rollout \in Nat
    BY LearningAssumption
  <2>3. learn' \in Learn
    BY <1>1, <1>2, <2>1, <2>2 DEF Learn
  <2> QED
    BY <1>1, <2>3, NotTraining
<1>8. LearningTypeOK'
  BY <1>4, <1>6, <1>7 DEF LearningTypeOK
<1>9. ObservationInv'
  BY <1>4, <1>6 DEF ObservationInv
<1>10. ReplayInv'
  BY <1>4, <1>6, <1>7 DEF ReplayInv, Quiet
<1>11. TrainingInv'
  BY <1>2, <1>4, <1>6, <1>7 DEF TrainingInv, Quiet
<1>12. SignalInv'
  BY <1>4, <1>6 DEF SignalInv, Envs
<1> QED
  BY <1>8, <1>9, <1>10, <1>11, <1>12

LEMMA TrainKeeps ==
  ASSUME NEW who \in Callers, Inv, TrainFirst(who) \/ TrainProduction(who) \/ TrainerRun(who)
  PROVE  Inv'
<1> USE DEF Inv
<1>1. /\ buffer # {} /\ UNCHANGED <<selects, pending, buffer>>
      /\ reply' = [reply EXCEPT ![who] = "none"] /\ production' \in BOOLEAN
      /\ Quiet
  BY DEF TrainFirst, TrainProduction, TrainerRun, LearningTypeOK
<1>2. /\ env \in [Envs -> EnvState] /\ lastObs \in [Envs -> 0..MaxSelects \cup {None}]
      /\ ~env["policy"].signal
      /\ \A e \in Envs : /\ env[e].replay = <<>>
                         /\ lastObs[e] # None => lastObs[e] \in buffer /\ env[e].rewards = lastObs[e]
  BY <1>1 DEF LearningTypeOK, ReplayInv, ObservationInv, SignalInv
<1> DEFINE fresh == [env EXCEPT !["policy"] = NewEnv]
<1>3. /\ fresh \in [Envs -> EnvState] /\ ~fresh["policy"].signal
      /\ \A e \in Envs : fresh[e].replay = <<>> /\ (e # "policy" => fresh[e] = env[e])
  BY <1>2, NewEnvIs DEF Envs
<1> HIDE DEF fresh
<1>4. CASE Begin(who, "policy", env, lastObs)
  BY <1>1, <1>2, <1>4, BeginKeeps DEF Envs
<1>5. CASE Begin(who, "policy", fresh, [lastObs EXCEPT !["policy"] = None])
  <2> DEFINE shown == [lastObs EXCEPT !["policy"] = None]
  <2>1. /\ shown \in [Envs -> 0..MaxSelects \cup {None}]
        /\ \A e \in Envs : shown[e] # None => e # "policy" /\ shown[e] = lastObs[e]
    BY <1>2 DEF Envs
  <2>2. Begin(who, "policy", fresh, shown)
    BY <1>5
  <2> HIDE DEF shown
  <2>3. \A e \in Envs : /\ fresh[e].replay = <<>>
                        /\ shown[e] # None => shown[e] \in buffer /\ fresh[e].rewards = shown[e]
    BY <1>2, <1>3, <2>1
  <2> QED
    BY <1>1, <1>3, <2>1, <2>2, <2>3, BeginKeeps DEF Envs
<1>6. CASE Begin(who, "service", fresh,
                 [lastObs EXCEPT !["service"] = None, !["policy"] = None])
  <2> DEFINE shown == [lastObs EXCEPT !["service"] = None, !["policy"] = None]
  <2>1. /\ shown \in [Envs -> 0..MaxSelects \cup {None}]
        /\ \A e \in Envs : shown[e] = None
    BY <1>2 DEF Envs
  <2>2. Begin(who, "service", fresh, shown)
    BY <1>6
  <2> HIDE DEF shown
  <2> QED
    BY <1>1, <1>3, <2>1, <2>2, BeginKeeps DEF Envs
<1> QED
  BY <1>4, <1>5, <1>6 DEF TrainFirst, TrainProduction, TrainerRun, fresh
-----------------------------------------------------------------------------
LEMMA StepKeeps == Inv /\ Step => Inv'
<1> SUFFICES ASSUME Inv, Step PROVE Inv'
  OBVIOUS
<1> USE DEF Inv
<1> DEFINE name == learn.env
           e == env[name]
           next == Reset(Stepped(e))
<1>1. /\ learn \in Learn /\ name \in Envs /\ learn.left \in Nat /\ learn.left > 0 /\ ~Quiet
      /\ e \in EnvState /\ e.replay # <<>>
      /\ \A i \in 1..Len(e.replay) : e.replay[i] \in buffer
      /\ lastObs[name] # None
  BY DEF Step, Quiet, LearningTypeOK, Learn, TrainingInv
<1>2. Stepped(e) \in EnvState /\ Stepped(e).replay = e.replay
  BY <1>1 DEF Stepped, EnvState
<1>3. /\ next \in EnvState /\ next.replay = e.replay /\ ~next.signal
      /\ next.obs = next.rewards /\ next.obs \in buffer
  <2> DEFINE s == Stepped(e)
  <2>1. s \in EnvState /\ s.replay = e.replay /\ s.replay # <<>>
    BY <1>1, <1>2
  <2> HIDE DEF s, e
  <2>2. /\ Reset(s) \in EnvState
        /\ Reset(s).replay = s.replay /\ Reset(s).signal = FALSE
        /\ Reset(s).obs = Reset(s).rewards
        /\ \E i \in 1..Len(s.replay) : Reset(s).rewards = s.replay[i]
    BY <2>1, Resets
  <2>3. Reset(s).rewards \in buffer
    BY <1>1, <2>1, <2>2
  <2>4. next = Reset(s)
    BY DEF s
  <2> QED
    BY <2>1, <2>2, <2>3, <2>4
<1> HIDE DEF next
<1>4. next.obs \in 0..MaxSelects /\ next.obs # None
  BY <1>3, Numbers
<1>5. /\ env' = [env EXCEPT ![name] = next]
      /\ lastObs' = [lastObs EXCEPT ![name] = next.obs]
      /\ learn' = [learn EXCEPT !.left = learn.left - 1,
                               !.met = learn.met \cup {lastObs[name]}]
      /\ UNCHANGED <<production, selects, pending, buffer, reply>>
  BY DEF Step, next
<1>6. lastObs[name] \in 0..MaxSelects
  BY <1>1 DEF LearningTypeOK
<1>7. learn' \in Learn /\ learn'.env = name
  <2>1. learn.left - 1 \in Nat /\ learn.met \cup {lastObs[name]} \in SUBSET (0..MaxSelects)
    BY <1>1, <1>6 DEF Learn
  <2> HIDE DEF name
  <2>2. learn' \in Learn /\ learn'.env = learn.env
    BY <1>1, <1>5, <2>1 DEF Learn
  <2> QED
    BY <2>2 DEF name
<1>8. learn' # None
  BY <1>7, NotTraining
<1> HIDE DEF name
<1>9. /\ env' \in [Envs -> EnvState] /\ env'[name] = next
      /\ lastObs' \in [Envs -> 0..MaxSelects \cup {None}] /\ lastObs'[name] = next.obs
      /\ \A f \in Envs : f # name => env'[f] = env[f] /\ lastObs'[f] = lastObs[f]
  BY <1>1, <1>3, <1>4, <1>5 DEF LearningTypeOK
<1>10. LearningTypeOK'
  BY <1>5, <1>7, <1>9 DEF LearningTypeOK
<1>11. ObservationInv'
  BY <1>3, <1>5, <1>9 DEF ObservationInv
<1>12. ReplayInv'
  BY <1>1, <1>7, <1>8, <1>9 DEF ReplayInv, Quiet, name
<1>13. TrainingInv'
  BY <1>1, <1>3, <1>4, <1>5, <1>7, <1>8, <1>9 DEF TrainingInv, Quiet
<1>14. SignalInv'
  BY <1>3, <1>9 DEF SignalInv, Envs
<1> QED
  BY <1>10, <1>11, <1>12, <1>13, <1>14

LEMMA ReturnKeeps ==
  ASSUME Inv, ~Quiet, NEW outcome \in {"trained", "error"}, Return(outcome) PROVE Inv'
<1> USE DEF Inv
<1>1. learn.env \in Envs /\ learn.by \in Callers /\ learn' = None
  BY DEF Quiet, LearningTypeOK, Learn, Return
<1>2. /\ env' = [env EXCEPT ![learn.env] = ClearReplay(env[learn.env])]
      /\ UNCHANGED <<production, selects, pending, buffer, lastObs>>
      /\ reply' = [reply EXCEPT ![learn.by] = outcome]
  BY DEF Return
<1>3. /\ ClearReplay(env[learn.env]) \in EnvState /\ ClearReplay(env[learn.env]).replay = <<>>
      /\ ClearReplay(env[learn.env]).signal = env[learn.env].signal
      /\ ClearReplay(env[learn.env]).rewards = env[learn.env].rewards
  <2>1. env[learn.env] \in EnvState
    BY <1>1 DEF LearningTypeOK
  <2>2. <<>> \in Seq(Transitions)
    OBVIOUS
  <2> QED
    BY <2>1, <2>2 DEF ClearReplay, EnvState
<1>4. LearningTypeOK'
  BY <1>1, <1>2, <1>3 DEF LearningTypeOK
<1>5. \A e \in Envs : env'[e].replay = <<>> /\ env'[e].rewards = env[e].rewards
                      /\ env'[e].signal = env[e].signal
  BY <1>1, <1>2, <1>3 DEF LearningTypeOK, ReplayInv
<1>6. ObservationInv' /\ ReplayInv' /\ TrainingInv' /\ SignalInv'
  BY <1>1, <1>2, <1>5 DEF ObservationInv, ReplayInv, TrainingInv, SignalInv, Quiet, Envs
<1> QED
  BY <1>4, <1>6

LEMMA StutterKeeps == Inv /\ UNCHANGED learning => Inv'
BY DEF Inv, learning, LearningTypeOK, ObservationInv, ReplayInv, TrainingInv, SignalInv, Quiet

(* The script and the others reach this state through these steps only.    *)
LEMMA NextKeeps == Inv /\ [Next]_vars => Inv'
<1> SUFFICES ASSUME Inv, [Next]_vars PROVE Inv'
  OBVIOUS
<1>1. "script" \in Callers /\ Clients \subseteq Callers /\ Facades \subseteq Callers
  BY DataLoopAssumption DEF Callers
<1>2. ASSUME NEW who \in Callers, Training(who) \/ TrainerRun(who) PROVE Inv'
  BY <1>2, IdleKeeps, TrainKeeps DEF Training
<1>3. CASE UNCHANGED learning
  BY <1>3, StutterKeeps
<1>4. CASE ShowCandidates \/ SubmitFeedback \/ Restart
  BY <1>4, ShowCandidatesKeeps, SubmitFeedbackKeeps, RestartKeeps
<1>5. CASE Internal
  <2>1. CASE \E t \in pending : Record(t) \/ Unrecorded(t)
    BY <2>1, RecordKeeps
  <2>2. CASE Step \/ Reload
    BY <2>2, StepKeeps, ReloadKeeps
  <2>3. CASE Trained \/ TrainingFails
    BY <2>3, ReturnKeeps DEF Trained, TrainingFails
  <2> QED
    BY <1>5, <2>1, <2>2, <2>3 DEF Internal
<1>6. CASE Script
  BY <1>1, <1>2, <1>3, <1>4, <1>6
     DEF Script, Greet, Skip, Evaluate, Evaluated, Feedback, Finish, AskTraining, NotTrained,
         TrainingAnswered, Status
<1>7. CASE Abort \/ Service \/ OtherClient \/ ServerRestarts
  BY <1>1, <1>2, <1>3, <1>4, <1>5, <1>7 DEF Abort, Service, OtherClient, ServerRestarts
<1>8. CASE UNCHANGED vars
  BY <1>3, <1>8 DEF vars
<1> QED
  BY <1>6, <1>7, <1>8 DEF Next

(* The inductive invariant holds throughout.                               *)
THEOREM Invariance == Spec => []Inv
<1>1. Init => Inv
  BY InitInv DEF Init
<1> QED
  BY <1>1, NextKeeps, PTL DEF Spec
-----------------------------------------------------------------------------
(* Every step of PPO is shown a recorded transition and is paid from the   *)
(* candidates of that one, whatever was selected, rated or trained before. *)
THEOREM LearnsOnlyTheRecord == Spec => []LearnsTheRecord
<1>1. Inv => LearnsTheRecord
  <2> SUFFICES ASSUME Inv, ~Quiet
      PROVE /\ lastObs[learn.env] \in buffer
            /\ Paid(env[learn.env]).by = lastObs[learn.env]
    BY DEF LearnsTheRecord
  <2> USE DEF Inv
  <2>1. learn.env \in Envs
    BY DEF Quiet, LearningTypeOK, Learn
  <2>2. /\ lastObs[learn.env] \in buffer /\ env[learn.env].rewards = lastObs[learn.env]
        /\ env[learn.env].replay # <<>>
    BY <2>1 DEF ObservationInv, TrainingInv
  <2> QED
    BY <2>2 DEF Paid
<1> QED
  BY <1>1, Invariance, PTL

(* No rating ever shapes a reward of PPO, whatever the order of ratings,   *)
(* trainings, promotions and restarts: no later step makes good what       *)
(* RatingShapesTraining asks of the first one, and the code does not do.   *)
THEOREM NoRatingShapesTraining == Spec => [](~Quiet => ~Paid(env[learn.env]).shaped)
<1>1. Inv /\ ~Quiet => ~Paid(env[learn.env]).shaped
  BY DEF Inv, TrainingInv, Paid
<1> QED
  BY <1>1, Invariance, PTL

(* When no training runs, no environment is in replay mode: also after one *)
(* that failed.                                                            *)
THEOREM ReplayAlwaysEnds == Spec => []ReplayEnds
<1>1. Inv => ReplayEnds
  BY DEF Inv, ReplayInv, ReplayEnds
<1> QED
  BY <1>1, Invariance, PTL

(* Type correctness of the service's part of the state.                    *)
THEOREM LearningTypeCorrect == Spec => []LearningTypeOK
<1>1. Inv => LearningTypeOK
  BY DEF Inv
<1> QED
  BY <1>1, Invariance, PTL
-----------------------------------------------------------------------------
(* The queue goes round in step with the training.  next resets lie behind *)
(* it: the last of them showed the transition at next, the ones before are *)
(* met; and the steps that are left are enough for the rest of the batch,  *)
(* and for one more if the training began with a reset.                    *)
RoundInv ==
  ~Quiet =>
    LET e == env[learn.env]
        n == Len(learn.batch)
    IN  /\ e.replay = learn.batch
        /\ learn.left + e.next >= IF learn.first THEN n + 1 ELSE n
        /\ e.next \in 1..n => lastObs[learn.env] = learn.batch[e.next]
        /\ \A i \in 1..n : i < e.next => learn.batch[i] \in learn.met

(* What a reset does to a queue that has not gone round yet.               *)
LEMMA ResetAdvances ==
  ASSUME NEW e \in EnvState, e.replay # <<>>
  PROVE  /\ Reset(e).replay = e.replay /\ Reset(e).next = e.next + 1
         /\ e.next < Len(e.replay) => Reset(e).obs = e.replay[e.next + 1]
<1> DEFINE t == e.replay[(e.next % Len(e.replay)) + 1]
<1>1. e.replay \in Seq(Transitions) /\ e.next \in Nat
  BY DEF EnvState
<1>2. e.next < Len(e.replay) => e.next % Len(e.replay) = e.next
  BY <1>1
<1>3. e.next < Len(e.replay) => t = e.replay[e.next + 1]
  BY <1>2
<1> HIDE DEF t
<1>4. Reset(e) = [e EXCEPT !.signal = FALSE, !.next = e.next + 1, !.obs = t, !.rewards = t]
  BY DEF Reset, EnvState, t
<1> QED
  BY <1>3, <1>4 DEF EnvState

(* A rollout is at least as long as a batch, so at least so are several.   *)
LEMMA Enough == \A k \in Nat \ {0} : k * Rollout \in Nat /\ k * Rollout >= BatchSize
<1> SUFFICES ASSUME NEW k \in Nat \ {0}
             PROVE  k * Rollout \in Nat /\ k * Rollout >= BatchSize
  OBVIOUS
<1>1. Rollout \in Nat /\ BatchSize \in Nat /\ Rollout >= BatchSize
  BY LearningAssumption
<1>2. (k - 1) * Rollout \in Nat
  BY <1>1
<1>3. k * Rollout = (k - 1) * Rollout + Rollout
  BY <1>1
<1> QED
  BY <1>1, <1>2, <1>3

LEMMA BeginRounds ==
  ASSUME LearningTypeOK, buffer # {}, NEW who, NEW name \in Envs,
         NEW envs \in [Envs -> EnvState], NEW shown \in [Envs -> 0..MaxSelects \cup {None}],
         Begin(who, name, envs, shown)
  PROVE  RoundInv'
<1> DEFINE first == shown[name] = None
           primed(b) == LoadTransitions(envs[name], b)
           ready(b) == IF first THEN Reset(primed(b)) ELSE primed(b)
<1>1. PICK batch \in Sample, k \in Rollouts :
        /\ env' = [envs EXCEPT ![name] = ready(batch)]
        /\ lastObs' = IF first THEN [shown EXCEPT ![name] = ready(batch).obs] ELSE shown
        /\ learn' = [by |-> who, env |-> name, left |-> k * Rollout, batch |-> batch,
                     first |-> first, met |-> {}]
  BY DEF Begin
<1>2. batch \in Seq(Transitions) /\ batch # <<>> /\ Len(batch) \in 1..BatchSize
  BY Batches
<1>3. k * Rollout \in Nat /\ k * Rollout >= Len(batch)
  BY <1>2, Enough, LearningAssumption
<1>4. primed(batch) \in EnvState /\ primed(batch).replay = batch /\ primed(batch).next = 0
  <2>1. envs[name] \in EnvState
    OBVIOUS
  <2> QED
    BY <1>2, <2>1 DEF LoadTransitions, EnvState
<1> HIDE DEF primed
<1> DEFINE e == ready(batch)
<1>5. /\ env'[name] = e /\ learn'.env = name /\ learn'.left = k * Rollout
      /\ learn'.batch = batch /\ learn'.first = first
  BY <1>1
<1>6. CASE first
  <2>1. e = Reset(primed(batch)) /\ lastObs'[name] = e.obs
    BY <1>1, <1>6
  <2>2. e.replay = batch /\ e.next = 1 /\ e.obs = batch[1]
    BY <1>2, <1>4, <2>1, ResetAdvances
  <2> HIDE DEF e, first
  <2> QED
    BY <1>2, <1>3, <1>5, <1>6, <2>1, <2>2 DEF RoundInv
<1>7. CASE ~first
  <2>1. e = primed(batch)
    BY <1>7
  <2> HIDE DEF e, first
  <2> QED
    BY <1>2, <1>3, <1>4, <1>5, <1>7, <2>1 DEF RoundInv
<1> QED
  BY <1>6, <1>7

LEMMA StepRounds == Inv /\ RoundInv /\ Step => RoundInv'
<1> SUFFICES ASSUME Inv, RoundInv, Step PROVE RoundInv'
  OBVIOUS
<1> DEFINE name == learn.env
           e == Stepped(env[name])
           next == Reset(e)
           n == Len(learn.batch)
           o == lastObs[name]
<1>1. /\ ~Quiet /\ learn \in Learn /\ name \in Envs /\ env[name] \in EnvState
      /\ learn.left \in Nat /\ learn.left > 0 /\ env[name].replay # <<>>
  BY DEF Step, Quiet, Inv, LearningTypeOK, Learn, TrainingInv
<1>2. /\ e \in EnvState /\ e.replay = env[name].replay /\ e.next = env[name].next
      /\ e.next \in Nat
  BY <1>1 DEF Stepped, EnvState
<1>3. /\ e.replay = learn.batch /\ learn.batch # <<>> /\ n \in Nat
      /\ learn.left + e.next >= IF learn.first THEN n + 1 ELSE n
      /\ e.next \in 1..n => o = learn.batch[e.next]
      /\ \A i \in 1..n : i < e.next => learn.batch[i] \in learn.met
  BY <1>1, <1>2 DEF RoundInv, Learn
<1> HIDE DEF e
<1>4. /\ next.replay = learn.batch /\ next.next = e.next + 1
      /\ e.next < n => next.obs = learn.batch[e.next + 1]
  BY <1>2, <1>3, ResetAdvances
<1>5. /\ env' = [env EXCEPT ![name] = next]
      /\ lastObs' = [lastObs EXCEPT ![name] = next.obs]
      /\ learn' = [learn EXCEPT !.left = learn.left - 1, !.met = learn.met \cup {o}]
  BY DEF Step, e
<1> HIDE DEF next, name, n, o
<1>6. /\ env'[name] = next /\ lastObs'[name] = next.obs
  BY <1>1, <1>5 DEF Inv, LearningTypeOK
<1>7. /\ learn'.env = name /\ learn'.batch = learn.batch /\ learn'.first = learn.first
      /\ learn'.left = learn.left - 1 /\ learn'.met = learn.met \cup {o}
  BY <1>1, <1>5 DEF Learn, name
<1>8. learn'.left + next.next >= IF learn.first THEN n + 1 ELSE n
  BY <1>1, <1>2, <1>3, <1>4, <1>7
<1>9. next.next \in 1..n => next.obs = learn.batch[next.next]
  BY <1>2, <1>3, <1>4
<1>10. ASSUME NEW i \in 1..n, i < next.next PROVE learn.batch[i] \in learn'.met
  <2>1. i < e.next \/ i = e.next
    BY <1>2, <1>3, <1>4, <1>10
  <2> QED
    BY <1>3, <1>7, <2>1
<1> QED
  BY <1>4, <1>6, <1>7, <1>8, <1>9, <1>10 DEF RoundInv, n

LEMMA NextRounds == Inv /\ RoundInv /\ [Next]_vars => RoundInv'
<1> SUFFICES ASSUME Inv, RoundInv, [Next]_vars PROVE RoundInv'
  OBVIOUS
<1>1. "script" \in Callers /\ Clients \subseteq Callers /\ Facades \subseteq Callers
  BY DataLoopAssumption DEF Callers
<1>2. Quiet' => RoundInv'
  BY DEF RoundInv, Quiet
<1>3. ASSUME NEW who \in Callers, Training(who) \/ TrainerRun(who) PROVE RoundInv'
  <2>1. /\ LearningTypeOK
        /\ env \in [Envs -> EnvState] /\ [env EXCEPT !["policy"] = NewEnv] \in [Envs -> EnvState]
        /\ lastObs \in [Envs -> 0..MaxSelects \cup {None}]
        /\ [lastObs EXCEPT !["policy"] = None] \in [Envs -> 0..MaxSelects \cup {None}]
        /\ [lastObs EXCEPT !["service"] = None, !["policy"] = None]
             \in [Envs -> 0..MaxSelects \cup {None}]
        /\ "service" \in Envs /\ "policy" \in Envs
    BY NewEnvIs DEF Inv, LearningTypeOK, Envs
  <2>2. CASE TrainNothing(who) \/ TrainRaises(who)
    BY <1>2, <2>2 DEF TrainNothing, TrainRaises, Quiet
  <2>3. CASE TrainFirst(who)
    BY <2>1, <2>3, BeginRounds DEF TrainFirst
  <2>4. CASE TrainProduction(who)
    BY <2>1, <2>4, BeginRounds DEF TrainProduction
  <2>5. CASE TrainerRun(who)
    BY <2>1, <2>5, BeginRounds DEF TrainerRun
  <2> QED
    BY <1>3, <2>2, <2>3, <2>4, <2>5 DEF Training
<1>4. CASE UNCHANGED learning
  BY <1>4 DEF learning, RoundInv, Quiet
<1>5. CASE ShowCandidates \/ SubmitFeedback \/ Restart
  BY <1>2, <1>5 DEF ShowCandidates, SubmitFeedback, Restart, Quiet
<1>6. CASE Internal
  BY <1>2, <1>6, StepRounds
     DEF Internal, Record, Unrecorded, Trained, TrainingFails, Return, Reload, Quiet
<1>7. CASE Script
  BY <1>1, <1>3, <1>4, <1>5, <1>7
     DEF Script, Greet, Skip, Evaluate, Evaluated, Feedback, Finish, AskTraining, NotTrained,
         TrainingAnswered, Status
<1>8. CASE Abort \/ Service \/ OtherClient \/ ServerRestarts
  BY <1>1, <1>3, <1>4, <1>5, <1>6, <1>8 DEF Abort, Service, OtherClient, ServerRestarts
<1>9. CASE UNCHANGED vars
  BY <1>4, <1>9 DEF vars
<1> QED
  BY <1>7, <1>8, <1>9 DEF Next

(* A training shows PPO its whole batch, for any batch size and any rollout*)
(* that is no shorter; a PPO object that was trained before may leave one  *)
(* transition, which it is shown first in its next training.               *)
THEOREM WholeBatchIsLearned == Spec => []BatchIsLearned
<1>1. Init => RoundInv
  BY DEF Init, LearningInit, RoundInv, Quiet
<1>2. Inv /\ RoundInv => BatchIsLearned
  <2> SUFFICES ASSUME Inv, RoundInv, ~Quiet, learn.left = 0
               PROVE  {learn.batch[i] : i \in DOMAIN learn.batch} \ learn.met
                        \subseteq IF learn.first THEN {} ELSE {lastObs[learn.env]}
    BY DEF BatchIsLearned
  <2> DEFINE n == Len(learn.batch)
             e == env[learn.env]
  <2>1. learn \in Learn /\ e.next \in Nat
    BY DEF Inv, LearningTypeOK, Quiet, Learn, EnvState
  <2>2. learn.batch \in Seq(Transitions) /\ learn.first \in BOOLEAN
    BY <2>1 DEF Learn
  <2>3. DOMAIN learn.batch = 1..n /\ n \in Nat
    BY <2>2
  <2>4. /\ e.next >= IF learn.first THEN n + 1 ELSE n
        /\ e.next \in 1..n => lastObs[learn.env] = learn.batch[e.next]
        /\ \A i \in 1..n : i < e.next => learn.batch[i] \in learn.met
    BY <2>1 DEF RoundInv
  <2> HIDE DEF n, e
  <2> QED
    BY <2>1, <2>2, <2>3, <2>4
<1> QED
  BY <1>1, <1>2, Invariance, NextRounds, PTL DEF Spec
-----------------------------------------------------------------------------
(* The script's books.  What it counted was recorded, and is still in the  *)
(* buffer or was lost; a training that runs was offered all of that; and   *)
(* when no training is due or asked for, the last one, if it went well, has*)
(* had everything.                                                         *)
BooksInv ==
  /\ evaluated \in Nat
  /\ counted \subseteq buffer \cup lost
  /\ pc \in {"training", "finalTraining"} => counted \subseteq asked \cup lost
  /\ (/\ lastTrain = "ok"
      /\ \/ pc \in {"start", "evaluate", "scored", "status"} /\ TrainingDue
         \/ pc \in {"summary", "done"})
       => counted \subseteq offered \cup lost

(* Nothing leaves the buffer but what a restart loses.                     *)
LEMMA ServiceKeepsBuffer ==
  ASSUME \/ ShowCandidates \/ SubmitFeedback \/ Internal
         \/ \E who \in Callers : Training(who) \/ TrainerRun(who)
  PROVE  buffer \subseteq buffer'
BY DEF ShowCandidates, SubmitFeedback, Internal, Record, Unrecorded, Step, Trained, TrainingFails,
       Return, Reload, Training, TrainNothing, TrainRaises, TrainFirst, TrainProduction, TrainerRun

(* A step that leaves the books alone.                                     *)
LEMMA BooksKept ==
  ASSUME BooksInv, buffer \subseteq buffer' \cup lost', lost \subseteq lost',
         UNCHANGED <<evaluated, counted, asked, offered, lastTrain>>,
         \/ pc' = pc
         \/ pc' \in {"aborted", "unreachable", "train", "final", "feedback"}
         \/ /\ pc \in {"start", "evaluate", "scored", "status"}
            /\ pc' \in {"evaluate", "scored"}
         \/ pc \in {"start", "evaluate"} /\ pc' = "summary" /\ TrainingDue
         \/ pc = "summary" /\ pc' = "done"
         \/ pc' = "evaluate" /\ ~TrainingDue
  PROVE  BooksInv'
<1> USE DEF BooksInv, TrainingDue
<1>1. evaluated' \in Nat /\ counted' \subseteq buffer' \cup lost'
  OBVIOUS
<1>2. pc' \in {"training", "finalTraining"} => counted' \subseteq asked' \cup lost'
  OBVIOUS
<1>3. CASE pc' = pc
  BY <1>1, <1>2, <1>3
<1>4. CASE pc' # pc
  BY <1>1, <1>2, <1>4
<1> QED
  BY <1>3, <1>4

LEMMA ScriptBooks == BooksInv /\ Script => BooksInv'
<1> SUFFICES ASSUME BooksInv, Script PROVE BooksInv'
  OBVIOUS
<1>1. "script" \in Callers
  BY DataLoopAssumption DEF Callers
<1>2. CASE Greet \/ Skip \/ Status
  BY <1>2, BooksKept DEF Greet, Skip, Status, learning
<1>3. CASE Evaluate
  BY <1>3, ServiceKeepsBuffer, BooksKept DEF Evaluate
<1>4. CASE Evaluated
  <2>1. UNCHANGED <<buffer, lost, offered, asked, lastTrain>> /\ pc = "scored"
    BY <1>4 DEF Evaluated, learning
  <2>2. CASE mine \in buffer /\ evaluated' = evaluated + 1 /\ counted' = counted \cup {mine} /\ pc' = "feedback"
    BY <2>1, <2>2 DEF BooksInv
  <2>3. CASE pc' = "evaluate" /\ UNCHANGED <<evaluated, counted>>
    BY <2>1, <2>3, BooksKept
  <2> QED
    BY <1>4, <2>2, <2>3 DEF Evaluated
<1>5. CASE Feedback
  <2>1. buffer \subseteq buffer' /\ UNCHANGED <<evaluated, counted, asked, offered, lost, lastTrain>>
    BY <1>5, ServiceKeepsBuffer DEF Feedback, learning
  <2> QED
    BY <1>5, <2>1, BooksKept DEF Feedback
<1>6. CASE Finish
  <2>1. UNCHANGED <<buffer, evaluated, counted, asked, offered, lost, lastTrain>> /\ pc = "evaluate"
    BY <1>6 DEF Finish, learning
  <2>2. evaluated % TrainEvery \in Nat
    BY DataLoopAssumption DEF BooksInv
  <2>3. pc' = "final" \/ (pc' = "summary" /\ TrainingDue)
    BY <1>6, <2>2 DEF Finish, Remaining, TrainingDue
  <2> QED
    BY <2>1, <2>3, BooksKept
<1>7. CASE AskTraining
  <2>1. /\ buffer \subseteq buffer' /\ asked' = buffer /\ pc' \in {"training", "finalTraining"}
        /\ UNCHANGED <<evaluated, counted, offered, lost, lastTrain>>
    BY <1>1, <1>7, ServiceKeepsBuffer DEF AskTraining
  <2> QED
    BY <2>1 DEF BooksInv
<1>8. CASE NotTrained
  BY <1>8 DEF NotTrained, AfterTraining, BooksInv, learning
<1>9. CASE TrainingAnswered
  <2>1. /\ UNCHANGED <<buffer, evaluated, counted, lost>> /\ pc' \in {"status", "summary"}
        /\ pc \in {"training", "finalTraining"}
        /\ \/ lastTrain' = "failed"
           \/ lastTrain' = "ok" /\ offered' = offered \cup asked
    BY <1>9 DEF TrainingAnswered, AfterTraining, learning
  <2> QED
    BY <2>1 DEF BooksInv
<1> QED
  BY <1>2, <1>3, <1>4, <1>5, <1>6, <1>7, <1>8, <1>9 DEF Script

LEMMA NextBooks == BooksInv /\ [Next]_vars => BooksInv'
<1> SUFFICES ASSUME BooksInv, [Next]_vars PROVE BooksInv'
  OBVIOUS
<1>1. Clients \subseteq Callers /\ Facades \subseteq Callers
  BY DEF Callers
<1>2. CASE Script
  BY <1>2, ScriptBooks
<1>3. CASE Abort
  BY <1>3, BooksKept DEF Abort, learning
<1>4. CASE Service \/ OtherClient
  BY <1>1, <1>4, ServiceKeepsBuffer, BooksKept DEF Service, OtherClient, script
<1>5. CASE ServerRestarts
  BY <1>5, BooksKept DEF ServerRestarts, Restart
<1>6. CASE UNCHANGED vars
  BY <1>6, BooksKept DEF vars, learning, script
<1> QED
  BY <1>2, <1>3, <1>4, <1>5, <1>6 DEF Next

(* Whatever is skipped, refused, lost or done by others: a script that has *)
(* reached its end, with its last training answered, has had everything it *)
(* counted offered to PPO, but for what restarts lost.                     *)
THEOREM EverythingCountedIsTrained == Spec => []CountedIsTrained
<1>1. Init => BooksInv
  BY DEF Init, BooksInv
<1>2. BooksInv => CountedIsTrained
  BY DEF BooksInv, CountedIsTrained
<1> QED
  BY <1>1, <1>2, NextBooks, PTL DEF Spec
=============================================================================
