------------------------------ MODULE Learning ------------------------------
(***************************************************************************)
(* What PPO learns from: SpecSelectionEnv (_internal/_environment.py), the *)
(* transitions select() records, the signal submit_feedback() leaves, and  *)
(* the trainings of train_policy() and of the Trainer facade, which replay *)
(* a sample of the buffer through an environment (train_on_batch).         *)
(*                                                                         *)
(* The service and a policy loaded from its checkpoint have an environment *)
(* each: _load_policy gives PPOPolicy none.  A PPO object keeps the last   *)
(* observation it was shown from one learn() to the next, so that only its *)
(* first learn() begins with a reset; the vectorised environment resets    *)
(* after every step, as every episode is one step long.                    *)
(*                                                                         *)
(* A transition is a number: its observation and its candidate_rewards are *)
(* told apart from those of the others and not looked into.                *)
(***************************************************************************)
EXTENDS Naturals, Sequences, FiniteSets

CONSTANTS Clients,     (* who may ask for a training: over HTTP            *)
          Facades,     (* and with a Trainer of their own                  *)
          MaxSelects,  (* bound: selections ever made                      *)
          BatchSize,   (* rl.batch_size                                    *)
          Rollout,     (* rl.ppo_batch_size: steps PPO takes at a time     *)
          Rollouts,    (* rollouts the requested timesteps make            *)
          None

ASSUME LearningAssumption ==
  /\ MaxSelects \in Nat \ {0}
  /\ BatchSize \in Nat \ {0}
  /\ Rollout \in Nat /\ Rollout >= BatchSize
  /\ Rollouts \subseteq Nat \ {0}
  /\ None \notin Nat

Callers == Clients \cup Facades

VARIABLES
  production,  (* the registry has a production policy                     *)
  selects,     (* selections that have reached the environment             *)
  pending,     (* those whose episode is being written                     *)
  buffer,      (* _replay_buffer                                           *)
  env,         (* the environments                                         *)
  lastObs,     (* per environment: _last_obs of the PPO object that has it *)
  learn,       (* the training that runs                                   *)
  reply        (* what the last training of each caller came to            *)

learning == <<production, selects, pending, buffer, env, lastObs, learn, reply>>

Transitions == 1..MaxSelects
Envs == {"service", "policy"}

(* replay is _replay_queue (None and the empty list are the same to it),   *)
(* next _replay_idx, rewards the transition of _replay_candidate_rewards;  *)
(* 0 stands for zeros and for no candidates.                               *)
EnvState == [candidates : 0..MaxSelects, obs : 0..MaxSelects, replay : Seq(Transitions),
             next : Nat, rewards : 0..MaxSelects, signal : BOOLEAN]

Learn == [by : Callers, env : Envs, left : Nat, batch : Seq(Transitions), first : BOOLEAN,
          met : SUBSET (0..MaxSelects)]

ASSUME NoTrainingAssumption == None \notin Learn

NewEnv == [candidates |-> 0, obs |-> 0, replay |-> <<>>, next |-> 0, rewards |-> 0,
           signal |-> FALSE]

Quiet == learn = None
-----------------------------------------------------------------------------
(* The environment.                                                        *)

SetCandidates(e, t) == [e EXCEPT !.candidates = t, !.obs = t]

SetFeedbackSignal(e) == [e EXCEPT !.signal = TRUE]

LoadTransitions(e, batch) == [e EXCEPT !.replay = batch, !.next = 0]

ClearReplay(e) == [e EXCEPT !.replay = <<>>, !.next = 0]

(* Mutant of Reset: the queue advances before the rewards are taken.       *)
ResetPaysNext(e) ==
  LET quiet == [e EXCEPT !.signal = FALSE]
      At(i) == e.replay[(i % Len(e.replay)) + 1]
  IN  IF e.replay = <<>> THEN quiet
      ELSE [quiet EXCEPT !.next = @ + 1, !.obs = At(e.next), !.rewards = At(e.next + 1)]

(* Mutant of Reset: the queue does not advance.                            *)
ResetStands(e) ==
  LET quiet == [e EXCEPT !.signal = FALSE] IN
    IF e.replay = <<>> THEN quiet
    ELSE LET t == e.replay[(e.next % Len(e.replay)) + 1] IN
           [quiet EXCEPT !.obs = t, !.rewards = t]

(* reset(): the next transition of the queue, round and round.             *)
Reset(e) ==
  LET quiet == [e EXCEPT !.signal = FALSE] IN
    IF e.replay = <<>> THEN quiet
    ELSE LET t == e.replay[(e.next % Len(e.replay)) + 1] IN
           [quiet EXCEPT !.next = @ + 1, !.obs = t, !.rewards = t]

(* step(): whose rewards it pays from, and whether feedback shapes them.   *)
(* The action, clamped to n_candidates in replay mode and to the number of *)
(* candidates in live mode, picks one of them.                             *)
Paid(e) == [by |-> IF e.replay = <<>> THEN e.candidates ELSE e.rewards, shaped |-> e.signal]

Stepped(e) == [e EXCEPT !.signal = FALSE]
-----------------------------------------------------------------------------
(* select(): the candidates go to the environment, the episode is awaited, *)
(* and then the transition is added to the buffer.                         *)
ShowCandidates ==
  /\ Quiet
  /\ selects < MaxSelects
  /\ selects' = selects + 1
  /\ pending' = pending \cup {selects'}
  /\ env' = [env EXCEPT !["service"] = SetCandidates(@, selects')]
  /\ UNCHANGED <<production, buffer, lastObs, learn, reply>>

Record(t) ==
  /\ Quiet
  /\ t \in pending
  /\ pending' = pending \ {t}
  /\ buffer' = buffer \cup {t}
  /\ UNCHANGED <<production, selects, env, lastObs, learn, reply>>

(* save_episode raises.                                                    *)
Unrecorded(t) ==
  /\ Quiet
  /\ t \in pending
  /\ pending' = pending \ {t}
  /\ UNCHANGED <<production, selects, buffer, env, lastObs, learn, reply>>

(* submit_feedback() with a rating, once its row is written.               *)
SubmitFeedback ==
  /\ Quiet
  /\ env' = [env EXCEPT !["service"] = SetFeedbackSignal(@)]
  /\ UNCHANGED <<production, selects, pending, buffer, lastObs, learn, reply>>
-----------------------------------------------------------------------------
Sample == UNION {[1..n -> buffer] :
                   n \in {IF Cardinality(buffer) < BatchSize THEN Cardinality(buffer)
                          ELSE BatchSize}}

(* train_on_batch() on a PPO object: its environment is primed, and learn()*)
(* resets it if the object has been shown nothing yet.                     *)
Begin(who, name, envs, shown) ==
  \E batch \in Sample, k \in Rollouts :
    LET primed == LoadTransitions(envs[name], batch)
        first  == shown[name] = None
        ready  == IF first THEN Reset(primed) ELSE primed
    IN  /\ env' = [envs EXCEPT ![name] = ready]
        /\ lastObs' = IF first THEN [shown EXCEPT ![name] = ready.obs] ELSE shown
        /\ learn' = [by |-> who, env |-> name, left |-> k * Rollout, batch |-> batch,
                     first |-> first, met |-> {}]

(* train_policy() of an empty buffer.                                      *)
TrainNothing(who) ==
  /\ Quiet
  /\ buffer = {}
  /\ reply' = [reply EXCEPT ![who] = "insufficient_data"]
  /\ UNCHANGED <<production, selects, pending, buffer, env, lastObs, learn>>

(* Without a production policy, one is created on the service's            *)
(* environment and trained; what promote() loads is another object.        *)
TrainFirst(who) ==
  /\ Quiet
  /\ buffer # {}
  /\ ~production
  /\ production' = TRUE
  /\ Begin(who, "service", [env EXCEPT !["policy"] = NewEnv],
           [lastObs EXCEPT !["service"] = None, !["policy"] = None])
  /\ reply' = [reply EXCEPT ![who] = "none"]
  /\ UNCHANGED <<selects, pending, buffer>>

(* Creating or promoting raises before anything is trained.                *)
TrainRaises(who) ==
  /\ Quiet
  /\ buffer # {}
  /\ \/ UNCHANGED <<production, env, lastObs>>
     \/ /\ ~production
        /\ production' = TRUE
        /\ env' = [env EXCEPT !["policy"] = NewEnv]
        /\ lastObs' = [lastObs EXCEPT !["policy"] = None]
  /\ reply' = [reply EXCEPT ![who] = "error"]
  /\ UNCHANGED <<selects, pending, buffer, learn>>

TrainProduction(who) ==
  /\ Quiet
  /\ buffer # {}
  /\ production
  /\ Begin(who, "policy", env, lastObs)
  /\ reply' = [reply EXCEPT ![who] = "none"]
  /\ UNCHANGED <<production, selects, pending, buffer>>

(* Trainer.run() in the process of the service: the active policy, or one  *)
(* of its own that nobody keeps.  Its batches are as long as the service's *)
(* (retrain_batch_size has a default of its own).                          *)
TrainerRun(who) ==
  /\ Quiet
  /\ buffer # {}
  /\ IF production
     THEN Begin(who, "policy", env, lastObs)
     ELSE Begin(who, "policy", [env EXCEPT !["policy"] = NewEnv],
                [lastObs EXCEPT !["policy"] = None])
  /\ reply' = [reply EXCEPT ![who] = "none"]
  /\ UNCHANGED <<production, selects, pending, buffer>>

(* One step of a rollout, and the reset that follows it.                   *)
Step ==
  /\ ~Quiet
  /\ learn.left > 0
  /\ LET e    == env[learn.env]
         next == Reset(Stepped(e))
     IN  /\ env' = [env EXCEPT ![learn.env] = next]
         /\ lastObs' = [lastObs EXCEPT ![learn.env] = next.obs]
         /\ learn' = [learn EXCEPT !.left = @ - 1, !.met = @ \cup {lastObs[learn.env]}]
  /\ UNCHANGED <<production, selects, pending, buffer, reply>>

Return(outcome) ==
  /\ learn' = None
  /\ env' = [env EXCEPT ![learn.env] = ClearReplay(@)]
  /\ reply' = [reply EXCEPT ![learn.by] = outcome]
  /\ UNCHANGED <<production, selects, pending, buffer, lastObs>>

Trained == ~Quiet /\ learn.left = 0 /\ Return("trained")

(* Mutant of TrainingFails: no finally.                                    *)
FailsInReplay ==
  /\ ~Quiet
  /\ learn' = None
  /\ reply' = [reply EXCEPT ![learn.by] = "error"]
  /\ UNCHANGED <<production, selects, pending, buffer, env, lastObs>>

(* learn() or the checkpoint raises; the finally clears the replay.        *)
TrainingFails == ~Quiet /\ Return("error")

(* promote() or rollback() puts another object in the place of the active  *)
(* policy, with an environment of its own.                                 *)
Reload ==
  /\ Quiet
  /\ production
  /\ env' = [env EXCEPT !["policy"] = NewEnv]
  /\ lastObs' = [lastObs EXCEPT !["policy"] = None]
  /\ UNCHANGED <<production, selects, pending, buffer, learn, reply>>

(* The server restarts: of all this only the registry is on disk.          *)
Restart ==
  /\ pending' = {}
  /\ buffer' = {}
  /\ env' = [e \in Envs |-> NewEnv]
  /\ lastObs' = [e \in Envs |-> None]
  /\ learn' = None
  /\ reply' = [w \in Callers |-> "none"]
  /\ UNCHANGED <<production, selects>>
-----------------------------------------------------------------------------
LearningInit ==
  /\ production \in BOOLEAN
  /\ selects = 0
  /\ pending = {}
  /\ buffer = {}
  /\ env = [e \in Envs |-> NewEnv]
  /\ lastObs = [e \in Envs |-> None]
  /\ learn = None
  /\ reply = [w \in Callers |-> "none"]

Training(who) ==
  TrainNothing(who) \/ TrainRaises(who) \/ TrainFirst(who) \/ TrainProduction(who)

Internal ==
  \/ \E t \in pending : Record(t) \/ Unrecorded(t)
  \/ Step \/ Trained \/ TrainingFails \/ Reload
-----------------------------------------------------------------------------
(* The type invariant.                                                     *)
LearningTypeOK ==
  /\ production \in BOOLEAN
  /\ selects \in 0..MaxSelects
  /\ pending \subseteq 1..selects
  /\ buffer \subseteq 1..selects
  /\ env \in [Envs -> EnvState]
  /\ lastObs \in [Envs -> 0..MaxSelects \cup {None}]
  /\ learn \in Learn \cup {None}
  /\ reply \in [Callers -> {"none", "insufficient_data", "trained", "error"}]

(* Whatever is selected, rated and retrained in between, every step of PPO *)
(* is shown a transition of the buffer and is paid from the candidates of  *)
(* that same transition: not from those an environment was last given, and *)
(* not from the previous transition, which a second learn() begins with.   *)
LearnsTheRecord ==
  (~Quiet /\ learn.left > 0) =>
    /\ lastObs[learn.env] \in buffer
    /\ Paid(env[learn.env]).by = lastObs[learn.env]

(* A training that begins while a rating waits has its first reward shaped *)
(* by the rating (submit_feedback's docstring: feedback is "used to shape  *)
(* RL rewards in subsequent training iterations").  The code violates it:  *)
(* reset() drops the signal before a step can see it, and a policy that was*)
(* loaded is trained in another environment than the one that is rated.    *)
RatingShapesTraining ==
  [][(Quiet /\ ~Quiet' /\ env["service"].signal) => Paid(env[learn.env])'.shaped]_learning

(* train_on_batch teaches the whole batch.  Only a PPO object that has been*)
(* trained before may leave one transition for its next training: it       *)
(* begins with the last one it was shown, and so is one behind.            *)
BatchIsLearned ==
  (~Quiet /\ learn.left = 0) =>
    LET batch == {learn.batch[i] : i \in DOMAIN learn.batch} IN
      batch \ learn.met \subseteq IF learn.first THEN {} ELSE {lastObs[learn.env]}

(* However a training ends, no environment stays in replay mode.           *)
ReplayEnds == Quiet => \A e \in Envs : env[e].replay = <<>>
=============================================================================
