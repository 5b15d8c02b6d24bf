# A TLA+ model of reinforce-spec

reinforce-spec is a service that ranks candidate specifications with a panel of
LLM judges, picks one with a blend of scores and a PPO policy, records the
selection, and trains the policy on what it recorded. This directory holds TLA+
modules for its stateful parts, the TLC configurations that check them, and the
TLAPS proofs of their main invariants and of two refinements. Paths below are relative to
`reinforce_spec/` unless they say otherwise.

To run one check: `tlc -config MCAdmission.cfg MCAdmission.tla`. To check
the proofs: `tlapm PolicyLifecycleProofs.tla` (and the seven other `*Proofs`
modules). `PROJECT.json` lists every run, every mapped definition with its
source lines, and for every property a mutant of the code that violates it.

## 1. The system

| Component | State | Operations | Interacts with |
|---|---|---|---|
| Service facade `client.py` | `_connected`, references to all components | `connect`, `close`, `select`, `submit_feedback`, `train_policy`, status | builds and calls everything below |
| Policy lifecycle `_internal/_policy.py` | registry in memory and `registry.json`, `vNNN/model.zip`, `production` symlink, cached `_active_policy` | `create_policy`, `promote`, `rollback`, `get_production_policy`, `save_checkpoint` | called by `train_policy` and `connect`; shares policy objects with the selector |
| Persistence `_internal/_persistence.py` | seven SQL tables | one transaction per method | called by `select`, `submit_feedback` |
| Scorer, bias, calibration `_scorer.py`, `_bias.py`, `_calibration.py` | session history, anchors | `score_candidates`, session checks, `calibrate_*` | fans out to the LLM client |
| Selector `_selector.py` | policy reference, degradation level | `select` | reads scores, predicts with the policy |
| LLM client, circuit breaker `_client.py` | circuit state, failure count, last failure time | `complete`, `complete_with_fallback`, `is_open`, `record_*` | called concurrently by every judge call |
| Replay buffer `_replay_buffer.py` | sum tree, ring of transitions, largest priority | `add`, `sample`, `update_priorities`, `clear` | written by `select`, sampled by `train_policy` |
| Environment `_environment.py` | candidates, feedback signal, replay queue | `set_candidates`, `load_transitions`, `reset`, `step` | written by `select` and feedback, stepped by PPO |
| Trainer facade `rl/trainer.py` | none of its own | `run` | samples the buffer, trains the active policy |
| Drift, OPE `_drift.py`, `_ope.py` | window of scores | `add_score`, `check_drift`, estimators | fed by `select`; the estimators by `rl/evaluation.py` |
| Job queue `_queue.py` | queue, job table, worker tasks | `start`, `stop`, `enqueue` | runs callables of the server |
| Idempotency `_idempotency.py`, `server/middleware/idempotency.py` | saved responses (memory or redis), locks | `check`, `acquire`, `save`, `release` | wraps request handlers |
| Backpressure, rate limit `server/middleware/` | semaphore; windows per client | `dispatch` | wrap request handlers |
| SDKs `../sdks/{python,typescript,go}` | attempt counter of a request | six operations, each a request with retries | call the server over HTTP |
| Data script `../scripts/build_replay_buffer.py` | counters of a run | evaluate, feedback, train, status | calls the server over HTTP |

What makes it hard:

- **One event loop, many awaits.** `select`, `connect`, the judge calls and the
  middleware suspend between a read and the write that relies on it.
- **Durable state in steps.** A selection is 2N+3 transactions; a promotion
  writes a symlink and a file in two steps; a training run writes a checkpoint,
  then the registry. A crash or an exception falls between any two.
- **Shared objects.** The cached production policy, the selector's policy and
  the object being trained may or may not be the same one; the environment a
  training replays the buffer in may be the one live requests write to.
- **Cancellation.** `JobQueue.stop` cancels tasks that may just have taken a job.
- **Retries.** A request may be sent again while the first attempt still works,
  after it failed half-way, or after its answer was lost.

What makes each part correct, in one line each: the registry never has two
production policies and never names a checkpoint that does not exist; a
completed request is whole and never changes; an open circuit admits nothing
and ends; a job runs at most once and is never lost; an idempotency key takes
effect once; the replay buffer's sums stay exact and its draws proportional; PPO
is paid from the record and never from live candidates; a client gets no more than its
rate, and is let in again; an answer of an SDK is what the server recorded.
The hazards behind these, each at its line of code, are in `PROJECT.json`.

## 2. The modules

| Module | Models | Composes / implements |
|---|---|---|
| `PolicyLifecycle`, `MCPolicyLifecycle` | `PolicyManager`, `train_policy`, `get_policy_status`, `connect` | proofs in `PolicyLifecycleProofs` |
| `SelectPipeline`, `MCSelectPipeline` | `select`, `submit_feedback`, `connect`, `close` over `Storage` | implements `SelectionLedger`; proofs in `SelectPipelineProofs` |
| `SelectionLedger` | what readers of completed requests are promised | abstract |
| `CircuitBreaker` | the breaker, with overlapping callers and a clock | proofs in `ServerProofs` |
| `MCAdmission` | breaker and rate limiter beside each other, for TLC | extends `CircuitBreaker` and `RateLimit` |
| `LLMClient` | `complete` and `complete_with_fallback` | extends `CircuitBreaker` |
| `JobQueue` | the queue and its worker tasks | proofs in `ServerProofs` |
| `Idempotency`, `MCIdempotency` | middleware over the store | implements `AtMostOnce`; proofs in `IdempotencyProofs` |
| `AtMostOnce` | what an idempotency key promises | abstract |
| `ReplayBuffer` | `PrioritizedReplayBuffer` over `SumTree` | proofs in `ReplayBufferProofs` |
| `Learning` | `SpecSelectionEnv`, `train_on_batch`, `train_policy` and `Trainer.run`, what `select` and feedback leave in the environment | proofs in `LearningProofs` |
| `DataLoop` | `scripts/build_replay_buffer.py` | extends `Learning`; proofs in `LearningProofs` |
| `SdkRetry` | one operation of an SDK with its retries, `BackpressureMiddleware`, the routes | three SDKs in one module; proofs in `SdkRetryProofs` |
| `RateLimit` | `RateLimitMiddleware` | proofs in `ServerProofs` |
| `Scoring`, `MCScoring` | `EnterpriseScorer`, `PairwiseComparison`, the trimmed mean, `HybridSelector`, the facade `Selector` | proofs in `ScoringProofs`; `MCScoring` extends `Assessment`, too |
| `Assessment` | off-policy estimates, drift, session statistics, calibration | proofs in `ScoringProofs` |
| `Sums` | partial sums and the total of a sequence | extended by both |

**PolicyLifecycle.** Every method of `PolicyManager` is synchronous, so two
operations never interleave; an operation is a list of steps (`todo`), each with
at most one durable write. `Crash` may fall before a step or in the middle of
its write: `open(path, "w")` truncates, so a cut-short file is `Torn`, and the
symlink is removed before it is made again. Loading and learning may raise; a
write is only cut short by a crash (a full disk is not modelled).
A policy object is an identity in `Objs`; its weights are the set of training
iterations it contains, which is what tells a fresh, a stale and a current copy
apart. `Init` is the empty directory or the one `scripts/docker_entrypoint.sh`
seeds.

**SelectPipeline.** A call is a coroutine; a step runs from one await to the
next. `Start` is `_ensure_connected`, which replaces every component before it
awaits the storage; `current` counts the sets, and `ready` says that the newest
storage has its session maker, which `Storage.connect` sets before it awaits the
database: a call of the set before goes on with it. `Abort` is any await that
raises with nothing written; for `save_episode`, whose answer matters to the
replay buffer, a commit whose answer is lost is an outcome of its own. Scores are abstracted to what scoring returns:
any order, any winner, and whether any judge answered. The environment's
candidates and the feedback signal are in `Learning`; the drift window is left
out of both.

**CircuitBreaker, LLMClient.** The clock is the age of the last failure, up to
the cooldown. A caller remembers (as a history variable) whether the circuit
opened after its call began. `LLMClient` adds the fallback chain and which
exception each `except` clause handles. A call is one attempt, whatever
`max_retries` says: the first back-off logs through `before_sleep_log(logger,
"warning")` (`_client.py:295`), loguru has no level of that name, and the
`ValueError` leaves the call (`RaisedOnFailure`).
`MCAdmission` puts the breaker and `RateLimit` into one run: they share no state,
so one of them works in a behaviour while the other stands still.

**JobQueue.** `wait_for(queue.get(), 1.0)` runs the get in a task of its own:
`Get` takes the job, `Begin` returns it, and a cancellation between the two is
swallowed (as in Python 3.11, the version of the repository's `Dockerfile`).
`Abandon` is a `CancelledError` leaving the callable, its own or the worker's.

**Idempotency.** With the memory store `check` and `acquire` are one step, and
so are `save` and `release`; with redis each has an await in between (`Fetch` /
`ResumeFetched`, `SaveRedis` / `ResumeSaved`). `FetchFails` is a way out while the
answer is fetched, before there is a lock; `Fail` is any way out through the
`finally`. The middleware class is modelled as it is written; `create_app` does
not install it.

**ReplayBuffer.** Each pass of the loops of `SumTree.sample` and
`SumTree._update_tree` is an action, so that the invariants speak about the
inside of the loops. Priorities are natural numbers: float rounding is left out.
The importance weights and beta, which no other state depends on, are too.
`update_priorities` is assumed to get the indices of the last `sample`, once,
and not across `clear` (no code of the repository calls it yet).

**Learning, DataLoop.** `train_on_batch` runs in the event loop without an
await, so while a training runs (`~Quiet`) nothing else does; what matters is
what earlier calls left behind. The service has one environment and a policy
loaded from its checkpoint another, as `_load_policy` passes none. Each keeps
its candidates, its replay queue and the feedback signal; a PPO object keeps the
last observation it was shown, and only its first `learn()` resets. A
transition is a number: the observation and the rewards of one are told apart
from those of the others, and not looked into. `Step` is a step of a rollout
with the reset after it; PPO and the vectorised environment around it are
library code, modelled from how the environment is driven. `DataLoop` adds the
script: its counters, which answers it handles and which end it, and restarts of
the server. A selection may be in the buffer and its answer a 500 all the same,
as `complete_request` follows (`client.py:318`). Everything the script counts, it counts from answers.

**SdkRetry.** An attempt is an HTTP request with a place of its own in `net`:
the client may give it up (`GiveUp`, with what a time-out, a proxy or a broken
connection looks like to it) while the request is still on its way or the
handler still works. `Retries` is, for each SDK, the outcomes it sends the next
attempt after, as the exceptions really are at that point: the Python SDK has
replaced a time-out by its own class before it asks, and a 502 by a
`ServerError` that says 500. All attempts of a `select` carry one request id,
the primary key of the row `SaveRequest` inserts. A selection is cut down to its
first and last transaction here (`SelectPipeline` has all of them). Each
operation has one definition of its request (`SelectRequest` and so on), from
which the tables of the three SDKs are built. The health routes
bypass the limiter (`backpressure.py:46`). A caller may
cancel at any time, and close the Python client under its own requests. `create_app`
installs neither the idempotency middleware nor the rate limiter, so neither is
in the way; a 429 comes from something in front.

**RateLimit.** `dispatch` decides before it awaits, so a request is one step. A
time stamp is its age in ticks and its place among the requests its tick let
through, which is what `time.monotonic()` tells apart.

**Scoring.** The judge calls run together, but `gather` keeps their order, so an
action is one phase of the computation for one candidate (`PointwiseScore`), the
comparisons (`Pairwise`) or the selection. Scores of a candidate are a multiset
of any size up to the calls made, one per judge and sample: calls fail, and
`Asked` leaves out judges of the author's family unless there is only one judge.
`Parsed` is what a reply counts for: 1 if it does not parse or leaves the
dimension out, and otherwise the number, clamped to 1..5. `Effective` is what a
degradation level leaves of the method that was asked for; `L1`, "single judge"
in the docstring, changes nothing anywhere in the code. `Trust` is the weight of
the policy, which `HybridSelector` lowers below `Confidence` and the facade does
not. Numbers are scaled (`Scale`), so that means of up to four scores are whole,
and blends are compared times the denominator.
The properties are stated without the operators that compute the ranking: who
may move, who must lead, and how much score a selection may give up for the
policy's favourite. The weight of the policy and its largest share bound that: a
candidate is passed over only for one whose score falls short by at most
`e / (1 - e)` of its own, times the share, where `e` is the weight the policy
really has (less than `rl_weight` if the service's selector finds it unsure). At
`e` = 1 this allows everything, as it must.

**Assessment.** A behaviour is one study: a set-up (two policies, a reference, a
set of anchors) and samples that come in one by one. Estimates are exact
fractions, compared by cross-multiplication, and the properties compare them
with a definition of another form: a sum over actions, over pairs, over shares.
The logged actions are `1..Arms`, their probabilities multiples of `1 / Units`,
and `Common` is a number that every possible divisor divides, so that a ratio of
two probabilities is a whole multiple of `1 / Common` and `\div` is exact. A log
shows no action more often than `Units` draws of the old policy would on average:
that is what a sample of length `Units` has to be for its estimate to be exact.
The shares of the PSI's bins are smoothed as in the code (`Shift`): equal shares
in samples of different lengths move a bin a little, of one length not at all.

## 3. The runs

| Run | Instance | What it shows |
|---|---|---|
| `policy_lifecycle` | 4 objects, 2 versions, 2 trainings | one production policy in memory and on disk; the cached policy is the one in production; acknowledged stages are durable; the registry never names a missing checkpoint; only policies that reached production serve; a training reported as done is checkpointed and counted by `get_policy_status` |
| `training_lost` (violation) | 4 objects, 1 version, 2 trainings | the second `train_policy` starts from the copy cached at promotion and overwrites the first one's weights |
| `select_pipeline` | 2 calls, 2 request ids, 2 candidates, 2 connects, 1 feedback | one writer per request; an answer is recorded; the replay buffer only holds persisted selections; the transactions implement `SelectionLedger` |
| `admission` | breaker: 4 callers, threshold 3, cooldown 2; limiter: 4 client keys, 2 requests per window of 2 ticks, clean-up every 2 admitted requests, room for 2 clients, 3 requests a tick | breaker: the count agrees with the state; nothing new runs while open; an open circuit ends. Limiter: at most the rate in any window, but for forced clean-ups; the table stays bounded; a client that was sent away is let in again |
| `breaker_never_opens` (violation) | 2 callers, threshold 2, 3 retries, 2 models | failed calls are never recorded, as what leaves the retry loop is never a `RetryError` |
| `job_queue` | 3 jobs, 2 workers | no job lost or run twice; the time stamp, not the status, says a job is over; `stop` returns; pending jobs are started |
| `idempotency` | 3 attempts of one key and 1 of another, 1 process, either store | the lock names exactly the request at work; it is freed; the middleware implements `AtMostOnce`, but for keys worked on after an outdated answer of redis |
| `replay_buffer` | capacity 5, priorities 1 and 4, 6 adds, batches up to 3 | sums, positive priorities, draws that are proportional and hit, the newest transitions are kept |
| `data_loop` | 3 selections, batches and rollouts of 2, a script of 3 rounds that trains every 2, one `Trainer` beside it | PPO is shown and paid from recorded transitions, the one with the other; the whole batch is learned, but for one transition a reused PPO object leaves; no environment stays in replay mode; what the script counted was offered to PPO or lost with the server; the script ends |
| `feedback_lost` (violation) | 2 selections, a script of 1 round | a training that begins while a rating waits pays no reward the rating shapes |
| `sdk_retry` | 1 call of any operation, 3 SDKs, 3 retries, 2 slots | a success is in the database as the caller got it, whatever other attempts do; the Python SDK never acts twice; every call comes back |
| `scoring` | 3 candidates, 2 judges with 2 samples each, replies unparsable, below the range and in it, a policy of 5 actions, every method and degradation level; and logs, windows, sessions, anchors and batches of up to 5 samples | comparisons only move the top, a position-biased judge moves nothing, a champion leads; from four scores on, one judge call cannot move a score past what the others said; how much score the policy, at the service's default weight of a half, can make a selection give up; importance sampling is unbiased and its weighted form within the rewards seen; drift, session statistics and calibration mean what they say |

**Why the bounds are enough.** Two versions are the fewest with a predecessor to
archive and a target to roll back to, two trainings the fewest with something to
lose, and four objects cover the cached, the selector's, the local and a freshly
loaded policy (with fewer, `FreeObjs` would block a load). Two calls with two
ids cover a retry, a collision and independent calls; two connects the race of
two first calls; two candidates every re-ordering of a winner. Four callers and
threshold 3 let three late failures open the circuit while a fourth call is
still out; cooldown 2 has a point strictly inside it. Two workers and three jobs leave one job
queued while both workers hold one. Three attempts let the third meet a lock
that a wrong release of the second freed. Capacity 5 gives a tree with leaves on
two levels, 6 adds wrap the ring, and 4 against 1 lets one transition fill two
segments. Three retries let two abandoned attempts hold both slots while a third arrives
and a fourth is sent; calls have request ids of their own and meet only at the
slots, so one is enough. With three selections and batches of two a batch can
leave one out, and repeat one; three rounds with a training after every second
leave a remainder for the last training; the `Trainer` makes a PPO object old
before the script asks again. Four client keys (three hosts and `unknown`)
against room for two force a clean-up whatever is kept. Four judge calls are the fewest that are
trimmed, three candidates the fewest with a cycle of wins and, with the top two,
somebody below the top; five actions are more than there are positions.
Unbounded quantities are cut by guards named after their bound:
`MaxVersions`, `MaxTrains`, `MaxConnects`, `MaxFeedback`, `MaxAdds`,
`MaxSelects`, `MaxData`, `Burst`; the breaker's
failure count is cut at the threshold, which is all the code compares it with.

Deadlock is checked except in the policy runs (a torn registry stops the service
for good), the selection and SDK runs (every call is made once) and the scoring
run (it ends with the choice, or with the last sample).

**Fairness.** Liveness is checked under what the runtime gives, and under
nothing the environment may withhold:

- `CircuitBreaker`: time passes; a call in flight ends, as the HTTP client has a
  time-out; and callers keep asking. The last is needed: nothing else half-opens
  a circuit (`is_open` does so on a read).
- `JobQueue`: the event loop runs a ready task, and callables end. `start`,
  `stop` and `enqueue` are not fair: nobody has to call them.
- `Idempotency`: a request that was received goes on until it is answered;
  requests need not arrive, and expiry and crashes need not happen.
- `SdkRetry`: the client's loop runs and has time-outs. The network and the
  server owe nothing. (The TypeScript client stops its timer when the headers
  are there, `http.ts:181`: a body that never ends is left to the transport.)
- `DataLoop`: the script goes on, the service finishes the trainings and the
  selections it has begun. Strong fairness where other callers can get in
  between: the event loop serves everybody in turn. Nobody else has to ask.
- `RateLimit`: time passes.

## 4. Disagreements between the code and what it says

The three violation runs are listed as findings in `PROJECT.json`, with the
sentence each one contradicts:

1. `train_policy` loses the weights of an earlier iteration of the same process
   (`client.py:483`, `_policy.py:510`).
2. The circuit breaker never opens, and no fallback model is tried after a
   failure other than a rate limit: `complete` waits for `RetryError` (`_client.py:265`), but the first
   back-off raises `ValueError` (`:295`), and without it `reraise=True` (`:296`)
   would let the upstream's error out. Nothing is ever retried.
3. Feedback shapes no reward of PPO: the environment's `reset` clears the signal
   before any `step` could add it (`_environment.py:225`), and a policy that was
   loaded trains in an environment `submit_feedback` does not reach
   (`_policy.py:543`; against `client.py:359` and
   `docs/guides/feedback-loop.md:21`). `NoRatingShapesTraining` proves that it
   is so in every training.

Seen while reading, without a run of their own:

- *Selection and learning.* A recorded transition's action indexes the caller's
  order, its rewards and observation the ranked order (`client.py:306`,
  `_replay_buffer.py:117`). A failed selection stays `pending` (nothing calls
  `fail_request`), so its id can never be used again. `training_episodes` of
  the policy status falls after a restart, as a loaded policy counts from zero.
- *Policy.* The registry allows a rollback to any stage although the docstring
  of `rollback` names two. `PolicyRegistry.promote` only logs, and
  `list_versions` looks for files where the manager writes directories.
- *Replay buffer.* `add` with a `td_error` does not raise the "maximum priority
  seen so far".
- *Queue and idempotency.* `JobQueue.stop` cancels its workers and leaves queued
  jobs to the next `start` (`_queue.py:110`, against "Drain the queue" in its
  docstring). With redis the idempotency middleware uses an answer of `check`
  that may be outdated when `acquire` succeeds, so that a handler can run twice
  (`KeepsPromise` leaves such keys out). The storage's idempotency table has no
  caller.
- *SDKs.* The Python SDK's `_should_retry` (`_http.py:179`) means to retry
  time-outs, failed connections and a 502, 503 or 504, and never does: at that
  point `request` has replaced httpx's exceptions by its own, a 502 or 504 is
  a `ServerError` that says 500, and a 503 is no `ServerError`. Only a 429 is
  retried, which is what `PythonActsOnce` rests on: put right, it would run into
  what the other two SDKs do. The TypeScript and the Go SDK resend a request whose answer was lost
  with the same id; the server meets the row of the first attempt and answers
  500 for a selection it has completed or will complete (`http.ts:221`,
  `transport.go:106`, against `docs/concepts/idempotency.md:3`). A feedback they
  retry stores a row per attempt. The TypeScript SDK never retries a 503, as
  `ServiceUnavailableError` is no `ServerError`. The results the SDKs parse a
  training into have a `job_id` the server does not send.
- *Scoring.* A judge that says "tie" in both orders makes the second candidate
  win; the comparisons re-rank the top, but `scoring_only` selects by composite
  score and follows them only between equal scores; a candidate nobody scored
  has composite 0 and is still ranked; below `confidence_threshold` the selector
  lowers the weight of the policy, where its docstring has it "fall back to
  scoring-based ranking" (`_selector.py:37`); a score of `NaN` is clamped to 5.0, and a
  reply that is a JSON list counts as a failed call.
- *Estimates.* The interval of the weighted estimate is cut to 0..1 and not
  centred on the estimate; nothing sets the reference of the drift detector, so
  `drift_psi` is always null; the session lists of `BiasDetector` are cut by
  nothing but `reset_session`.
- *Script.* `build_replay_buffer.py` takes any 200 of `/v1/policy/train` for a
  training, also `insufficient_data`, and prints the number of evaluations as
  the size of the buffer.

## 5. The proofs

| Module | Theorems |
|---|---|
| `PolicyLifecycleProofs` | `TypeCorrect`, `OnlyOneProduction`, `CheckpointBeforeRegistry`, `AcknowledgedStays`, `ActiveMatchesRegistry`, `OnlyPromotedServe`, `TrainedIsOnDisk` |
| `ServerProofs` | of the breaker: `BreakerTypeCorrect`, `CountAgreesWithState`, `OpenAdmitsNothing`, `OnlyDrawnTransitions`; of the rate limiter: `RateSafe`, `TableSafe`; of the queue: `JobTypeCorrect`, `PendingOnce`, `StampIsFinal`, `RunsOnce` |
| `ReplayBufferProofs` | `BufferTypeCorrect`, `TreeSums`, `StoredIsPositive`, `SampleHits`, `DrawsAreProportional`, `RingHoldsNewest` |
| `IdempotencyProofs` | `TypeCorrect`, `LockNamesItsHolder`, `OneProcessKeepsPromise` |
| `SelectPipelineProofs` | `TypeCorrect`, `RequestHasOneWriter`, `AnswersAreRecorded`, `ReplayHasItsRows`, `SelectPublishesAtomically` |
| `LearningProofs` | `LearningTypeCorrect`, `LearnsOnlyTheRecord`, `NoRatingShapesTraining`, `ReplayAlwaysEnds`, `WholeBatchIsLearned`, `EverythingCountedIsTrained` |
| `SdkRetryProofs` | `TypeCorrect`, `SuccessIsRecorded`, `PythonOnce` |
| `ScoringProofs` | `PairwiseFair`, `OutlierDropped`, `ChoiceBounded`; of `Assessment`: `EstimatesSound`, `MonitorsSound` |

They hold for every value of the constants that the named assumptions of the
modules allow (`PolicyAssumption`, `BreakerAssumption`, `BufferAssumption` and
so on), which only say that sentinels differ from values, that bounds are
naturals and, in `Learning`, that a rollout is no shorter than a batch. The type
invariants are proved there and therefore not among the runs' properties.

- **Policy lifecycle.** `TypeOK` is not inductive: `SaveModel` reads the object
  in `local`, so the invariant adds that an operation whose steps need an object
  holds one. Uniqueness of the production policy is carried for the registry and
  for `registry.json` together, as a restart turns one into the other.
  For `CheckpointBeforeRegistry` the invariant adds that a pending `register`
  step has either its checkpoint written or the `saveModel` step in front of it
  in `todo`, and that the registry in memory only names written checkpoints:
  the order of the two steps of `create_policy` is what the proof rests on.
  The other four are about what is still in `todo`, too: a registry that is
  ahead of its file has nothing but a relink and a load between it and
  `saveRegistry` (`Owed`), and every step that will change it has that step
  behind it (`Followed`); a load is the next step, or next after a relink, and
  is for the production policy (`LoadNext`); a refresh has in front of it the
  promotions its policy still needs (`Climbs`) and the four steps of training,
  whose results are on disk as far as they have run (`TrainingInv`). With these
  every invariant the run checks is a theorem.
- **Circuit breaker.** `BInv` joins the type, the agreement of count and state
  (closed exactly while the count is below the threshold) and the fact about
  callers (no call that runs began while the circuit was open). The action
  property of the drawn transitions follows from it: a report that closes an
  open circuit comes from a call that began before it opened.
- **Replay buffer.** `IInv` joins the type, the sums up to the one change that
  is still on its way (`Owed`), positivity of exactly the stored slots, the range
  of the value during a walk (it never exceeds the subtree it walks in, and
  is positive if it began positive), and that indices held by a caller name
  stored slots. That a draw hits follows: at a leaf, the priority is at least
  the remaining value, so it is positive, so the slot holds a transition. This
  covers every capacity, also those that are not powers of two. `HoldsNewest`
  follows from a formula for each slot (`RingInv`): behind the write index this
  lap, from it on the lap before. `DrawIsProportional` speaks of the sum of all
  leaves left of a node (`Before`, a recursive function over the tree). Below it
  that sum is a left child's own, or the right child's less the left sibling's
  priority, so each pass of the loop keeps "the value drawn is the value that is
  left plus what was passed".
- **Rate limiter.** What the code keeps is one window per client; what the
  property counts is everything ever let through in a minute, but for what a
  forced clean-up forgot. `WindowHolds` squeezes the first between two parts of
  the second, and `RateHeld` says for every request let through, at any time, that
  it and what came before it since the last forced clean-up are at most `Rpm`:
  as time passes, stamps only leave. `TableInv` counts the admitted requests
  since the last clean-up, each of which brings at most one client.
- **Job queue.** Each of the two counts is what the other starts from, `Get`
  needs the queue to hold a job once, and `Start` overwrites every phase and
  needs that no worker is left. `JobInv` says where jobs are with quantifiers only
  (a job in the queue is there once and pending; one in a worker's hands is in
  nobody else's; one that is pending or running is somewhere); the cardinalities
  of the properties follow from it at the end. `RunsOnce` is the action property
  that a status only moves forward.
- **Idempotency.** `LockIsHeld` is inductive once every request that was
  received has a process. That the middleware implements `AtMostOnce` holds with
  one process (the theorem assumes `Procs = {p}`); the invariant `Promise` relates
  each key's saved responses, whoever works on it, and the abstract effect, and
  the mapped set of forgotten keys is `forgotten \cup stale`: a key whose request
  went on after an outdated answer of redis is promised nothing.
- **Selection.** `Inv` follows a call in flight: its request is pending and its
  own (`Owns`), and the rows, scores and episode of the request are those of the
  candidates it has passed (`Written`). Then everything is decided by who may
  write: no step of another call touches the tables of an owned request, and
  nobody owns a completed one. The simulation of `SelectionLedger` is one lemma
  per step: all but `CompleteRequest`, which publishes, and the feedback and
  audit steps map to a stutter.
- **Learning.** What a step is paid from is decided by resets that may lie in an
  earlier training, so the invariant speaks of every environment at all times:
  the observation its PPO object remembers is recorded, and is the one its
  rewards are of. Only the environment of the running training replays, and no
  signal survives the resets before a step. `BatchIsLearned` needs the order in
  which a replay goes round its batch (`RoundInv`): the queue's index is in step
  with the training, what lies behind it was met, and the steps that are left
  reach its end; one transition may be missing exactly when the PPO object was
  used before. The script's `BooksInv` says what its last training was offered,
  by where the script is; no step of the service takes anything out of the
  buffer, and a restart moves what it loses into `lost`.
- **SDKs.** `ServerInv` says what an attempt has written by where it is, also
  when its caller has given it up; `PythonInv` that a Python attempt is only
  followed by another when something in front turned it away.

- **Scoring.** The state machine is short and its operators are long, so the
  proof is about the operators. `Sums` adds what its equation says, hence totals
  of values in a range are in that range and a trimmed mean lies between the
  second and the last but one of four or more sorted values. `StableSort` takes
  for each place the element with that many before it; the number of elements
  before an element is shown to be a bijection onto the places, so a sort is a
  permutation in which nobody stands behind one it is above. Win counts are
  compared by injections: a judge that prefers a place gives everybody none, and
  a champion's pairs are all the pairs there are of it, more than anybody else
  can win. `ScoringInv` then says only whose score was computed last, that
  everybody is ranked, and that the comparisons begin from the order of the
  scores. The bound on a hybrid choice is arithmetic on `Blend` (`BlendBound`,
  `WeightBound`): the chosen blend is no less than that of the best score, no
  share exceeds the largest, and the weights cancel without a division, so it
  holds for every weight from nothing to the whole.
- **Assessment.** The invariant is small: `StudyInv` says what kind of data a
  study has and that a log shows no action more often than the old policy takes
  it (`LogIs`), which alone is not enough to know the log, but with its length is:
  the shares sum to `Units`, so a log of that length shows each action exactly as
  often. The rest is about sums. They are linear and monotone (`Linear`,
  `Monotone`), a count is a sum of ones (`CountIsSum`), a sum over samples is a
  sum over their values (`ByValue`), and the square of a sum of products is at
  most the product of the sums of squares (`Cauchy`, by the discriminant of a sum
  of squares that is never negative).
  *Estimates.* The weighted estimate is a mean with weights that are not negative,
  the sample size is between 1 and n by `SquareOfSum` and `Cauchy`, and on a full
  log `ByValue` turns the sum of weighted rewards into the value of the new policy.
  *Drift.* Two samples with one share per grade have one distribution function and
  the other way round (`SameIsNear`, `NearIsSame`, by differences of neighbouring
  values), so a bin's shares are `a / n` and `b / m` with `a * m = b * n`, and what
  the smoothing leaves of their difference is bounded by `n - m` (`SharesAreNear`,
  `SmoothingIsSmall`); and the distance is one only where all of one
  sample and none of the other lies at or below a value.
  *Sessions.* The slope is the sum over pairs because both are the same bilinear
  form (`CovarianceIs`, `SlopeIs`); the correlation is `Cauchy`.
  *Calibration.* Clamping keeps each score between itself and its scaled value
  (`ClampedBetween`), so sums stay between the sums.
  *Batches.* The squared excesses sum to n times the variance, so at most a quarter
  of n can exceed four times it (`FewAreCut`), and signed squares are ordered as
  what they are squares of (`SignedOrder`).

Some of these arguments are inductions over a recursive function (`Sums`, and
`Before` of the tree) or over the length of a sequence. The library's induction theorems take an operator as a
parameter and cannot be used, so the modules derive the least-number principle
from the well-foundedness of `<` on the naturals (`LeastNumber`) and argue from
the least counterexample; that the recursive equation has a solution at all is
proved the same way. No module has a `RECURSIVE` operator.

Model-checked only:

- liveness (`OpenEnds`, `StopReturns`, `PendingIsStarted`, `LockFreed`,
  `RetryIsAdmitted`, `CallReturns`, `LoopEnds`): TLAPS proves none here, nor
  facts about `ENABLED`;
- the violation runs, which exhibit a behaviour.

## 6. What is not modelled

- Floating point: rounding, logarithms, confidence intervals, the bootstrap and
  fitted Q evaluation. `Assessment` and `Scoring` are exact.
- PPO itself: a training is the transitions it was shown and paid from.
- Prompts, rubrics, wording, token counts and costs; authentication, security
  headers, logging and metrics, which transform one request or response and
  keep nothing the other parts read; configuration and declarations.
- More than one server process on one `policies/` directory or one in-memory
  store, for which the code has no protocol.
- A disk that is full: a write is only cut short by a crash.
- The migration script (one pass over the tables; it copies `created_at` as the
  text SQLite has, which asyncpg does not take for a `timestamptz`) and the
  infrastructure, but for the directory the entry point seeds.

## 7. Plan

Done, in order of importance: `PolicyLifecycle`; `SelectPipeline` over
`SelectionLedger`; `CircuitBreaker`, `LLMClient`, `ReplayBuffer`; `JobQueue`,
`Idempotency` over `AtMostOnce`; `SdkRetry`; `Scoring`; `Learning` and
`DataLoop`; `RateLimit`; `Assessment`; and the proofs of section 5.

Left: several processes, should the code get a protocol for them.
