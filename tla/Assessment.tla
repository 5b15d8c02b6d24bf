----------------------------- MODULE Assessment -----------------------------
(***************************************************************************)
(* What the repository concludes from scores and logged selections:        *)
(* off-policy evaluation (_internal/_ope.py, rl/evaluation.py), the drift  *)
(* of the scores (_internal/_drift.py), the session statistics of          *)
(* BiasDetector (_internal/_bias.py) and anchor-based calibration          *)
(* (_internal/_calibration.py).                                            *)
(*                                                                         *)
(* A behaviour is one study: its samples come in one by one, in any order, *)
(* and the estimates are functions of the samples so far.  Fractions are   *)
(* compared by cross-multiplication; the floors of 1e-8 and 1e-12 that     *)
(* only keep a divisor from being zero count as nothing.                   *)
(***************************************************************************)
EXTENDS Sums, FiniteSets, Functions

CONSTANTS Arms,      (* actions of the bandit whose log is evaluated        *)
          Units,     (* probabilities are multiples of 1 / Units            *)
          Common,    (* and ratios of them of 1 / Common                    *)
          Rewards,   (* logged rewards                                      *)
          Grades,    (* scores                                              *)
          Sample,    (* scores a test needs, and the sessions look at       *)
          History,   (* window_size of the drift detector                   *)
          MaxData,   (* bound: samples of a study                           *)
          Bins       (* n_bins                                              *)

(* What the constants must satisfy.                                        *)
ASSUME AssessmentAssumption ==
  /\ {Arms, Units, Common} \subseteq Nat \ {0}
  /\ \A b \in 1..Units : Common % b = 0
  /\ Rewards \subseteq Int /\ Grades \subseteq 1..5
  /\ {Sample, History, MaxData, Bins} \subseteq Nat \ {0} /\ Sample >= 2

VARIABLES
  study,  (* what is studied: given is its set-up, data its samples         *)
  given,
  data

avars == <<study, given, data>>
-----------------------------------------------------------------------------
Least(S)  == CHOOSE x \in S : \A y \in S : x <= y
Most(S)   == CHOOSE x \in S : \A y \in S : x >= y
Abs(x)    == IF x < 0 THEN -x ELSE x
LastOf(s, n) == SubSeq(s, Len(s) - n + 1, Len(s))
-----------------------------------------------------------------------------
(* Off-policy evaluation.  The log was written by the policy old, which    *)
(* gives each action a probability; new is the policy to evaluate.         *)
Acts     == 1..Arms
Policies == {p \in [Acts -> 0..Units] : Total(p) = Units}

(* Mutant of Ratio: the two policies are exchanged.                        *)
RatioInverted(a) == IF given.new[a] = 0 THEN 0 ELSE (Common * given.old[a]) \div given.new[a]

(* new_prob / b_prob of a logged action.                                   *)
Ratio(a) == (Common * given.new[a]) \div given.old[a]

Ratios   == [i \in DOMAIN data |-> Ratio(data[i])]
Weighted == [i \in DOMAIN data |-> Ratios[i] * given.reward[data[i]]]

(* The estimates, as <<numerator, denominator>>.                           *)
IS  == <<Total(Weighted), Common * Len(data)>>
WIS == IF Total(Ratios) = 0 THEN <<0, 1>> ELSE <<Total(Weighted), Total(Ratios)>>
ESS == <<Total(Ratios) * Total(Ratios), Total([i \in DOMAIN data |-> Ratios[i] * Ratios[i]])>>

Estimate(method) == IF method = "is" THEN IS ELSE WIS

Log(a) ==
  /\ study = "policy"
  /\ Cardinality({i \in DOMAIN data : data[i] = a}) < given.old[a]
  /\ data' = Append(data, a)
  /\ UNCHANGED <<study, given>>
-----------------------------------------------------------------------------
(* Drift.  given is the reference; data are all the scores that came in.   *)
Current == LastOf(data, IF Len(data) < History THEN Len(data) ELSE History)

CountTo(s, v) == Cardinality({i \in DOMAIN s : s[i] <= v})

(* Mutant of Gap: the distributions are compared at the reference only.    *)
GapAtReference ==
  Most({Abs(CountTo(given, v) * Len(Current) - CountTo(Current, v) * Len(given)) :
          v \in Range(given)})

(* _compute_ks: the largest difference of the two distribution functions,  *)
(* over every value of either; times the product of the lengths.           *)
Gap ==
  Most({Abs(CountTo(given, v) * Len(Current) - CountTo(Current, v) * Len(given)) :
          v \in Range(given \o Current)})

(* _compute_psi: the bins cut the range of both into equal parts; the ends *)
(* are moved out by a hundredth.  Everything is times 100 * Bins.          *)
Low    == 100 * Least(Range(given \o Current)) - 1
High   == 100 * Most(Range(given \o Current)) + 1
Bin(v) == CHOOSE k \in 1..Bins :
            /\ Low * Bins + (k - 1) * (High - Low) <= 100 * Bins * v
            /\ \/ 100 * Bins * v < Low * Bins + k * (High - Low)
               \/ k = Bins
InBin(s, k) == Cardinality({i \in DOMAIN s : Bin(s[i]) = k})

(* The two shares of a bin, each smoothed by 1e-4 as in the code, compared *)
(* by cross-multiplication: PSI is zero if no bin shifts.                  *)
Shift(k) ==
  (10000 * InBin(given, k) + 1) * (10000 * Len(Current) + Bins)
    - (10000 * InBin(Current, k) + 1) * (10000 * Len(given) + Bins)

HasSufficientData == Len(given) >= Sample /\ Len(Current) >= Sample

AddScore(x) ==
  /\ study = "drift"
  /\ data' = Append(data, x)
  /\ UNCHANGED <<study, given>>
-----------------------------------------------------------------------------
(* A session of BiasDetector: data are the scores with the lengths of the  *)
(* specs.  Both statistics look at the last Sample of them.                *)
(* Mutant of Recent: the session is read from its start.                   *)
RecentIsFirst(field) == [i \in 1..Sample |-> data[i][field]]

Recent(field) == [i \in 1..Sample |-> LastOf(data, Sample)[i][field]]
Places        == [i \in 1..Sample |-> i]

(* Sum of (x - mean x)(y - mean y), times Sample squared.                  *)
Covariance(x, y) ==
  Total([i \in 1..Sample |-> (Sample * x[i] - Total(x)) * (Sample * y[i] - Total(y))])

(* check_leniency_drift: the numerator of the slope.                       *)
Leniency == Covariance(Places, Recent("score"))

(* check_verbosity_correlation: the numerator, and the square of the       *)
(* denominator; no correlation when one of the columns is constant.        *)
Verbosity == Covariance(Recent("score"), Recent("length"))
Spread    == Covariance(Recent("score"), Recent("score"))
               * Covariance(Recent("length"), Recent("length"))

RecordScore(x, length) ==
  /\ study = "session"
  /\ data' = Append(data, [score |-> x, length |-> length])
  /\ UNCHANGED <<study, given>>

ResetSession ==
  /\ study = "session" /\ data # <<>>
  /\ data' = <<>>
  /\ UNCHANGED <<study, given>>
-----------------------------------------------------------------------------
(* Calibration: data are the anchors that both a human and the judge gave  *)
(* a score.                                                                *)
Human == [i \in DOMAIN data |-> data[i].human]
Judge == [i \in DOMAIN data |-> data[i].judge]

(* calibrate_anchor_based: the scaling factor, as a fraction.              *)
ScaleOf == IF data = <<>> THEN <<1, 1>> ELSE <<Total(Human), Total(Judge)>>

(* apply_calibration, times the denominator of the scale.                  *)
Calibrated(x) ==
  LET y == x * ScaleOf[1]  one == ScaleOf[2] IN
    IF y < one THEN one ELSE IF y > 5 * one THEN 5 * one ELSE y

(* calibrate_zscore of a batch: how many standard deviations a score lies  *)
(* above the mean, squared with its sign, as a fraction, and no more than  *)
(* two either way (the target is 3 + z, clamped to 1..5); a batch without  *)
(* any spread is put on the target.                                        *)
Excess(x)   == Len(data) * x - Total(data)
Variance    == Len(data) * Total([i \in DOMAIN data |-> data[i] * data[i]]) - Total(data) * Total(data)
Deviates(x) == Variance > 0 /\ Excess(x) * Excess(x) >= 4 * Variance
Normal(x)   ==
  LET square == IF Deviates(x) THEN 4 * Variance ELSE Excess(x) * Excess(x) IN
    IF Variance = 0 THEN 0 ELSE IF Excess(x) < 0 THEN -square ELSE square

AddToBatch(x) ==
  /\ study = "batch"
  /\ data' = Append(data, x)
  /\ UNCHANGED <<study, given>>

AddAnchor(h, j) ==
  /\ study = "anchors"
  /\ data' = Append(data, [human |-> h, judge |-> j])
  /\ UNCHANGED <<study, given>>
-----------------------------------------------------------------------------
SetUps ==
  [policy  |-> [old : Policies, new : Policies, reward : [Acts -> Rewards]],
   drift   |-> UNION {[1..n -> Grades] : n \in Sample..History},
   session |-> {<<>>},
   batch   |-> {<<>>},
   anchors |-> {<<>>}]

AInit ==
  /\ study \in DOMAIN SetUps
  /\ given \in SetUps[study]
  /\ data = <<>>

ANext ==
  /\ Len(data) < MaxData
  /\ \/ \E a \in Acts : Log(a)
     \/ \E x \in Grades : AddScore(x)
     \/ \E x \in Grades, length \in 1..2 : RecordScore(x, length)
     \/ ResetSession
     \/ \E h, j \in Grades : AddAnchor(h, j)
     \/ \E x \in Grades : AddToBatch(x)

ASpec == AInit /\ [][ANext]_avars
-----------------------------------------------------------------------------
(* What the new policy earns with some of the actions.                     *)
Value(S) == Total([a \in Acts |-> IF a \in S THEN given.new[a] * given.reward[a] ELSE 0])

Seen(p) == {a \in Acts : p[a] > 0}

(* Off-policy evaluation tells the value of a policy that was never run.   *)
(* The weighted estimate stays within the rewards seen, and the effective  *)
(* sample size within 1 and the number of samples.  On a log that shows    *)
(* every action as often as the old policy takes it, importance sampling   *)
(* gives exactly what the new policy earns with the actions the log knows, *)
(* and the weighted estimate the same if those are all it takes.           *)
EstimatesAreSound ==
  study = "policy" /\ data # <<>> =>
    LET rewards == {given.reward[a] : a \in Range(data)} IN
      /\ Total(Ratios) > 0 =>
           /\ Estimate("wis")[1] \in (Least(rewards) * WIS[2])..(Most(rewards) * WIS[2])
           /\ ESS[1] \in ESS[2]..(Len(data) * ESS[2])
      /\ Len(data) = Units =>
           /\ Estimate("is")[1] * Units = Value(Seen(given.old)) * IS[2]
           /\ Seen(given.new) \subseteq Seen(given.old) =>
                Estimate("wis")[1] * Units = Value(Acts) * WIS[2]

(* The drift tests see the last History scores, whatever came before: the  *)
(* distance is zero exactly when both samples have the same shares, and    *)
(* then the smoothing moves a bin by no more than the difference of the    *)
(* lengths accounts for (and by nothing if both are as long); the distance *)
(* is one exactly when the samples do not overlap.                         *)
DriftIsMeasured ==
  LET now == IF Len(data) < History THEN data ELSE LastOf(data, History)
      share(s, v) == Cardinality({i \in DOMAIN s : s[i] = v})
      same == \A v \in Grades : share(given, v) * Len(now) = share(now, v) * Len(given)
      apart == \/ \A x \in Range(given), y \in Range(now) : x < y
               \/ \A x \in Range(given), y \in Range(now) : y < x
  IN  study = "drift" /\ HasSufficientData =>
        /\ (Gap = 0) <=> same
        /\ same => \A k \in 1..Bins : Abs(Shift(k)) <= 10000 * Bins * Abs(Len(given) - Len(now))
        /\ (Gap = Len(given) * Len(now)) <=> apart

(* The session statistics look at the latest scores, too: the slope has    *)
(* the sign of the changes between all pairs of the last Sample scores (of *)
(* which there are two for any two scores), each weighted with the time    *)
(* between them, and the correlation lies between -1 and 1.                *)
SessionIsMeasured ==
  LET recent  == LastOf(data, Sample)
      changes == [i \in 1..Sample |-> Total([j \in 1..Sample |->
                    (j - i) * (recent[j].score - recent[i].score)])]
  IN  study = "session" /\ Len(data) >= Sample =>
        2 * Leniency = Sample * Total(changes) /\ Verbosity * Verbosity <= Spread

(* Calibration moves the mean of the judge on the anchors towards the mean *)
(* of the humans and never past it, in spite of the clamp to 1..5.         *)
CalibrationNeverOvershoots ==
  LET before == Total(Judge) * ScaleOf[2]
      after  == Total([i \in DOMAIN data |-> Calibrated(data[i].judge)])
      goal   == Total(Human) * ScaleOf[2]
  IN  study = "anchors" => after \in (before..goal) \cup (goal..before)

(* Normalising a batch keeps the order of its scores, and what it cuts off *)
(* at either end is at most a quarter of them; scores that are equal stay  *)
(* equal, and two that differ do not become equal unless both are cut off. *)
NormalKeepsOrder ==
  LET cut == {i \in DOMAIN data : Deviates(data[i])} IN
    study = "batch" /\ Len(data) >= 2 =>
      /\ 4 * Cardinality(cut) <= Len(data)
      /\ \A i, j \in DOMAIN data :
           /\ data[i] < data[j] => Normal(data[i]) <= Normal(data[j])
           /\ Normal(data[i]) = Normal(data[j]) => data[i] = data[j] \/ {i, j} \subseteq cut

(* What the monitors of the judges say is true of the scores they saw.     *)
MonitorsAreSound ==
  DriftIsMeasured /\ SessionIsMeasured /\ CalibrationNeverOvershoots /\ NormalKeepsOrder
=============================================================================
