------------------------------ MODULE Scoring ------------------------------
(***************************************************************************)
(* How one winner comes out of many judge calls:                           *)
(* EnterpriseScorer.score_candidates (_internal/_scorer.py) with           *)
(* PairwiseComparison and the trimmed mean (_internal/_bias.py), and       *)
(* HybridSelector.select (_internal/_selector.py).                         *)
(*                                                                         *)
(* A candidate has one dimension: the twelve are aggregated alike, and the *)
(* composite is their weighted sum.  Judge calls run together, but their   *)
(* results are used in the order of the calls.  Any of them may fail, and  *)
(* judges of the author's own family are not asked: a candidate may get    *)
(* any number of scores, down to none.                                     *)
(***************************************************************************)
EXTENDS Sums, FiniteSets

CONSTANTS N,          (* candidates, numbered from 0 as the caller gave them *)
          Judges,     (* judge models in use: one in single_judge mode     *)
          Samples,    (* judge_samples_per_model                           *)
          Scores,     (* the numbers a judge may say                       *)
          Actions,    (* n_candidates of the policy                        *)
          Shares,     (* bound: probabilities of an action, in tenths      *)
          Weight,     (* rl_weight, in tenths                              *)
          Confidence, (* confidence_threshold, in tenths                   *)
          None

ASSUME ScoringAssumption ==
  /\ N \in Nat /\ N >= 2
  /\ Judges \in Nat \ {0} /\ Samples \in Nat \ {0}
  /\ Scores \subseteq Int /\ None \notin Scores /\ None \notin 0..(N - 1)
  /\ Actions \in Nat \ {0} /\ Shares \subseteq 0..10 /\ 0 \in Shares
  /\ Weight \in 0..10 /\ Confidence \in 1..10

VARIABLES
  topK,       (* pairwise_top_k                                            *)
  pc,         (* what comes next                                           *)
  scored,     (* how many candidates have their score                      *)
  results,    (* the scores the last candidate got, in increasing order    *)
  composite,  (* composite_score of each candidate, times Scale            *)
  order,      (* the candidates, best first                                *)
  replies,    (* what the judge said of each pair of the top               *)
  choice      (* the selected candidate, who selected it and how, and the  *)
              (* largest share the policy gave to a candidate in hybrid    *)

svars == <<topK, pc, scored, results, composite, order, replies, choice>>
-----------------------------------------------------------------------------
Cands   == 0..(N - 1)
AsGiven == [i \in 1..N |-> i - 1]
Scale   == 12  (* so that a mean of up to four scores is a whole number    *)

(* list.sort() with a strict order: equal elements keep their places.      *)
StableSort(s, above) ==
  [p \in DOMAIN s |-> s[CHOOSE i \in DOMAIN s :
     Cardinality({j \in DOMAIN s : \/ <<s[j], s[i]>> \in above
                                   \/ /\ <<s[i], s[j]>> \notin above
                                      /\ j < i}) = p - 1]]

(* Mutant of TrimmedMean: only more than four values are trimmed.          *)
TrimmedMeanLate(s) ==
  LET cut  == IF Len(s) > 4 THEN Len(s) \div 4 ELSE 0
      kept == SubSeq(s, 1 + cut, Len(s) - cut)
  IN  IF s = <<>> THEN 0 ELSE (Scale * Total(kept)) \div Len(kept)

(* aggregate_scores_trimmed_mean of the sorted values: from four values on *)
(* a quarter is cut off at each end.                                       *)
TrimmedMean(s) ==
  LET cut  == IF Len(s) >= 4 THEN Len(s) \div 4 ELSE 0
      kept == SubSeq(s, 1 + cut, Len(s) - cut)
  IN  IF s = <<>> THEN 0 ELSE (Scale * Total(kept)) \div Len(kept)

(* _parse_scores: what a reply counts for, None if it is no JSON or does   *)
(* not score the dimension.  (A call that raises counts for nothing.)      *)
Parsed(said) == IF said = None \/ said < 1 THEN 1 ELSE IF said > 5 THEN 5 ELSE said

(* check_self_enhancement_risk: the judges of the provider that wrote a    *)
(* candidate are not asked about it, unless there is only one judge.       *)
Asked(related) == IF Judges > 1 THEN Judges - related ELSE Judges

Heard == {Parsed(said) : said \in Scores \cup {None}}

Increasing(n) == {s \in [1..n -> Heard] : \A i \in 2..n : s[i - 1] <= s[i]}

ByComposite(score) ==
  StableSort(AsGiven, {p \in Cands \X Cands : score[p[1]] > score[p[2]]})

(* _pointwise_score_all, for the next candidate; after the last one the    *)
(* candidates are sorted.                                                  *)
PointwiseScore ==
  /\ pc = "pointwise"
  /\ \E n \in UNION {0..(Asked(related) * Samples) : related \in 0..Judges} :
       results' \in Increasing(n)
  /\ composite' = [composite EXCEPT ![scored] = TrimmedMean(results')]
  /\ scored' = scored + 1
  /\ IF scored' < N
     THEN UNCHANGED <<pc, order>>
     ELSE pc' = "pairwise" /\ order' = ByComposite(composite')
  /\ UNCHANGED <<topK, replies, choice>>
-----------------------------------------------------------------------------
(* Pairs of positions of the top, the better one first.                    *)
Pairs == {p \in (1..topK) \X (1..topK) : p[1] < p[2]}

(* What the judge says when it is shown a first, and when b is first.  A   *)
(* tie, or any other word, is a vote for b: it counts as the answer that   *)
(* is not asked for, B forward and A reversed.                             *)
Said == [forward : {"A", "B"}, reversed : {"A", "B"}]

ASSUME NoneIsNoReply == None \notin Said

(* Mutant of Winner: the second answer is not mapped back.                 *)
WinnerUnswapped(a, b, said) ==
  IF said = None \/ said.forward # said.reversed THEN None
  ELSE IF said.forward = "A" THEN a ELSE b

(* PairwiseComparison: whoever wins in both orders.  In the reversed order *)
(* A is b.                                                                 *)
Winner(a, b, said) ==
  LET forward  == IF said.forward = "A" THEN a ELSE b
      reversed == IF said.reversed = "B" THEN a ELSE b
  IN  IF said = None \/ forward # reversed THEN None ELSE forward

(* _merge_rankings: the top by wins, then by composite score.              *)
Merged(all) ==
  LET winners == [p \in Pairs |-> Winner(order[p[1]], order[p[2]], all[p])]
      wins    == [c \in Cands |-> Cardinality({p \in Pairs : winners[p] = c})]
      above   == {p \in Cands \X Cands :
                    \/ wins[p[1]] > wins[p[2]]
                    \/ wins[p[1]] = wins[p[2]] /\ composite[p[1]] > composite[p[2]]}
  IN  StableSort(SubSeq(order, 1, topK), above) \o SubSeq(order, topK + 1, N)

(* A comparison is dropped if either of its two calls fails.               *)
Pairwise ==
  /\ pc = "pairwise"
  /\ replies' \in [Pairs -> Said \cup {None}]
  /\ order' = Merged(replies')
  /\ pc' = "select"
  /\ results' = <<>>
  /\ UNCHANGED <<topK, scored, composite, choice>>
-----------------------------------------------------------------------------
Best(key) == CHOOSE i \in 1..N : /\ \A j \in 1..N : key[j] <= key[i]
                                 /\ \A j \in 1..(i - 1) : key[j] < key[i]

ByPosition == [i \in 1..N |-> composite[order[i]]]

(* What the policy may give to the ranked positions, in tenths.  Without a *)
(* policy, or when all its weight is on positions past the last, nothing.  *)
Signals == {p \in [1..N -> Shares] : Total(p) <= 10}

(* rl_confidence                                                           *)
Sure(p) == p[Best(p)]

(* The weight of the policy, less if it is not sure of itself.             *)
Trust(p) == IF Sure(p) < Confidence THEN Weight * Sure(p) ELSE Weight * Confidence

Highest == IF ByPosition[Best(ByPosition)] = 0 THEN 1 ELSE ByPosition[Best(ByPosition)]

(* Mutant of Blend: the two weights are exchanged.                         *)
BlendSwapped(p) ==
  LET trust == Trust(p)  top == Highest  score == ByPosition IN
    [i \in 1..N |-> trust * 10 * score[i] + (10 * Confidence - trust) * p[i] * top]

(* (1 - w) * composite / max + w * probability, times 10 * Confidence * max *)
Blend(p) ==
  LET trust == Trust(p)  top == Highest  score == ByPosition IN
    [i \in 1..N |-> (10 * Confidence - trust) * 10 * score[i] + trust * p[i] * top]

Select(who, method, index, sure) ==
  /\ pc = "select"
  /\ pc' = "done"
  /\ choice' = [by |-> who, method |-> method, cand |-> order[index], sure |-> sure]
  /\ replies' = None
  /\ UNCHANGED <<topK, scored, results, composite, order>>

(* _apply_degradation: L1 changes nothing here, nor elsewhere.             *)
Effective(method, level) == IF level \in {"L2", "L3"} THEN "scoring_only" ELSE method

SelectByScoring(who) == Select(who, "scoring_only", Best(ByPosition), 0)

(* The predicted action, modulo the number of candidates.                  *)
SelectByRL ==
  \E action \in 0..(Actions - 1) : Select("service", "rl_only", (action % N) + 1, 0)

SelectHybrid ==
  \E p \in Signals : Select("service", "hybrid", Best(Blend(p)), Sure(p))

(* Without a policy rl_only falls back to the scores, and hybrid is given  *)
(* no signal, which is one of Signals.                                     *)
HybridSelect ==
  \E method \in {Effective(asked, level) : asked \in {"scoring_only", "rl_only", "hybrid"},
                                          level \in {"L0", "L1", "L2", "L3"}} :
    \/ method \in {"scoring_only", "rl_only"} /\ SelectByScoring("service")
    \/ method = "rl_only" /\ SelectByRL
    \/ method = "hybrid" /\ SelectHybrid

(* Selector.select (rl/selector.py), the public selector, is given a list  *)
(* of scored candidates by its caller.  It cuts an action that is too      *)
(* large down to the last candidate, and it trusts the policy without      *)
(* regard to its confidence.                                               *)
FacadeSelect ==
  LET fixed(p) == [i \in 1..N |-> (10 - Weight) * 10 * ByPosition[i] + Weight * p[i] * Highest]
  IN  \/ SelectByScoring("facade")
      \/ \E action \in 0..(Actions - 1) :
           Select("facade", "rl_only", IF action < N THEN action + 1 ELSE N, 0)
      \/ Actions >= N /\ \E p \in Signals : Select("facade", "hybrid", Best(fixed(p)), Sure(p))
-----------------------------------------------------------------------------
SInit ==
  /\ topK \in 2..N
  /\ pc = "pointwise"
  /\ scored = 0
  /\ results = <<>>
  /\ composite = [c \in Cands |-> 0]
  /\ order = AsGiven
  /\ replies = None
  /\ choice = None

SNext == PointwiseScore \/ Pairwise \/ HybridSelect \/ FacadeSelect

SSpec == SInit /\ [][SNext]_svars
-----------------------------------------------------------------------------
(* The comparisons only settle the order of the top: nobody is lost or     *)
(* doubled, and whoever was ranked below stays where the scores put it.    *)
OnlyTopIsReordered(before) ==
  /\ {order[i] : i \in 1..N} = Cands
  /\ \A i \in (topK + 1)..N : order[i] = before[i]

(* A judge that prefers whatever it is shown first, or whatever it is      *)
(* shown last, changes nothing, whichever of its calls fail.               *)
BiasIsIgnored(before) ==
  (\A p \in Pairs : replies[p] # None =>
     replies[p].forward = replies[p].reversed)
  => order = before

(* A candidate that beats every other one of the top in both orders leads. *)
ChampionLeads(before) ==
  \A i \in 1..topK :
    (\A p \in Pairs :
       /\ p[1] = i => replies[p] = [forward |-> "A", reversed |-> "B"]
       /\ p[2] = i => replies[p] = [forward |-> "B", reversed |-> "A"])
    => order[1] = before[i]

(* What the comparison phase may and must do, stated without win counts.   *)
PairwiseIsFair ==
  pc = "select" =>
    LET before == ByComposite(composite) IN
      OnlyTopIsReordered(before) /\ BiasIsIgnored(before) /\ ChampionLeads(before)

(* From four scores on, a single judge call cannot move the score of a     *)
(* candidate beyond what the other calls said.                             *)
OutlierIsDropped ==
  Len(results) >= 4 =>
    composite[scored - 1] \in (Scale * results[2])..(Scale * results[Len(results) - 1])

(* Scoring picks a best candidate whatever the comparisons said.  In hybrid*)
(* mode a candidate is passed over only for one whose score falls short of *)
(* its own by no more than the policy can make up for: with w the weight it*)
(* really has (in the service less than rl_weight if it is not sure), the  *)
(* part w / (1 - w) of that score, times its largest share.  With the whole*)
(* weight (w = 1) the scores count for nothing; up to the default of a half*)
(* it takes a policy that gives one candidate its whole share to select an *)
(* unscored candidate over a scored one.                                   *)
ChoiceIsBounded ==
  pc = "done" => \A c \in Cands :
    LET gap   == composite[c] - composite[choice.cand]
        limit == IF choice.by = "service" /\ choice.sure < Confidence THEN choice.sure ELSE Confidence
        trust == Weight * limit
    IN  /\ choice.method = "scoring_only" => gap <= 0
        /\ choice.method = "hybrid" =>
             (10 * Confidence - trust) * 10 * gap <= trust * choice.sure * composite[c]

=============================================================================
