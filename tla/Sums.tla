-------------------------------- MODULE Sums --------------------------------
(* Sums of sequences of numbers.                                           *)
EXTENDS Integers, Sequences

(* What the first i elements of a sequence come to, for each i.            *)
Sums(s) ==
  LET sum[i \in 0..Len(s)] == IF i = 0 THEN 0 ELSE sum[i - 1] + s[i] IN sum

Total(s) == Sums(s)[Len(s)]
=============================================================================
