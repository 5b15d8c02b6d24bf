-------------------------- MODULE MCSelectPipeline --------------------------
(* Bounded instance of SelectPipeline: calls and request ids are            *)
(* interchangeable.                                                         *)
EXTENDS SelectPipeline, TLC

Symmetry == Permutations(Calls) \cup Permutations(Requests)
=============================================================================
