-------------------------- MODULE MCPolicyLifecycle --------------------------
(* Bounded instance of PolicyLifecycle: the PPOPolicy objects are           *)
(* interchangeable.                                                         *)
EXTENDS PolicyLifecycle, TLC

Symmetry == Permutations(Objs)
=============================================================================
