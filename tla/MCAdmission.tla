---------------------------- MODULE MCAdmission ----------------------------
(***************************************************************************)
(* The two gates of the server that count: RateLimitMiddleware in front of *)
(* its routes and CircuitBreaker in front of the calls they make upstream. *)
(* They share no state and neither waits for the other, so one gate works  *)
(* in a behaviour and the other stands still.                              *)
(***************************************************************************)
EXTENDS CircuitBreaker, RateLimit

VARIABLE gate  (* the one that works                                       *)

vars == <<gate, bvars, rvars>>

AtBreaker(action) == gate = "breaker" /\ action /\ UNCHANGED <<gate, rvars>>
AtLimiter(action) == gate = "limiter" /\ action /\ UNCHANGED <<gate, bvars>>

Init == gate \in {"breaker", "limiter"} /\ BInit /\ RInit

Next == AtBreaker(BNext) \/ AtLimiter(RNext)

(* The fairness of BFairSpec and of RSpec.                                 *)
Spec ==
  /\ Init /\ [][Next]_vars
  /\ WF_vars(AtBreaker(Tick))
  /\ \A c \in Callers : WF_vars(AtBreaker(Report(c)))
  /\ WF_vars(AtBreaker(\E c \in Callers : Check(c)))
  /\ WF_vars(AtLimiter(TimePasses))
=============================================================================
