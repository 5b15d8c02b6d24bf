------------------------------ MODULE LLMClient ------------------------------
(***************************************************************************)
(* OpenRouterClient (_internal/_client.py): complete() under the circuit   *)
(* breaker, and complete_with_fallback() above it.  The upstream answers   *)
(* each attempt as it likes.  There is one attempt per call: the decorator *)
(* is made for more, but the first back-off raises.                        *)
(***************************************************************************)
EXTENDS CircuitBreaker

CONSTANTS MaxRetries,  (* config.max_retries                               *)
          Models       (* length of the fallback chain                     *)

VARIABLES
  pc,         (* idle, trying a model, or in an attempt                    *)
  model,      (* the position in the fallback chain                        *)
  answer,     (* what the last call of a caller returned or raised         *)
  failed      (* history: calls that the upstream failed since the last    *)
              (* success, at most Threshold                                *)

client == <<pc, model, answer, failed>>
vars   == <<bvars, client>>
-----------------------------------------------------------------------------
(* What leaves the tenacity decorator after APIConnectionError or          *)
(* APIStatusError.  With an attempt left it calls before_sleep first, which*)
(* logs at the level "warning".  The levels of loguru are in capitals: it  *)
(* raises ValueError.  Otherwise reraise=True lets the error itself out.   *)
RaisedOnFailure == IF MaxRetries > 0 THEN "ValueError" ELSE "APIError"

(* What the except clause of complete() handles.                           *)
CountedErrors == {"RetryError"}

(* What the except clause of complete_with_fallback() handles: the last    *)
(* two are subclasses of the first.                                        *)
FallbackErrors == {"UpstreamError", "CircuitBreakerOpenError", "RateLimitError"}

Finish(c, how) ==
  /\ pc' = [pc EXCEPT ![c] = "idle"]
  /\ answer' = [answer EXCEPT ![c] = how]
  /\ UNCHANGED model

(* complete() raised: the next model of the chain, or the error.           *)
Raises(c, error) ==
  IF error \in FallbackErrors /\ model[c] < Models
  THEN /\ pc' = [pc EXCEPT ![c] = "trying"]
       /\ model' = [model EXCEPT ![c] = @ + 1]
       /\ UNCHANGED answer
  ELSE Finish(c, IF error \in FallbackErrors THEN "UpstreamError" ELSE error)

Call(c) ==
  /\ pc[c] = "idle"
  /\ pc' = [pc EXCEPT ![c] = "trying"]
  /\ model' = [model EXCEPT ![c] = 1]
  /\ UNCHANGED <<bvars, answer, failed>>

Admitted(c) ==
  /\ pc[c] = "trying"
  /\ Check(c)
  /\ pc' = [pc EXCEPT ![c] = "attempt"]
  /\ UNCHANGED <<model, answer, failed>>

TurnedAway(c) ==
  /\ pc[c] = "trying"
  /\ Rejected(c)
  /\ Raises(c, "CircuitBreakerOpenError")
  /\ UNCHANGED failed

Succeeds(c) ==
  /\ pc[c] = "attempt"
  /\ RecordSuccess(c)
  /\ failed' = 0
  /\ Finish(c, "content")

(* A rate limit is turned into an error that is neither retried nor        *)
(* counted; so is an answer without choices, or a retry-after header that  *)
(* is not a number.                                                        *)
NotRetried(c) ==
  /\ pc[c] = "attempt"
  /\ Unrecorded(c)
  /\ \E error \in {"RateLimitError", "other"} : Raises(c, error)
  /\ UNCHANGED failed

(* The upstream cannot be reached, or answers with an error status.        *)
Fails(c) ==
  /\ pc[c] = "attempt"
  /\ IF RaisedOnFailure \in CountedErrors
     THEN RecordFailure(c) /\ Raises(c, "UpstreamError")
     ELSE Unrecorded(c) /\ Raises(c, RaisedOnFailure)
  /\ failed' = AtMost(failed + 1, Threshold)
-----------------------------------------------------------------------------
Init ==
  /\ BInit
  /\ pc = [c \in Callers |-> "idle"]
  /\ model = [c \in Callers |-> 1]
  /\ answer = [c \in Callers |-> "none"]
  /\ failed = 0

Next ==
  \/ \E c \in Callers : \/ Call(c) \/ Admitted(c) \/ TurnedAway(c) \/ Succeeds(c)
                        \/ NotRetried(c) \/ Fails(c)
  \/ Tick /\ UNCHANGED client

Spec == Init /\ [][Next]_vars

(* Threshold calls in a row that the upstream failed open the circuit (the *)
(* class comments draw CLOSED --(threshold failures)--> OPEN).  The code   *)
(* violates it: no failure is ever recorded, as what leaves the retry loop *)
(* is never the exception that complete() waits for.                       *)
FailuresOpenCircuit == failed = Threshold => state # "closed"
=============================================================================
