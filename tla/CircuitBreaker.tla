--------------------------- MODULE CircuitBreaker ---------------------------
(***************************************************************************)
(* CircuitBreaker (_internal/_client.py) and the calls it guards: a call   *)
(* passes check(), runs, and then reports success, failure or nothing (an  *)
(* exception its client does not count).  Calls overlap, so a report can   *)
(* come long after the state its check() saw has changed.                  *)
(*                                                                         *)
(* check, record_success and record_failure suspend only for a lock that   *)
(* no one holds across an await: each is atomic.                           *)
(*                                                                         *)
(* The clock is the time since the last recorded failure, as far as the    *)
(* cooldown can tell it; a failure count above the threshold is not told   *)
(* apart from the threshold.                                               *)
(***************************************************************************)
EXTENDS Naturals

CONSTANTS Callers,    (* concurrent users of the breaker                   *)
          Threshold,  (* failures that open the circuit                    *)
          Cooldown    (* ticks until an open circuit lets calls through    *)

ASSUME BreakerAssumption ==
  /\ Threshold \in Nat \ {0}
  /\ Cooldown \in Nat \ {0}

VARIABLES
  state,      (* _state                                                    *)
  failures,   (* _failure_count, at most Threshold                         *)
  age,        (* monotonic() - _last_failure_time, at most Cooldown        *)
  inFlight,   (* the callers whose call runs                               *)
  older       (* history: those whose call began before the circuit opened *)

breaker == <<state, failures, age>>
bvars   == <<breaker, inFlight, older>>

States == {"closed", "open", "half_open"}

AtMost(k, bound) == IF k > bound THEN bound ELSE k
-----------------------------------------------------------------------------
(* Mutant of IsOpen: an open circuit lets calls through.                   *)
IsOpenLeaks == UNCHANGED breaker

(* Mutant of IsOpen: the cooldown never ends.                              *)
IsOpenForever == state # "open" /\ UNCHANGED breaker

(* check(): is_open is FALSE; reading it half-opens a circuit whose        *)
(* cooldown is over.                                                       *)
IsOpen ==
  \/ state # "open" /\ UNCHANGED breaker
  \/ state = "open" /\ age >= Cooldown /\ state' = "half_open" /\ UNCHANGED <<failures, age>>

Check(c) ==
  /\ c \notin inFlight
  /\ IsOpen
  /\ inFlight' = inFlight \cup {c}
  /\ UNCHANGED older

(* check() raises CircuitBreakerOpenError: nothing changes.                *)
Rejected(c) ==
  /\ c \notin inFlight
  /\ state = "open" /\ age < Cooldown
  /\ UNCHANGED bvars

Leave(c) == inFlight' = inFlight \ {c}

RecordSuccess(c) ==
  /\ c \in inFlight
  /\ failures' = 0
  /\ state' = "closed"
  /\ Leave(c)
  /\ older' = {}
  /\ UNCHANGED age

(* Mutant of RecordFailure: the comparison is strict.                      *)
RecordFailureLate(c) ==
  /\ c \in inFlight
  /\ failures' = AtMost(failures + 1, Threshold)
  /\ age' = 0
  /\ IF failures >= Threshold
     THEN state' = "open" /\ older' = inFlight \ {c}
     ELSE UNCHANGED state /\ older' = older \ {c}
  /\ Leave(c)

RecordFailure(c) ==
  /\ c \in inFlight
  /\ failures' = AtMost(failures + 1, Threshold)
  /\ age' = 0
  /\ IF failures' >= Threshold
     THEN state' = "open" /\ older' = inFlight \ {c}
     ELSE UNCHANGED state /\ older' = older \ {c}
  /\ Leave(c)

(* The call raises an exception that is neither.                           *)
Unrecorded(c) ==
  /\ c \in inFlight
  /\ Leave(c)
  /\ older' = older \ {c}
  /\ UNCHANGED breaker

Tick ==
  /\ age < Cooldown
  /\ age' = age + 1
  /\ UNCHANGED <<state, failures, inFlight, older>>
-----------------------------------------------------------------------------
(* _last_failure_time is 0.0, long ago.                                    *)
BInit ==
  /\ state = "closed"
  /\ failures = 0
  /\ age = Cooldown
  /\ inFlight = {}
  /\ older = {}

BNext ==
  \/ \E c \in Callers : \/ Check(c) \/ Rejected(c) \/ RecordSuccess(c)
                        \/ RecordFailure(c) \/ Unrecorded(c)
  \/ Tick

BSpec == BInit /\ [][BNext]_bvars

Report(c) == RecordSuccess(c) \/ RecordFailure(c) \/ Unrecorded(c)

(* Time passes, every call ends (the HTTP client has a timeout), and some  *)
(* caller tries again and again.                                           *)
BFairSpec ==
  /\ BSpec
  /\ WF_bvars(Tick)
  /\ \A c \in Callers : WF_bvars(Report(c))
  /\ WF_bvars(\E c \in Callers : Check(c))
-----------------------------------------------------------------------------
BTypeOK ==
  /\ state \in States
  /\ failures \in 0..Threshold
  /\ age \in 0..Cooldown
  /\ inFlight \subseteq Callers
  /\ older \subseteq inFlight

(* The count and the state agree: a closed circuit has failures to spare,  *)
(* an open or half-open one has none, so one more failure re-opens it.     *)
CountMatchesState == state = "closed" <=> failures < Threshold

(* While the circuit is open, every call that still runs began before it   *)
(* opened: neither a race between check() and a report nor a late failure  *)
(* that re-arms the cooldown lets a new one in.                            *)
NothingNewWhileOpen == state = "open" => inFlight \subseteq older

(* The transitions the class draws, and one it does not: a success that    *)
(* arrives late closes an open circuit before its cooldown.  Half-open     *)
(* leaves by the first report: success closes, failure opens.              *)
DrawnTransitions ==
  [][\/ state' = state
     \/ state = "closed" /\ state' = "open" /\ failures' = Threshold
     \/ state = "open" /\ state' = "half_open" /\ age = Cooldown
     \/ state = "half_open" /\ state' \in {"closed", "open"}
     \/ state = "open" /\ state' = "closed" /\ inFlight' # inFlight /\ inFlight \subseteq older]_bvars

(* An open circuit does not stay open: the calls that could re-arm the     *)
(* cooldown are finitely many, and then the next check() half-opens it.    *)
OpenEnds == state = "open" ~> state # "open"
=============================================================================
