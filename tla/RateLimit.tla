------------------------------ MODULE RateLimit ------------------------------
(***************************************************************************)
(* RateLimitMiddleware (server/middleware/rate_limit.py): the requests of  *)
(* each client in the last minute, and the clean-up that keeps the table   *)
(* of clients from growing.  dispatch does not await before it has decided,*)
(* so a request is one step.                                               *)
(*                                                                         *)
(* Time is a number of ticks.  A time stamp is the ticks since the request *)
(* and its place among the requests its tick let through: the clock tells  *)
(* any two of them apart.  A stamp stops to count after Window ticks (60 s)*)
(* and its client is stale after twice as many (120 s); ages past that are *)
(* alike.                                                                  *)
(***************************************************************************)
EXTENDS Naturals, FiniteSets

CONSTANTS Hosts,       (* addresses of peers, or in X-Forwarded-For        *)
          Unknown,     (* the key of requests that have neither            *)
          Rpm,         (* requests_per_minute                              *)
          Interval,    (* cleanup_interval                                 *)
          MaxClients,  (* max_clients                                      *)
          Window,      (* ticks in 60 seconds                              *)
          Burst        (* bound: requests let through in one tick          *)

ASSUME RateAssumption ==
  /\ Unknown \notin Hosts
  /\ {Rpm, Interval, MaxClients, Window, Burst} \subseteq Nat \ {0}

VARIABLES
  windows,    (* _windows: the stamps of the requests of each client       *)
  count,      (* _request_count                                            *)
  burst,      (* how many requests this tick has let through               *)
  admitted,   (* what was let through in the last 60 seconds               *)
  forgotten   (* the forced clean-ups in them that dropped a live window   *)

rvars == <<windows, count, burst, admitted, forgotten>>
-----------------------------------------------------------------------------
(* _get_client_ip; forwarded and host are sets of at most one address.     *)
ClientIp(forwarded, host) ==
  IF forwarded # {} THEN CHOOSE ip \in forwarded : TRUE
  ELSE IF host # {} THEN CHOOSE ip \in host : TRUE ELSE Unknown

Optional == {{}} \cup {{h} : h \in Hosts}
Clients  == {ClientIp(forwarded, host) : forwarded, host \in Optional}

Oldest == 2 * Window + 1

Now == [age |-> 0, nth |-> burst + 1]

(* s was taken before t.                                                   *)
Before(s, t) == s.age > t.age \/ (s.age = t.age /\ s.nth < t.nth)

Live(w) == {s \in w : s.age < Window}
Known(ws) == {c \in Clients : ws[c] # {}}

(* Mutant of Stale: a client that was quiet for half a window.             *)
StaleTooSoon(ws) == {c \in Known(ws) : \A s \in ws[c] : s.age >= Window \div 2}

(* max(window) is long ago: all of it is.                                  *)
Stale(ws) == {c \in Known(ws) : \A s \in ws[c] : s.age > 2 * Window}

Forget(ws, cs) == [c \in Clients |-> IF c \in cs THEN {} ELSE ws[c]]

(* Mutant of Kept: the table is never cut.                                 *)
KeptAll(ws) == {Known(ws)}

(* Too many clients: the half of max_clients that asked last is kept.      *)
Kept(ws) ==
  IF Cardinality(Known(ws)) <= MaxClients THEN {Known(ws)}
  ELSE {keep \in SUBSET Known(ws) :
          /\ Cardinality(keep) = MaxClients \div 2
          /\ \A c \in keep, d \in Known(ws) \ keep :
               \A t \in ws[d] : \E s \in ws[c] : ~Before(s, t)}

(* _cleanup_stale_entries                                                  *)
Cleanup(ws) ==
  LET fresh == Forget(ws, Stale(ws)) IN
    \E keep \in Kept(fresh) :
      LET lost == {c \in Known(fresh) \ keep : Live(fresh[c]) # {}} IN
        /\ windows' = Forget(fresh, Known(fresh) \ keep)
        /\ forgotten' = [c \in Clients |->
             IF c \in lost THEN forgotten[c] \cup {Now} ELSE forgotten[c]]

AtLimit(c) == Cardinality(Live(windows[c])) >= Rpm

(* A request that is let through; every Interval of them the table is      *)
(* cleaned up.                                                             *)
Admit(c) ==
  /\ burst < Burst
  /\ ~AtLimit(c)
  /\ admitted' = [admitted EXCEPT ![c] = @ \cup {Now}]
  /\ burst' = burst + 1
  /\ LET ws == [windows EXCEPT ![c] = Live(@) \cup {Now}] IN
       IF count + 1 >= Interval
       THEN count' = 0 /\ Cleanup(ws)
       ELSE count' = count + 1 /\ windows' = ws /\ UNCHANGED forgotten

(* Mutant of AfterReject: a rejected request counts too.                   *)
RejectCounts(w) == Live(w) \cup {Now}

AfterReject(w) == Live(w)

(* 429 with Retry-After: 60.                                               *)
Reject(c) ==
  /\ AtLimit(c)
  /\ windows' = [windows EXCEPT ![c] = AfterReject(@)]
  /\ UNCHANGED <<count, burst, admitted, forgotten>>

(* dispatch; requests for /v1/health are passed on without any of this.    *)
Request(c) == Admit(c) \/ Reject(c)

Older(w) == {[s EXCEPT !.age = IF @ < Oldest THEN @ + 1 ELSE Oldest] : s \in w}

TimePasses ==
  /\ windows' = [c \in Clients |-> Older(windows[c])]
  /\ admitted' = [c \in Clients |-> Live(Older(admitted[c]))]
  /\ forgotten' = [c \in Clients |-> Live(Older(forgotten[c]))]
  /\ burst' = 0
  /\ UNCHANGED count

RInit ==
  /\ windows = [c \in Clients |-> {}]
  /\ count = 0
  /\ burst = 0
  /\ admitted = [c \in Clients |-> {}]
  /\ forgotten = [c \in Clients |-> {}]

RNext == TimePasses \/ \E c \in Clients : Request(c)

(* Time goes on; nobody has to ask again.                                  *)
RSpec == RInit /\ [][RNext]_rvars /\ WF_rvars(TimePasses)
-----------------------------------------------------------------------------
(* No client gets more than requests_per_minute through in any minute,     *)
(* except that each forced clean-up in that minute that dropped it lets it *)
(* start anew: neither the time-to-live nor the sliding lose a request     *)
(* that still counts.  And nobody pays for another client: as long as none *)
(* of its own requests counts, a client is let through.                    *)
RateHolds ==
  \A c \in Clients :
    /\ Cardinality(admitted[c]) <= Rpm * (1 + Cardinality(forgotten[c]))
    /\ Live(windows[c]) \subseteq admitted[c]

(* The table of clients never holds more than max_clients and those who    *)
(* may come before the next clean-up: a client that is not in it is let    *)
(* through, and the clean-up counts the requests that are.                 *)
TableIsBounded == Cardinality(Known(windows)) <= MaxClients + Interval - 1

(* A client at its limit is below it again later, however often it asks    *)
(* and is sent away in between: rejected requests do not renew the wait.   *)
RetryIsAdmitted == \A c \in Clients : []<>~AtLimit(c)
=============================================================================
