------------------------------ MODULE SdkRetry ------------------------------
(***************************************************************************)
(* One request of a client SDK, with its retries, against the server:      *)
(* HTTPClient.request (sdks/python _http.py), HttpClient.request           *)
(* (sdks/typescript http.ts) and Client.Do (sdks/go transport.go) in front *)
(* of BackpressureMiddleware and the routes.                               *)
(*                                                                         *)
(* Every attempt is an HTTP request of its own.  The client may give up an *)
(* attempt that the server still works on, and send the next one.  All     *)
(* attempts of a select carry the same request id; the others carry none.  *)
(***************************************************************************)
EXTENDS Naturals, FiniteSets

CONSTANTS Calls,       (* calls of SDK methods, each made once             *)
          SDKs,        (* the SDKs in use                                  *)
          MaxRetries,  (* max_retries                                      *)
          Slots,       (* max_concurrent of the middleware                 *)
          None         (* nobody, nothing                                  *)

ASSUME RetryAssumption ==
  /\ SDKs \subseteq {"python", "typescript", "go"}
  /\ MaxRetries \in Nat /\ Slots \in Nat \ {0}
  /\ None \notin Nat

VARIABLES
  plan,    (* the SDK and the operation of each call                       *)
  call,    (* the client's loop: its attempt, and what it returned         *)
  net,     (* per attempt: where the request or its answer is              *)
  status,  (* evaluation_requests: the status of each select               *)
  writer,  (* the attempt that wrote that row                              *)
  effects  (* the attempts that stored a feedback row or trained the policy*)

tables == <<status, writer, effects>>
vars   == <<plan, call, net, tables>>
-----------------------------------------------------------------------------
Tries    == 0..MaxRetries
Attempts == Calls \X Tries

Answers  == {"200", "500", "503"}                  (* of the application   *)
Gateway  == {"502", "504"}                         (* of a proxy in front  *)
Broken   == {"timeout", "reset", "cut"}            (* no or half an answer *)
Statuses == Answers \cup Gateway \cup {"429"}
Outcomes == Statuses \cup Broken \cup {"connect"}

ASSUME NoOutcomeAssumption == None \notin Outcomes

OnServer == {"admitted", "scoring"}
Phases   == {"unsent", "sent", "dropped"} \cup OnServer \cup Answers

(* A request: verb, route, and whether the attempts share a request id.    *)
Post(route, sameId) == <<"POST", route, sameId>>
Get(route)          == <<"GET", route, FALSE>>

SelectRequest   == Post("/v1/specs", TRUE)
FeedbackRequest == Post("/v1/specs/feedback", FALSE)
TrainRequest    == Post("/v1/policy/train", FALSE)
StatusRequest   == Get("/v1/policy/status")
HealthRequest   == Get("/v1/health")
ReadyRequest    == Get("/v1/health/ready")

(* The methods of the clients.  A synchronous method of the Python client  *)
(* runs its asynchronous one.                                              *)
Python == [select |-> SelectRequest, feedback |-> FeedbackRequest, train |-> TrainRequest,
           status |-> StatusRequest, health |-> HealthRequest, ready |-> ReadyRequest]

TypeScript == [select |-> SelectRequest, feedback |-> FeedbackRequest, train |-> TrainRequest,
               status |-> StatusRequest, health |-> HealthRequest, ready |-> ReadyRequest]

Go == [select |-> SelectRequest, feedback |-> FeedbackRequest, train |-> TrainRequest,
       status |-> StatusRequest, health |-> HealthRequest, ready |-> ReadyRequest]

Requests(sdk) == CASE sdk = "python" -> Python
                   [] sdk = "typescript" -> TypeScript
                   [] sdk = "go" -> Go

Asks(c, route) == Requests(plan[c].sdk)[plan[c].op][2] = route
Reads(c) == Requests(plan[c].sdk)[plan[c].op][1] = "GET"

(* Mutant of PythonRetries: time-outs and refused connections count, as in *)
(* the first two lines of _should_retry.                                   *)
PythonRetriesTimeouts == {"429", "timeout", "connect"}

(* _should_retry sees the SDK's exceptions: a time-out and a ConnectError  *)
(* have been replaced by then, a 502 or 504 has become a ServerError with  *)
(* its default status 500, and a 503 was raised at once.                   *)
PythonRetries == {"429"}

(* A reset is "fetch failed", a body cut short is not; a 503 is no         *)
(* ServerError.                                                            *)
TypeScriptRetries == {"429", "502", "504", "timeout", "connect", "reset"}

GoRetries == Outcomes \ {"200"}

Retries(sdk) == CASE sdk = "python"     -> PythonRetries
                  [] sdk = "typescript" -> TypeScriptRetries
                  [] sdk = "go"         -> GoRetries

Current(c) == <<c, call[c].try>>
Waits(c)   == call[c].pc = "waiting"

(* Mutant of Ended: the attempt counter is not advanced.                   *)
EndedSame(c, o) ==
  call' = [call EXCEPT ![c] =
    IF o \in Retries(plan[c].sdk) /\ @.try < MaxRetries
    THEN [@ EXCEPT !.pc = "ready", !.result = o]
    ELSE [@ EXCEPT !.pc = "returned", !.result = o]]

(* An attempt ended with outcome o: the next one, or back to the caller.   *)
Ended(c, o) ==
  call' = [call EXCEPT ![c] =
    IF o \in Retries(plan[c].sdk) /\ @.try < MaxRetries
    THEN [@ EXCEPT !.pc = "ready", !.try = call[c].try + 1, !.result = o]
    ELSE [@ EXCEPT !.pc = "returned", !.result = o]]

(* After the back-off of a retry.                                          *)
Send(c) ==
  /\ call[c].pc = "ready"
  /\ \/ /\ net' = [net EXCEPT ![Current(c)] = "sent"]
        /\ call' = [call EXCEPT ![c].pc = "waiting"]
     \/ Ended(c, "connect") /\ UNCHANGED net
  /\ UNCHANGED <<plan, tables>>

Receive(c) ==
  /\ Waits(c) /\ net[Current(c)] \in Answers
  /\ Ended(c, net[Current(c)])
  /\ UNCHANGED <<plan, net, tables>>

(* The answer does not come through, in time or at all.  The request, or   *)
(* the handler, goes on.                                                   *)
GiveUp(c) ==
  /\ Waits(c)
  /\ \E o \in Gateway \cup Broken : Ended(c, o)
  /\ UNCHANGED <<plan, net, tables>>

(* The caller cancels: an AbortSignal, a context, a cancelled task.  No SDK*)
(* sends again; Go, in its back-off, returns the error response it has.    *)
Cancel(c) ==
  /\ call[c].pc # "returned"
  /\ call' = [call EXCEPT ![c] =
       [@ EXCEPT !.pc = "returned",
                 !.result = IF /\ plan[c].sdk = "go" /\ call[c].result \in Statuses
                               /\ ~Waits(c)
                            THEN call[c].result ELSE "cancelled"]]
  /\ UNCHANGED <<plan, net, tables>>

(* close() of the Python client does not wait for its requests: the one    *)
(* that is under way, or would be sent next, raises.  A request that has   *)
(* not begun finds no open httpx client and gets a new one.                *)
CloseClient(c) ==
  /\ plan[c].sdk = "python"
  /\ Waits(c) \/ (call[c].pc = "ready" /\ call[c].try > 0)
  /\ call' = [call EXCEPT ![c].pc = "returned", ![c].result = "closed"]
  /\ UNCHANGED <<plan, net, tables>>

(* A rate limiter in front answers in place of the routes: the server has  *)
(* none that it installs.                                                  *)
Throttled(c) ==
  /\ Waits(c) /\ net[Current(c)] = "sent"
  /\ net' = [net EXCEPT ![Current(c)] = "dropped"]
  /\ Ended(c, "429")
  /\ UNCHANGED <<plan, tables>>
-----------------------------------------------------------------------------
Moves(a, phase) == net' = [net EXCEPT ![a] = phase]

(* The health routes bypass the limiter.                                   *)
Bypasses(c) == Asks(c, "/v1/health") \/ Asks(c, "/v1/health/ready")
InSlots     == {b \in Attempts : net[b] \in OnServer /\ ~Bypasses(b[1])}

(* BackpressureMiddleware: a free slot, or a 503.                          *)
Arrive(a) ==
  /\ net[a] = "sent"
  /\ IF Bypasses(a[1]) \/ Cardinality(InSlots) < Slots
     THEN Moves(a, "admitted")
     ELSE Moves(a, "503")
  /\ UNCHANGED <<plan, call, tables>>

(* Mutant of SaveRequest: a row that exists is taken over.                 *)
SaveRequestUpsert(c, k) ==
  /\ Asks(c, "/v1/specs") /\ net[<<c, k>>] = "admitted"
  /\ status' = [status EXCEPT ![c] = "pending"]
  /\ writer' = [writer EXCEPT ![c] = k]
  /\ Moves(<<c, k>>, "scoring")
  /\ UNCHANGED <<plan, call, effects>>

(* The row of the request id is there already: IntegrityError, a 500.      *)
SaveRequest(c, k) ==
  /\ Asks(c, "/v1/specs") /\ net[<<c, k>>] = "admitted"
  /\ IF status[c] = "none"
     THEN /\ status' = [status EXCEPT ![c] = "pending"]
          /\ writer' = [writer EXCEPT ![c] = k]
          /\ Moves(<<c, k>>, "scoring")
     ELSE Moves(<<c, k>>, "500") /\ UNCHANGED <<status, writer>>
  /\ UNCHANGED <<plan, call, effects>>

CompleteRequest(c, k) ==
  /\ net[<<c, k>>] = "scoring"
  /\ status' = [status EXCEPT ![c] = "completed"]
  /\ Moves(<<c, k>>, "200")
  /\ UNCHANGED <<plan, call, writer, effects>>

(* A row with a feedback id of its own; the audit entry may then fail.     *)
SaveFeedback(c, k) ==
  /\ Asks(c, "/v1/specs/feedback") /\ net[<<c, k>>] = "admitted"
  /\ effects' = [effects EXCEPT ![c] = @ \cup {k}]
  /\ \E code \in {"200", "500"} : Moves(<<c, k>>, code)
  /\ UNCHANGED <<plan, call, status, writer>>

(* The route trains without suspending, unless the buffer is empty; saving *)
(* the checkpoint may then fail.                                           *)
Train(c, k) ==
  /\ Asks(c, "/v1/policy/train") /\ net[<<c, k>>] = "admitted"
  /\ \/ /\ effects' = [effects EXCEPT ![c] = @ \cup {k}]
        /\ \E code \in {"200", "500"} : Moves(<<c, k>>, code)
     \/ UNCHANGED effects /\ Moves(<<c, k>>, "200")
  /\ UNCHANGED <<plan, call, status, writer>>

Read(c, k) ==
  /\ Reads(c) /\ net[<<c, k>>] = "admitted"
  /\ Moves(<<c, k>>, "200")
  /\ UNCHANGED <<plan, call, tables>>

(* The handler raises; what it has committed stays.  What the judges raise *)
(* stays in the scorer's gather: no handler of app.py but the last is met. *)
Fail(a) ==
  /\ net[a] \in OnServer
  /\ Moves(a, "500")
  /\ UNCHANGED <<plan, call, tables>>

(* The server dies with all it works on, and comes back.                   *)
Crash ==
  /\ \E a \in Attempts : net[a] \in OnServer
  /\ net' = [a \in Attempts |-> IF net[a] \in OnServer THEN "dropped" ELSE net[a]]
  /\ UNCHANGED <<plan, call, tables>>
-----------------------------------------------------------------------------
Init ==
  /\ plan \in [Calls -> [sdk : SDKs, op : DOMAIN Python]]
  /\ call = [c \in Calls |-> [pc |-> "ready", try |-> 0, result |-> None]]
  /\ net = [a \in Attempts |-> "unsent"]
  /\ status = [c \in Calls |-> "none"]
  /\ writer = [c \in Calls |-> None]
  /\ effects = [c \in Calls |-> {}]

Client(c) == Send(c) \/ Receive(c) \/ GiveUp(c) \/ Throttled(c)

Server(c, k) == \/ Arrive(<<c, k>>) \/ SaveRequest(c, k) \/ CompleteRequest(c, k)
                \/ SaveFeedback(c, k) \/ Train(c, k) \/ Read(c, k) \/ Fail(<<c, k>>)

Next ==
  \/ \E c \in Calls : Client(c) \/ Cancel(c) \/ CloseClient(c)
  \/ \E c \in Calls, k \in Tries : Server(c, k)
  \/ Crash

(* The clients run, and have time-outs; the server owes nothing, and nobody*)
(* need cancel.                                                            *)
Spec == Init /\ [][Next]_vars /\ \A c \in Calls : WF_vars(Client(c))
-----------------------------------------------------------------------------
TypeOK ==
  /\ plan \in [Calls -> [sdk : SDKs, op : DOMAIN Python]]
  /\ call \in [Calls -> [pc : {"ready", "waiting", "returned"}, try : Tries,
                         result : Outcomes \cup {"cancelled", "closed", None}]]
  /\ net \in [Attempts -> Phases]
  /\ status \in [Calls -> {"none", "pending", "completed"}]
  /\ writer \in [Calls -> Tries \cup {None}]
  /\ effects \in [Calls -> SUBSET Tries]

Returned(c, result) == call[c].pc = "returned" /\ call[c].result = result

(* A success is about what the database holds, however many attempts of    *)
(* the call are still under way or arrive later: the selection the caller  *)
(* got is the one recorded, or its feedback row is there.                  *)
AnswerIsTheRecord ==
  \A c \in Calls : Returned(c, "200") =>
    /\ plan[c].op = "select" => status[c] = "completed" /\ writer[c] = call[c].try
    /\ plan[c].op = "feedback" => call[c].try \in effects[c]

(* The Python SDK never meets its own earlier attempt: of all its attempts *)
(* at most one gets as far as a route, so no feedback is stored twice, the *)
(* policy is not trained twice, no selection is refused because of the row *)
(* the same call wrote, and a caller told that the server was not reached  *)
(* or refused knows that nothing happened and nothing will.                *)
PythonActsOnce ==
  \A c \in Calls : plan[c].sdk = "python" =>
    /\ Cardinality(effects[c]) <= 1
    /\ writer[c] # None => writer[c] = call[c].try
    /\ (\E o \in {"429", "503", "connect"} : Returned(c, o)) =>
         effects[c] = {} /\ writer[c] = None

(* Every call comes back to its caller, after finitely many attempts,      *)
(* whatever the network and the server do.                                 *)
CallReturns == \A c \in Calls : <>(call[c].pc = "returned")
=============================================================================
