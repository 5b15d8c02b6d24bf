--------------------------- MODULE SdkRetryProofs ---------------------------
(***************************************************************************)
(* Proofs about SdkRetry: for any number of calls and retries, any SDKs    *)
(* and any number of server slots, an answer is about what the database    *)
(* holds, and the Python SDK acts at most once.                            *)
(*                                                                         *)
(* Neither property is inductive: both follow from what each attempt may   *)
(* have left behind, wherever it is, also after its caller gave it up.     *)
(***************************************************************************)
EXTENDS SdkRetry, FiniteSetTheorems, TLAPS

(* What attempt k of call c has written.                                   *)
Wrote(c, k) == writer[c] = k \/ k \in effects[c]

(* What an attempt has done, by where it is: only the attempt that wrote   *)
(* the row is scored and answered as a selection.                          *)
ServerInv ==
  \A c \in Calls, k \in Tries :
    /\ net[<<c, k>>] \in {"unsent", "sent", "503"} => ~Wrote(c, k)
    /\ net[<<c, k>>] = "scoring" => writer[c] = k /\ plan[c].op = "select"
    /\ (net[<<c, k>>] = "200" /\ plan[c].op = "select") =>
         writer[c] = k /\ status[c] = "completed"
    /\ (net[<<c, k>>] = "200" /\ plan[c].op = "feedback") => k \in effects[c]

RowInv == \A c \in Calls : status[c] = "none" <=> writer[c] = None

(* What is to come has not been sent.                                      *)
AttemptInv ==
  \A c \in Calls, k \in Tries :
    (k > call[c].try \/ (k = call[c].try /\ call[c].pc = "ready")) => net[<<c, k>>] = "unsent"

(* A success is the answer of the last attempt.                            *)
ResultInv ==
  \A c \in Calls : call[c].result = "200" =>
    call[c].pc = "returned" /\ net[Current(c)] = "200"

(* An attempt of the Python SDK is only followed by another when a limiter *)
(* turned it away; and no answer that a route gave is one of these three.  *)
PythonInv ==
  \A c \in Calls : plan[c].sdk = "python" =>
    /\ \A k \in Tries : k < call[c].try => ~Wrote(c, k) /\ net[<<c, k>>] = "dropped"
    /\ (\E o \in {"429", "503", "connect"} : Returned(c, o)) =>
         ~Wrote(c, call[c].try) /\ net[Current(c)] \in {"unsent", "dropped", "503"}

Inv == TypeOK /\ ServerInv /\ RowInv /\ AttemptInv /\ ResultInv /\ PythonInv
-----------------------------------------------------------------------------
(* Which routes a method cannot reach.                                     *)
LEMMA Routes ==
  ASSUME TypeOK, NEW c \in Calls
  PROVE  /\ plan[c].op = "select" => /\ ~Asks(c, "/v1/specs/feedback")
                                     /\ ~Asks(c, "/v1/policy/train") /\ ~Reads(c)
         /\ plan[c].op = "feedback" => ~Asks(c, "/v1/policy/train") /\ ~Reads(c)
         /\ Asks(c, "/v1/specs") => plan[c].op = "select"
<1>1. /\ plan[c].sdk \in {"python", "typescript", "go"}
      /\ plan[c].op \in {"select", "feedback", "train", "status", "health", "ready"}
  BY RetryAssumption DEF TypeOK, Python
<1>2. CASE plan[c].sdk = "python"
  BY <1>1, <1>2 DEF Asks, Reads, Requests, Python, Post, Get, SelectRequest, FeedbackRequest, TrainRequest,
         StatusRequest, HealthRequest, ReadyRequest
<1>3. CASE plan[c].sdk = "typescript"
  BY <1>1, <1>3 DEF Asks, Reads, Requests, TypeScript, Post, Get, SelectRequest, FeedbackRequest, TrainRequest,
         StatusRequest, HealthRequest, ReadyRequest
<1>4. CASE plan[c].sdk = "go"
  BY <1>1, <1>4 DEF Asks, Reads, Requests, Go, Post, Get, SelectRequest, FeedbackRequest, TrainRequest,
         StatusRequest, HealthRequest, ReadyRequest
<1> QED
  BY <1>1, <1>2, <1>3, <1>4

(* An attempt ends with the next one or with the return of the call; a     *)
(* success always with the return, and in Python all but a 429.            *)
LEMMA EndedCases ==
  ASSUME TypeOK, NEW c \in Calls, NEW o \in Outcomes, Ended(c, o)
  PROVE  /\ call' \in [Calls -> [pc : {"ready", "waiting", "returned"}, try : Tries,
                                 result : Outcomes \cup {"cancelled", "closed", None}]]
         /\ \A d \in Calls : d # c => call'[d] = call[d]
         /\ call'[c].result = o
         /\ \/ /\ call'[c].pc = "ready" /\ call'[c].try = call[c].try + 1
               /\ o # "200" /\ (plan[c].sdk = "python" => o = "429")
            \/ call'[c].pc = "returned" /\ call'[c].try = call[c].try
<1> USE DEF TypeOK
<1>1. plan[c].sdk \in {"python", "typescript", "go"}
  BY RetryAssumption
<1>2. /\ call[c].try \in Tries
      /\ call[c].try < MaxRetries => call[c].try + 1 \in Tries
  BY RetryAssumption DEF Tries
<1>3. CASE o \in Retries(plan[c].sdk) /\ call[c].try < MaxRetries
  <2>1. call' = [call EXCEPT ![c] = [call[c] EXCEPT !.pc = "ready", !.try = call[c].try + 1,
                                                    !.result = o]]
    BY <1>3 DEF Ended
  <2>2. o # "200"
    BY <1>1, <1>3 DEF Retries, PythonRetries, TypeScriptRetries, GoRetries
  <2>3. plan[c].sdk = "python" => o = "429"
    BY <1>3 DEF Retries, PythonRetries
  <2> QED
    BY <1>2, <1>3, <2>1, <2>2, <2>3
<1>4. CASE ~(o \in Retries(plan[c].sdk) /\ call[c].try < MaxRetries)
  <2>1. call' = [call EXCEPT ![c] = [call[c] EXCEPT !.pc = "returned", !.result = o]]
    BY <1>4 DEF Ended
  <2> QED
    BY <1>2, <2>1
<1> QED
  BY <1>3, <1>4

LEMMA MovesTo ==
  ASSUME TypeOK, NEW c \in Calls, NEW k \in Tries, NEW p \in Phases, Moves(<<c, k>>, p)
  PROVE  /\ net' \in [Attempts -> Phases] /\ net'[<<c, k>>] = p
         /\ \A d \in Calls, i \in Tries : <<d, i>> # <<c, k>> => net'[<<d, i>>] = net[<<d, i>>]
BY DEF TypeOK, Moves, Attempts

LEMMA Tried ==
  ASSUME TypeOK, NEW c \in Calls
  PROVE  /\ call[c].try \in Tries /\ Current(c) = <<c, call[c].try>> /\ Current(c) \in Attempts
         /\ call[c].try \in Nat /\ call[c].try # None
BY RetryAssumption DEF TypeOK, Current, Attempts, Tries
-----------------------------------------------------------------------------
LEMMA InitInv == Init => Inv
<1> SUFFICES ASSUME Init PROVE Inv
  OBVIOUS
<1> USE RetryAssumption DEF Init
<1>1. TypeOK
  BY DEF TypeOK, Tries, Phases
<1>2. \A c \in Calls, k \in Tries : net[<<c, k>>] = "unsent" /\ ~Wrote(c, k)
  BY DEF Attempts, Tries, Wrote
<1>3. ServerInv /\ RowInv /\ AttemptInv /\ ResultInv
  BY <1>2, NoOutcomeAssumption DEF ServerInv, RowInv, AttemptInv, ResultInv, Outcomes, Statuses,
     Answers
<1>4. PythonInv
  BY <1>2 DEF PythonInv, Tries, Returned
<1> QED
  BY <1>1, <1>3, <1>4 DEF Inv

(* The steps of the client change no table.                                *)
LEMMA SendKeeps == ASSUME NEW c \in Calls, Inv, Send(c) PROVE Inv'
<1> USE DEF Inv
<1>1. CASE net' = [net EXCEPT ![Current(c)] = "sent"] /\ call' = [call EXCEPT ![c].pc = "waiting"]
  <2>1. Moves(Current(c), "sent") /\ UNCHANGED <<plan, tables>>
    BY <1>1 DEF Send, Moves
  <2>2. /\ net' \in [Attempts -> Phases] /\ net'[Current(c)] = "sent"
        /\ \A d \in Calls, i \in Tries :
             <<d, i>> # Current(c) => net'[<<d, i>>] = net[<<d, i>>]
    BY <2>1, Tried, MovesTo DEF Phases
  <2>3. /\ call'[c].pc = "waiting" /\ call'[c].try = call[c].try
        /\ call'[c].result = call[c].result
        /\ \A d \in Calls : d # c => call'[d] = call[d]
    BY <1>1 DEF TypeOK
  <2>4. net[Current(c)] = "unsent" /\ call[c].pc = "ready"
    BY Tried DEF Send, AttemptInv
  <2>5. TypeOK'
    BY <1>1, <2>1, <2>2 DEF TypeOK, tables
  <2>6. ServerInv' /\ RowInv'
    BY <2>1, <2>2, <2>4, Tried DEF ServerInv, RowInv, Wrote, tables
  <2>7. AttemptInv'
    BY <2>2, <2>3, Tried DEF AttemptInv, Tries
  <2>8. ResultInv'
    BY <2>2, <2>3, <2>4, Tried DEF ResultInv, Current
  <2>9. PythonInv'
    BY <2>1, <2>2, <2>3, Tried DEF PythonInv, Returned, Wrote, tables, Current
  <2> QED
    BY <2>5, <2>6, <2>7, <2>8, <2>9
<1>2. CASE Ended(c, "connect") /\ UNCHANGED net
  <2> "connect" \in Outcomes
    BY DEF Outcomes
  <2>1. UNCHANGED <<plan, net, tables>> /\ call[c].pc = "ready"
    BY <1>2 DEF Send
  <2>2. net[Current(c)] = "unsent"
    BY <2>1, Tried DEF AttemptInv
  <2>3. TypeOK'
    BY <1>2, <2>1, EndedCases DEF TypeOK, tables
  <2>4. ServerInv' /\ RowInv'
    BY <2>1 DEF ServerInv, RowInv, Wrote, tables
  <2>5. AttemptInv'
    BY <1>2, <2>1, EndedCases, Tried DEF AttemptInv, Tries
  <2>6. ResultInv'
    BY <1>2, <2>1, EndedCases, Tried DEF ResultInv, Current
  <2>7. PythonInv'
    BY <1>2, <2>1, <2>2, EndedCases, Tried DEF PythonInv, ServerInv, Returned, Wrote, tables, Current
  <2> QED
    BY <2>3, <2>4, <2>5, <2>6, <2>7
<1> QED
  BY <1>1, <1>2 DEF Send

(* An attempt that waits ends, and nothing else happens.                   *)
LEMMA EndKeeps ==
  ASSUME NEW c \in Calls, NEW o \in Outcomes, Inv, Waits(c), Ended(c, o),
         o = "200" => net[Current(c)] = "200",
         o = "503" => net[Current(c)] = "503",
         plan[c].sdk = "python" => o \notin {"429", "connect"},
         UNCHANGED <<plan, net, tables>>
  PROVE  Inv'
<1> USE DEF Inv
<1>1. TypeOK'
  BY EndedCases DEF TypeOK, tables
<1>2. ServerInv' /\ RowInv'
  BY DEF ServerInv, RowInv, Wrote, tables
<1>3. AttemptInv'
  BY EndedCases, Tried DEF AttemptInv, Tries
<1>4. ResultInv'
  BY EndedCases, Tried DEF ResultInv, Current
<1>5. PythonInv'
  <2> SUFFICES ASSUME NEW d \in Calls, plan[d].sdk = "python"
      PROVE /\ \A k \in Tries : k < call'[d].try => ~Wrote(d, k) /\ net[<<d, k>>] = "dropped"
            /\ (\E r \in {"429", "503", "connect"} : Returned(d, r)') =>
                 /\ ~Wrote(d, call'[d].try)
                 /\ net[<<d, call'[d].try>>] \in {"unsent", "dropped", "503"}
    BY DEF PythonInv, Wrote, Current, tables
  <2>1. CASE d = c
    <3>1. call'[c].pc = "returned" /\ call'[c].try = call[c].try /\ call'[c].result = o
      BY <2>1, EndedCases
    <3>2. o = "503" => ~Wrote(c, call[c].try)
      BY Tried DEF ServerInv
    <3> QED
      BY <2>1, <3>1, <3>2, Tried DEF PythonInv, Returned
  <2>2. CASE d # c
    BY <2>2, EndedCases DEF PythonInv, Returned, Current
  <2> QED
    BY <2>1, <2>2
<1> QED
  BY <1>1, <1>2, <1>3, <1>4, <1>5

LEMMA ReceiveKeeps == ASSUME NEW c \in Calls, Inv, Receive(c) PROVE Inv'
BY EndKeeps DEF Receive, Answers, Outcomes, Statuses

LEMMA GiveUpKeeps == ASSUME NEW c \in Calls, Inv, GiveUp(c) PROVE Inv'
<1>1. PICK o \in Gateway \cup Broken : Ended(c, o)
  BY DEF GiveUp
<1> QED
  BY <1>1, EndKeeps DEF GiveUp, Gateway, Broken, Outcomes, Statuses

LEMMA ThrottledKeeps == ASSUME NEW c \in Calls, Inv, Throttled(c) PROVE Inv'
<1> USE DEF Inv
<1>1. /\ Moves(Current(c), "dropped") /\ Ended(c, "429") /\ net[Current(c)] = "sent"
      /\ UNCHANGED <<plan, tables>> /\ call[c].pc = "waiting"
      /\ "429" \in Outcomes /\ "dropped" \in Phases
  BY DEF Throttled, Moves, Waits, Outcomes, Statuses, Phases
<1>2. /\ net' \in [Attempts -> Phases] /\ net'[Current(c)] = "dropped"
      /\ \A d \in Calls, i \in Tries :
           <<d, i>> # Current(c) => net'[<<d, i>>] = net[<<d, i>>]
  BY <1>1, Tried, MovesTo
<1>3. ~Wrote(c, call[c].try)
  BY <1>1, Tried DEF ServerInv
<1>4. TypeOK'
  BY <1>1, <1>2, EndedCases DEF TypeOK, tables
<1>5. ServerInv' /\ RowInv'
  BY <1>1, <1>2, Tried DEF ServerInv, RowInv, Wrote, tables
<1>6. AttemptInv'
  BY <1>1, <1>2, EndedCases, Tried DEF AttemptInv, Tries
<1>7. ResultInv'
  BY <1>1, <1>2, EndedCases, Tried DEF ResultInv, Current
<1>8. PythonInv'
  <2> SUFFICES ASSUME NEW d \in Calls, plan[d].sdk = "python"
      PROVE /\ \A k \in Tries : k < call'[d].try => ~Wrote(d, k) /\ net'[<<d, k>>] = "dropped"
            /\ (\E r \in {"429", "503", "connect"} : Returned(d, r)') =>
                 /\ ~Wrote(d, call'[d].try)
                 /\ net'[<<d, call'[d].try>>] \in {"unsent", "dropped", "503"}
    BY <1>1 DEF PythonInv, Wrote, Current, tables
  <2>1. CASE d = c
    <3>1. CASE call'[c].pc = "returned" /\ call'[c].try = call[c].try
      BY <1>1, <1>2, <1>3, <2>1, <3>1, Tried DEF PythonInv
    <3>2. CASE call'[c].pc = "ready" /\ call'[c].try = call[c].try + 1
      <4>1. \A k \in Tries : k < call'[c].try => k < call[c].try \/ k = call[c].try
        BY <3>2, Tried DEF Tries
      <4> QED
        BY <1>2, <1>3, <2>1, <3>2, <4>1, Tried DEF PythonInv, Returned
    <3> QED
      BY <1>1, <3>1, <3>2, EndedCases
  <2>2. CASE d # c
    BY <1>1, <1>2, <2>2, EndedCases, Tried DEF PythonInv, Returned, Current
  <2> QED
    BY <2>1, <2>2
<1> QED
  BY <1>4, <1>5, <1>6, <1>7, <1>8

(* The caller is told of a cancellation, or of what it was told before.    *)
LEMMA StopKeeps == ASSUME NEW c \in Calls, Inv, Cancel(c) \/ CloseClient(c) PROVE Inv'
<1> USE DEF Inv
<1>1. /\ UNCHANGED <<plan, net, tables>> /\ call[c].pc # "returned"
      /\ \A d \in Calls : d # c => call'[d] = call[d]
      /\ call'[c].pc = "returned" /\ call'[c].try = call[c].try
      /\ \/ call'[c].result \in {"cancelled", "closed"}
         \/ plan[c].sdk = "go" /\ call'[c].result = call[c].result
  <2>1. CASE Cancel(c)
    BY <2>1 DEF Cancel, TypeOK
  <2>2. CASE CloseClient(c)
    BY <2>2 DEF CloseClient, TypeOK, Waits
  <2> QED
    BY <2>1, <2>2
<1>2. TypeOK'
  <2>1. call' \in [Calls -> [pc : {"ready", "waiting", "returned"}, try : Tries,
                            result : Outcomes \cup {"cancelled", "closed", None}]]
    <3>1. PICK r \in Outcomes \cup {"cancelled", "closed", None} :
            call' = [call EXCEPT ![c] = [call[c] EXCEPT !.pc = "returned", !.result = r]]
      <4>1. CASE Cancel(c)
        <5>1. call[c].result \in Outcomes \cup {"cancelled", "closed", None}
          BY DEF TypeOK
        <5> QED
          BY <4>1, <5>1 DEF Cancel
      <4>2. CASE CloseClient(c)
        BY <4>2 DEF CloseClient
      <4> QED
        BY <4>1, <4>2
    <3> HIDE DEF Inv
    <3>2. call \in [Calls -> [pc : {"ready", "waiting", "returned"}, try : Tries,
                             result : Outcomes \cup {"cancelled", "closed", None}]]
      BY DEF Inv, TypeOK
    <3> QED
      BY <3>1, <3>2
  <2> QED
    BY <1>1, <2>1 DEF TypeOK, tables
<1>3. ServerInv' /\ RowInv'
  BY <1>1 DEF ServerInv, RowInv, Wrote, tables
<1>4. AttemptInv'
  BY <1>1, Tried DEF AttemptInv, Tries
<1>5. ResultInv'
  BY <1>1 DEF ResultInv, Current
<1>6. PythonInv'
  BY <1>1, Tried DEF PythonInv, Returned, Wrote, tables, Current
<1> QED
  BY <1>2, <1>3, <1>4, <1>5, <1>6
-----------------------------------------------------------------------------
(* A step of the server is about an attempt it has, writes only in the     *)
(* name of that attempt, and does not touch the client.                    *)
LEMMA ServerKeeps ==
  ASSUME NEW c \in Calls, NEW k \in Tries, NEW p \in Phases, Inv,
         net[<<c, k>>] \in {"sent", "admitted", "scoring"}, Moves(<<c, k>>, p),
         UNCHANGED <<plan, call>>,
         \A d \in Calls, i \in Tries : (<<d, i>> # <<c, k>> /\ Wrote(d, i)') => Wrote(d, i)
  PROVE  AttemptInv' /\ ResultInv' /\ PythonInv'
<1> USE DEF Inv
<1>1. \A d \in Calls, i \in Tries : net[<<d, i>>] \in {"unsent", "dropped", "503", "200"} =>
        net'[<<d, i>>] = net[<<d, i>>]
  <2> SUFFICES ASSUME NEW d \in Calls, NEW i \in Tries,
                      net[<<d, i>>] \in {"unsent", "dropped", "503", "200"}
               PROVE  net'[<<d, i>>] = net[<<d, i>>]
    OBVIOUS
  <2>1. <<d, i>> # <<c, k>>
    OBVIOUS
  <2> QED
    BY <2>1, MovesTo
<1>a. \A i \in Tries : net[<<c, i>>] \in {"unsent", "dropped", "503", "200"} => i # k
  OBVIOUS
<1>2. AttemptInv'
  BY <1>1 DEF AttemptInv
<1>3. ResultInv'
  BY <1>1, Tried DEF ResultInv, Current
<1>4. PythonInv'
  BY <1>1, <1>a, Tried DEF PythonInv, Returned, Current
<1> QED
  BY <1>2, <1>3, <1>4

LEMMA ArriveKeeps == ASSUME NEW c \in Calls, NEW k \in Tries, Inv, Arrive(<<c, k>>) PROVE Inv'
<1> USE DEF Inv
<1>1. PICK p \in {"admitted", "503"} : Moves(<<c, k>>, p)
  BY DEF Arrive
<1>2. p \in Phases /\ net[<<c, k>>] = "sent" /\ UNCHANGED <<plan, call, tables>>
  BY DEF Arrive, Phases, OnServer, Answers
<1>3. TypeOK'
  BY <1>1, <1>2, MovesTo DEF TypeOK, tables
<1>4. ServerInv' /\ RowInv'
  BY <1>1, <1>2, MovesTo DEF ServerInv, RowInv, Wrote, tables
<1>5. AttemptInv' /\ ResultInv' /\ PythonInv'
  BY <1>1, <1>2, ServerKeeps DEF Wrote, tables
<1> QED
  BY <1>3, <1>4, <1>5

LEMMA SaveRequestKeeps ==
  ASSUME NEW c \in Calls, NEW k \in Tries, Inv, SaveRequest(c, k) PROVE Inv'
<1> USE DEF Inv
<1>1. net[<<c, k>>] = "admitted" /\ UNCHANGED <<plan, call, effects>> /\ plan[c].op = "select"
  BY Routes DEF SaveRequest
<1>2. CASE status[c] = "none"
  <2>1. /\ status' = [status EXCEPT ![c] = "pending"] /\ writer' = [writer EXCEPT ![c] = k]
        /\ Moves(<<c, k>>, "scoring") /\ "scoring" \in Phases
    BY <1>2 DEF SaveRequest, Phases, OnServer
  <2>2. writer[c] = None /\ k # None
    BY <1>2, RetryAssumption DEF RowInv, Tries
  <2>3. TypeOK'
    BY <1>1, <2>1, MovesTo DEF TypeOK
  <2>4. RowInv'
    BY <2>1, <2>2 DEF RowInv, TypeOK
  <2>5. ServerInv'
    <3> SUFFICES ASSUME NEW d \in Calls, NEW i \in Tries
        PROVE /\ net'[<<d, i>>] \in {"unsent", "sent", "503"} => ~Wrote(d, i)'
              /\ net'[<<d, i>>] = "scoring" => writer'[d] = i /\ plan[d].op = "select"
              /\ (net'[<<d, i>>] = "200" /\ plan[d].op = "select") =>
                   writer'[d] = i /\ status'[d] = "completed"
              /\ (net'[<<d, i>>] = "200" /\ plan[d].op = "feedback") => i \in effects[d]
      BY <1>1 DEF ServerInv, Wrote
    <3>1. CASE <<d, i>> = <<c, k>>
      BY <1>1, <2>1, <3>1, MovesTo DEF TypeOK
    <3>2. CASE d = c /\ i # k
      <4>1. net'[<<d, i>>] = net[<<d, i>>] /\ writer'[d] = k
        BY <2>1, <3>2, MovesTo DEF TypeOK
      <4>2. writer[d] # i
        BY <2>2, <3>2, RetryAssumption DEF Tries
      <4> QED
        BY <1>1, <3>2, <4>1, <4>2 DEF ServerInv, Wrote
    <3>3. CASE d # c
      BY <1>1, <2>1, <3>3, MovesTo DEF ServerInv, Wrote, TypeOK
    <3> QED
      BY <3>1, <3>2, <3>3
  <2>6. AttemptInv' /\ ResultInv' /\ PythonInv'
    BY <1>1, <2>1, ServerKeeps DEF Wrote, TypeOK
  <2> QED
    BY <2>3, <2>4, <2>5, <2>6
<1>3. CASE status[c] # "none"
  <2>1. Moves(<<c, k>>, "500") /\ UNCHANGED <<status, writer>> /\ "500" \in Phases
    BY <1>3 DEF SaveRequest, Phases, Answers
  <2>2. TypeOK'
    BY <1>1, <2>1, MovesTo DEF TypeOK
  <2>3. ServerInv' /\ RowInv'
    BY <1>1, <2>1, MovesTo DEF ServerInv, RowInv, Wrote
  <2>4. AttemptInv' /\ ResultInv' /\ PythonInv'
    BY <1>1, <2>1, ServerKeeps DEF Wrote
  <2> QED
    BY <2>2, <2>3, <2>4
<1> QED
  BY <1>2, <1>3

LEMMA CompleteRequestKeeps ==
  ASSUME NEW c \in Calls, NEW k \in Tries, Inv, CompleteRequest(c, k) PROVE Inv'
<1> USE DEF Inv
<1>1. /\ net[<<c, k>>] = "scoring" /\ UNCHANGED <<plan, call, writer, effects>>
      /\ status' = [status EXCEPT ![c] = "completed"]
      /\ Moves(<<c, k>>, "200") /\ "200" \in Phases
  BY DEF CompleteRequest, Phases, Answers
<1>2. writer[c] = k /\ k # None /\ plan[c].op # "feedback"
  BY <1>1, RetryAssumption DEF ServerInv, Tries
<1>3. TypeOK'
  BY <1>1, MovesTo DEF TypeOK
<1>4. RowInv'
  BY <1>1, <1>2 DEF RowInv, TypeOK
<1>5. ServerInv'
  <2> SUFFICES ASSUME NEW d \in Calls, NEW i \in Tries
      PROVE /\ net'[<<d, i>>] \in {"unsent", "sent", "503"} => ~Wrote(d, i)'
            /\ net'[<<d, i>>] = "scoring" => writer'[d] = i /\ plan[d].op = "select"
            /\ (net'[<<d, i>>] = "200" /\ plan[d].op = "select") =>
                 writer'[d] = i /\ status'[d] = "completed"
            /\ (net'[<<d, i>>] = "200" /\ plan[d].op = "feedback") => i \in effects'[d]
    BY <1>1 DEF ServerInv, Wrote
  <2>1. status[d] = "completed" => status'[d] = "completed"
    BY <1>1 DEF TypeOK
  <2>2. status'[c] = "completed"
    BY <1>1 DEF TypeOK
  <2>3. net'[<<c, k>>] = "200"
    BY <1>1, MovesTo
  <2>4. CASE d # c \/ i # k
    <3>1. net'[<<d, i>>] = net[<<d, i>>]
      BY <1>1, <2>4 DEF Moves, TypeOK, Attempts
    <3> QED
      BY <1>1, <2>1, <3>1 DEF ServerInv, Wrote
  <2>5. CASE d = c /\ i = k
    BY <1>1, <1>2, <2>2, <2>3, <2>5
  <2> QED
    BY <2>4, <2>5
<1>6. AttemptInv' /\ ResultInv' /\ PythonInv'
  BY <1>1, ServerKeeps DEF Wrote
<1> QED
  BY <1>3, <1>4, <1>5, <1>6

(* The routes that store feedback or train, and those that read.           *)
LEMMA EffectKeeps ==
  ASSUME NEW c \in Calls, NEW k \in Tries, NEW p \in {"200", "500"}, Inv,
         net[<<c, k>>] = "admitted", Moves(<<c, k>>, p),
         UNCHANGED <<plan, call, status, writer>>,
         effects' \in {effects, [effects EXCEPT ![c] = @ \cup {k}]},
         p = "200" => plan[c].op # "select",
         (p = "200" /\ plan[c].op = "feedback") => k \in effects'[c]
  PROVE  Inv'
<1> USE DEF Inv
<1>1. p \in Phases
  BY DEF Phases, Answers
<1>2. /\ effects' \in [Calls -> SUBSET Tries]
      /\ \A d \in Calls, i \in Tries : <<d, i>> # <<c, k>> => (i \in effects'[d] <=> i \in effects[d])
  BY DEF TypeOK
<1>3. TypeOK'
  BY <1>1, <1>2, MovesTo DEF TypeOK
<1>4. RowInv'
  BY DEF RowInv
<1>5. ServerInv'
  <2> SUFFICES ASSUME NEW d \in Calls, NEW i \in Tries
      PROVE /\ net'[<<d, i>>] \in {"unsent", "sent", "503"} => ~Wrote(d, i)'
            /\ net'[<<d, i>>] = "scoring" => writer'[d] = i /\ plan[d].op = "select"
            /\ (net'[<<d, i>>] = "200" /\ plan[d].op = "select") =>
                 writer'[d] = i /\ status'[d] = "completed"
            /\ (net'[<<d, i>>] = "200" /\ plan[d].op = "feedback") => i \in effects'[d]
    BY DEF ServerInv, Wrote
  <2>1. CASE d # c \/ i # k
    <3>1. net'[<<d, i>>] = net[<<d, i>>]
      BY <2>1 DEF Moves, TypeOK, Attempts
    <3> QED
      BY <1>2, <2>1, <3>1 DEF ServerInv, Wrote
  <2>2. CASE d = c /\ i = k
    <3>1. net'[<<c, k>>] = p
      BY <1>1, MovesTo
    <3> QED
      BY <2>2, <3>1
  <2> QED
    BY <2>1, <2>2
<1>6. AttemptInv' /\ ResultInv' /\ PythonInv'
  BY <1>1, <1>2, ServerKeeps DEF Wrote
<1> QED
  BY <1>3, <1>4, <1>5, <1>6

LEMMA HandlerKeeps ==
  ASSUME NEW c \in Calls, NEW k \in Tries, Inv, SaveFeedback(c, k) \/ Train(c, k) \/ Read(c, k)
  PROVE  Inv'
<1> USE DEF Inv
<1>1. CASE SaveFeedback(c, k)
  <2>1. PICK p \in {"200", "500"} : Moves(<<c, k>>, p)
    BY <1>1 DEF SaveFeedback
  <2>2. plan[c].op # "select" /\ k \in effects'[c]
    BY <1>1, Routes DEF SaveFeedback, TypeOK
  <2> QED
    BY <1>1, <2>1, <2>2, EffectKeeps DEF SaveFeedback
<1>2. CASE Train(c, k)
  <2>1. PICK p \in {"200", "500"} : Moves(<<c, k>>, p)
    BY <1>2 DEF Train
  <2>2. plan[c].op \notin {"select", "feedback"}
    BY <1>2, Routes DEF Train
  <2> QED
    BY <1>2, <2>1, <2>2, EffectKeeps DEF Train
<1>3. CASE Read(c, k)
  <2>1. plan[c].op \notin {"select", "feedback"}
    BY <1>3, Routes DEF Read
  <2> QED
    BY <1>3, <2>1, EffectKeeps DEF Read, tables
<1> QED
  BY <1>1, <1>2, <1>3

LEMMA FailKeeps == ASSUME NEW c \in Calls, NEW k \in Tries, Inv, Fail(<<c, k>>) PROVE Inv'
<1> USE DEF Inv
<1>1. /\ Moves(<<c, k>>, "500") /\ "500" \in Phases /\ UNCHANGED <<plan, call, tables>>
      /\ net[<<c, k>>] \in {"admitted", "scoring"}
  BY DEF Fail, OnServer, Phases, Answers
<1>2. TypeOK'
  BY <1>1, MovesTo DEF TypeOK, tables
<1>3. ServerInv' /\ RowInv'
  BY <1>1, MovesTo DEF ServerInv, RowInv, Wrote, tables
<1>4. AttemptInv' /\ ResultInv' /\ PythonInv'
  BY <1>1, ServerKeeps DEF Wrote, tables
<1> QED
  BY <1>2, <1>3, <1>4

LEMMA CrashKeeps == Inv /\ Crash => Inv'
<1> SUFFICES ASSUME Inv, Crash PROVE Inv'
  OBVIOUS
<1> USE DEF Inv
<1>1. /\ UNCHANGED <<plan, call, tables>> /\ net' \in [Attempts -> Phases]
      /\ \A d \in Calls, i \in Tries :
           \/ net'[<<d, i>>] = net[<<d, i>>]
           \/ net[<<d, i>>] \in {"admitted", "scoring"} /\ net'[<<d, i>>] = "dropped"
  BY DEF Crash, TypeOK, OnServer, Attempts, Phases
<1>2. TypeOK'
  BY <1>1 DEF TypeOK, tables
<1>3. ServerInv' /\ RowInv'
  BY <1>1 DEF ServerInv, RowInv, Wrote, tables
<1>4. AttemptInv'
  BY <1>1 DEF AttemptInv
<1>5. ResultInv'
  BY <1>1, Tried DEF ResultInv, Current
<1>6. PythonInv'
  BY <1>1, Tried DEF PythonInv, Returned, Wrote, Current, tables
<1> QED
  BY <1>2, <1>3, <1>4, <1>5, <1>6

LEMMA StutterKeeps == Inv /\ UNCHANGED vars => Inv'
BY DEF Inv, vars, tables, TypeOK, ServerInv, RowInv, AttemptInv, ResultInv, PythonInv, Wrote,
       Returned, Current

LEMMA StepKeeps == Inv /\ [Next]_vars => Inv'
<1> SUFFICES ASSUME Inv, [Next]_vars PROVE Inv'
  OBVIOUS
<1>1. ASSUME NEW c \in Calls, Client(c) \/ Cancel(c) \/ CloseClient(c) PROVE Inv'
  BY <1>1, SendKeeps, ReceiveKeeps, GiveUpKeeps, ThrottledKeeps, StopKeeps DEF Client
<1>2. ASSUME NEW c \in Calls, NEW k \in Tries, Server(c, k) PROVE Inv'
  BY <1>2, ArriveKeeps, SaveRequestKeeps, CompleteRequestKeeps, HandlerKeeps, FailKeeps DEF Server
<1>3. CASE Crash
  BY <1>3, CrashKeeps
<1>4. CASE UNCHANGED vars
  BY <1>4, StutterKeeps
<1> QED
  BY <1>1, <1>2, <1>3, <1>4 DEF Next

(* The inductive invariant holds throughout.                               *)
THEOREM Invariance == Spec => []Inv
BY InitInv, StepKeeps, PTL DEF Spec
-----------------------------------------------------------------------------
(* Type correctness.                                                       *)
THEOREM TypeCorrect == Spec => []TypeOK
<1>1. Inv => TypeOK
  BY DEF Inv
<1> QED
  BY <1>1, Invariance, PTL

(* A caller that is told of a success finds it in the database, whatever   *)
(* the other attempts of its call do before or after.                      *)
THEOREM SuccessIsRecorded == Spec => []AnswerIsTheRecord
<1>1. Inv => AnswerIsTheRecord
  <2> SUFFICES ASSUME Inv, NEW c \in Calls, Returned(c, "200")
      PROVE /\ plan[c].op = "select" => status[c] = "completed" /\ writer[c] = call[c].try
            /\ plan[c].op = "feedback" => call[c].try \in effects[c]
    BY DEF AnswerIsTheRecord
  <2>1. net[<<c, call[c].try>>] = "200" /\ call[c].try \in Tries
    BY Tried DEF Inv, ResultInv, Returned
  <2> QED
    BY <2>1 DEF Inv, ServerInv
<1> QED
  BY <1>1, Invariance, PTL

(* All attempts of a call of the Python SDK together act at most once, and *)
(* not at all when it reports that it was refused or not connected.        *)
THEOREM PythonOnce == Spec => []PythonActsOnce
<1>1. Inv => PythonActsOnce
  <2> SUFFICES ASSUME Inv, NEW c \in Calls, plan[c].sdk = "python"
      PROVE /\ Cardinality(effects[c]) <= 1
            /\ writer[c] # None => writer[c] = call[c].try
            /\ (\E o \in {"429", "503", "connect"} : Returned(c, o)) =>
                 effects[c] = {} /\ writer[c] = None
    BY DEF PythonActsOnce
  <2> USE DEF Inv
  <2>1. \A k \in Tries : k # call[c].try => ~Wrote(c, k)
    <3> SUFFICES ASSUME NEW k \in Tries, k # call[c].try PROVE ~Wrote(c, k)
      OBVIOUS
    <3>1. CASE k < call[c].try
      BY <3>1 DEF PythonInv
    <3>2. CASE k > call[c].try
      BY <3>2 DEF AttemptInv, ServerInv
    <3> QED
      BY <3>1, <3>2, Tried DEF Tries
  <2>2. effects[c] \subseteq Tries /\ writer[c] \in Tries \cup {None} /\ call[c].try \in Tries
    BY Tried DEF TypeOK
  <2>3. effects[c] = {} \/ effects[c] = {call[c].try}
    BY <2>1, <2>2 DEF Wrote
  <2>4. Cardinality(effects[c]) <= 1
    <3>1. Cardinality({}) = 0
      BY FS_EmptySet
    <3>2. Cardinality({call[c].try}) = 1
      BY FS_Singleton
    <3> QED
      BY <2>3, <3>1, <3>2
  <2>5. writer[c] # None => writer[c] = call[c].try
    BY <2>1, <2>2 DEF Wrote
  <2>6. ASSUME \E o \in {"429", "503", "connect"} : Returned(c, o)
        PROVE effects[c] = {} /\ writer[c] = None
    <3>1. ~Wrote(c, call[c].try)
      BY <2>6 DEF PythonInv
    <3> QED
      BY <2>3, <2>5, <3>1 DEF Wrote
  <2> QED
    BY <2>4, <2>5, <2>6
<1> QED
  BY <1>1, Invariance, PTL
=============================================================================
