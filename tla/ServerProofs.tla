---------------------------- MODULE ServerProofs ----------------------------
(***************************************************************************)
(* Proofs about what the server puts between requests and their work:      *)
(* CircuitBreaker, for any number of callers, any threshold and cooldown;  *)
(* RateLimit, for any clients, limits and tick; and JobQueue, for any jobs *)
(* and workers.                                                            *)
(***************************************************************************)
EXTENDS CircuitBreaker, RateLimit, JobQueue, Integers, FiniteSetTheorems,
        SequenceTheorems, TLAPS

(* The count, the state and the calls in flight, together: inductive.      *)
BInv == BTypeOK /\ CountMatchesState /\ NothingNewWhileOpen

LEMMA AtMostType ==
  ASSUME NEW k \in Nat, NEW bound \in Nat
  PROVE  AtMost(k, bound) \in 0..bound /\ (AtMost(k, bound) < bound <=> k < bound)
BY DEF AtMost

LEMMA BInitInv == BInit => BInv
BY BreakerAssumption
   DEF BInit, BInv, BTypeOK, CountMatchesState, NothingNewWhileOpen, States

LEMMA CheckInv ==
  ASSUME BInv, NEW c \in Callers, Check(c)
  PROVE  BInv'
<1>1. BTypeOK'
  BY DEF Check, IsOpen, breaker, BInv, BTypeOK, States
<1>2. CountMatchesState'
  BY DEF Check, IsOpen, breaker, BInv, CountMatchesState
<1>3. NothingNewWhileOpen'
  BY DEF Check, IsOpen, breaker, BInv, NothingNewWhileOpen
<1> QED
  BY <1>1, <1>2, <1>3 DEF BInv

LEMMA RecordFailureInv ==
  ASSUME BInv, NEW c \in Callers, RecordFailure(c)
  PROVE  BInv'
<1> USE BreakerAssumption
<1>1. failures + 1 \in Nat /\ failures' = AtMost(failures + 1, Threshold)
  BY DEF RecordFailure, BInv, BTypeOK
<1>2. failures' \in 0..Threshold /\ (failures' < Threshold <=> failures + 1 < Threshold)
  BY <1>1, AtMostType
<1>3. CASE failures' >= Threshold
  <2>1. state' = "open" /\ older' = inFlight \ {c} /\ inFlight' = inFlight \ {c} /\ age' = 0
    BY <1>3 DEF RecordFailure, Leave
  <2> QED
    BY <1>2, <1>3, <2>1
       DEF BInv, BTypeOK, CountMatchesState, NothingNewWhileOpen, States
<1>4. CASE ~(failures' >= Threshold)
  <2>1. state' = state /\ older' = older \ {c} /\ inFlight' = inFlight \ {c} /\ age' = 0
    BY <1>4 DEF RecordFailure, Leave
  <2>2. state = "closed"
    BY <1>2, <1>4 DEF BInv, BTypeOK, CountMatchesState
  <2>3. BTypeOK' /\ CountMatchesState' /\ NothingNewWhileOpen'
    BY <1>2, <1>4, <2>1, <2>2
       DEF BInv, BTypeOK, CountMatchesState, NothingNewWhileOpen
  <2> QED
    BY <2>3 DEF BInv
<1> QED
  BY <1>3, <1>4

LEMMA BInvInductive == BInv /\ [BNext]_bvars => BInv'
<1> SUFFICES ASSUME BInv, [BNext]_bvars PROVE BInv'
  OBVIOUS
<1> USE BreakerAssumption
<1>1. ASSUME NEW c \in Callers, RecordSuccess(c) PROVE BInv'
  BY <1>1 DEF RecordSuccess, Leave, BInv, BTypeOK, CountMatchesState,
              NothingNewWhileOpen, States
<1>2. ASSUME NEW c \in Callers, Unrecorded(c) PROVE BInv'
  BY <1>2 DEF Unrecorded, Leave, breaker, BInv, BTypeOK, CountMatchesState,
              NothingNewWhileOpen
<1>3. CASE Tick
  BY <1>3 DEF Tick, BInv, BTypeOK, CountMatchesState, NothingNewWhileOpen
<1>4. CASE UNCHANGED bvars
  BY <1>4 DEF bvars, breaker, BInv, BTypeOK, CountMatchesState, NothingNewWhileOpen
<1> QED
  BY <1>1, <1>2, <1>3, <1>4, CheckInv, RecordFailureInv DEF BNext, Rejected

(* The breaker's variables keep their types.                               *)
THEOREM BreakerTypeCorrect == BSpec => []BTypeOK
<1>1. BInv => BTypeOK
  BY DEF BInv
<1> QED
  BY <1>1, BInitInv, BInvInductive, PTL DEF BSpec

(* A half-open circuit has no failure to spare, whatever the order of late *)
(* reports: record_failure re-opens it at once.                            *)
THEOREM CountAgreesWithState == BSpec => []CountMatchesState
<1>1. BInv => CountMatchesState
  BY DEF BInv
<1> QED
  BY <1>1, BInitInv, BInvInductive, PTL DEF BSpec

(* No call that began after the circuit opened runs while it is open.      *)
THEOREM OpenAdmitsNothing == BSpec => []NothingNewWhileOpen
<1>1. BInv => NothingNewWhileOpen
  BY DEF BInv
<1> QED
  BY <1>1, BInitInv, BInvInductive, PTL DEF BSpec

(* The breaker moves only along the transitions drawn in its class         *)
(* comment, and from open to closed by a call that began before it opened. *)
THEOREM OnlyDrawnTransitions == BSpec => DrawnTransitions
<1> DEFINE Drawn ==
      \/ state' = state
      \/ state = "closed" /\ state' = "open" /\ failures' = Threshold
      \/ state = "open" /\ state' = "half_open" /\ age = Cooldown
      \/ state = "half_open" /\ state' \in {"closed", "open"}
      \/ state = "open" /\ state' = "closed" /\ inFlight' # inFlight /\ inFlight \subseteq older
<1>1. BInv /\ [BNext]_bvars => [Drawn]_bvars
  <2> SUFFICES ASSUME BInv, [BNext]_bvars PROVE Drawn \/ UNCHANGED bvars
    OBVIOUS
  <2> USE BreakerAssumption
  <2>1. ASSUME NEW c \in Callers, Check(c) PROVE Drawn
    BY <2>1 DEF Check, IsOpen, breaker, BInv, BTypeOK
  <2>2. ASSUME NEW c \in Callers, RecordSuccess(c) PROVE Drawn
    BY <2>2 DEF RecordSuccess, Leave, BInv, BTypeOK, States, NothingNewWhileOpen
  <2>3. ASSUME NEW c \in Callers, RecordFailure(c) PROVE Drawn
    <3>1. failures + 1 \in Nat /\ failures' = AtMost(failures + 1, Threshold)
      BY <2>3 DEF RecordFailure, BInv, BTypeOK
    <3>2. failures' \in 0..Threshold
      BY <3>1, AtMostType
    <3>3. state' = state \/ (state' = "open" /\ failures' = Threshold)
      BY <2>3, <3>2 DEF RecordFailure
    <3> QED
      BY <3>3 DEF BInv, BTypeOK, States
  <2>4. ASSUME NEW c \in Callers, Unrecorded(c) PROVE Drawn
    BY <2>4 DEF Unrecorded, breaker
  <2>5. CASE Tick
    BY <2>5 DEF Tick
  <2> QED
    BY <2>1, <2>2, <2>3, <2>4, <2>5 DEF BNext, Rejected
<1>2. BSpec => []BInv
  BY BInitInv, BInvInductive, PTL DEF BSpec
<1> QED
  BY <1>1, <1>2, PTL DEF BSpec, DrawnTransitions
-----------------------------------------------------------------------------
(* A time stamp of the rate limiter.                                       *)
Stamp == [age : Nat, nth : Nat \ {0}]

(* Windows, and what is kept like them.                                    *)
Table == [Clients -> SUBSET Stamp]

(* The requests of c that no forced clean-up followed.                     *)
Standing(c) == {u \in admitted[c] : \A f \in forgotten[c] : Before(f, u)}

(* s and the requests before it, back to the last forced clean-up.         *)
UpTo(A, F, s) ==
  {u \in A : ~Before(s, u) /\ \A f \in F : Before(f, s) => Before(f, u)}

RTypeOK ==
  /\ windows \in Table /\ admitted \in Table /\ forgotten \in Table
  /\ count \in 0..Interval-1
  /\ burst \in Nat

(* What is kept for the properties is of this minute, and what is of this  *)
(* tick was numbered by burst: a new request comes after all of it.        *)
Recent ==
  \A c \in Clients :
    /\ IsFiniteSet(admitted[c]) /\ IsFiniteSet(forgotten[c])
    /\ \A s \in admitted[c] \cup forgotten[c] : s.age < Window
    /\ \A s \in admitted[c] \cup forgotten[c] : s.age = 0 => s.nth <= burst

(* The window holds what was let through since the last forced clean-up,   *)
(* and of what was let through no more.                                    *)
WindowHolds ==
  \A c \in Clients :
    /\ Live(windows[c]) \subseteq admitted[c]
    /\ Standing(c) \subseteq windows[c]

(* When s was let through, it and what the window then held were Rpm.      *)
RateHeld ==
  \A c \in Clients : \A s \in admitted[c] :
    Cardinality(UpTo(admitted[c], forgotten[c], s)) <= Rpm

RateInv == RTypeOK /\ Recent /\ WindowHolds /\ RateHeld

(* The clean-up ran count admitted requests ago, each of which brought one *)
(* client at most.                                                         *)
TableInv ==
  /\ IsFiniteSet(Known(windows))
  /\ Cardinality(Known(windows)) <= MaxClients + count
-----------------------------------------------------------------------------
LEMMA AddedCardinality ==
  ASSUME NEW S, IsFiniteSet(S), NEW x
  PROVE  IsFiniteSet(S \cup {x}) /\ Cardinality(S \cup {x}) <= Cardinality(S) + 1
<1>1. Cardinality(S) \in Nat
  BY FS_CardinalityType
<1> QED
  BY <1>1, FS_AddElement

(* Stamps are in a total order, and a new one comes last.                  *)
LEMMA BeforeIsOrder ==
  /\ \A s \in Stamp : ~Before(s, s)
  /\ \A s, t \in Stamp : Before(s, t) => ~Before(t, s)
  /\ \A s, t \in Stamp : s # t => Before(s, t) \/ Before(t, s)
  /\ \A s, t, u \in Stamp : Before(s, t) /\ Before(t, u) => Before(s, u)
<1>1. \A s, t \in Stamp : s # t => s.age # t.age \/ s.nth # t.nth
  BY DEF Stamp
<1> QED
  BY <1>1 DEF Before, Stamp

LEMMA NowIsLast ==
  ASSUME RTypeOK, Recent, NEW d \in Clients
  PROVE  /\ Now \in Stamp
         /\ \A s \in admitted[d] \cup forgotten[d] : s \in Stamp /\ Before(s, Now)
<1>1. Now \in Stamp
  BY DEF Now, Stamp, RTypeOK
<1>2. ASSUME NEW s \in admitted[d] \cup forgotten[d]
      PROVE  s \in Stamp /\ Before(s, Now)
  <2>1. s \in Stamp
    BY DEF RTypeOK, Table
  <2>2. s.age = 0 => s.nth <= burst
    BY DEF Recent
  <2> QED
    BY <1>1, <2>1, <2>2 DEF Before, Now, Stamp, RTypeOK
<1> QED
  BY <1>1, <1>2

(* What a clean-up may do to a client: nothing, or drop a window in which  *)
(* nothing counts any more, or be noted as a forced one.                   *)
CleanedUp(w, d) ==
  /\ windows'[d] \subseteq w
  /\ \/ forgotten'[d] = forgotten[d] /\ (windows'[d] = w \/ Live(w) = {})
     \/ forgotten'[d] = forgotten[d] \cup {Now}

LEMMA CleanupClient ==
  ASSUME RTypeOK, NEW ws \in Table, Cleanup(ws), NEW d \in Clients
  PROVE  CleanedUp(ws[d], d)
<1> DEFINE fresh == Forget(ws, Stale(ws))
           lost(keep) == {c \in Known(fresh) \ keep : Live(fresh[c]) # {}}
<1>1. PICK keep \in Kept(fresh) :
        /\ windows' = Forget(fresh, Known(fresh) \ keep)
        /\ forgotten' = [c \in Clients |->
             IF c \in lost(keep) THEN forgotten[c] \cup {Now} ELSE forgotten[c]]
  BY DEF Cleanup
<1>2. fresh[d] = ws[d] \/ (fresh[d] = {} /\ Live(ws[d]) = {})
  <2>1. CASE d \in Stale(ws)
    <3>1. \A s \in ws[d] : s.age > 2 * Window /\ s.age \in Nat
      BY <2>1 DEF Stale, Table, Stamp
    <3>2. Live(ws[d]) = {}
      BY <3>1, RateAssumption DEF Live
    <3> QED
      BY <2>1, <3>2 DEF Forget
  <2>2. CASE d \notin Stale(ws)
    BY <2>2 DEF Forget
  <2> QED
    BY <2>1, <2>2
<1>3. windows'[d] = fresh[d] \/ (windows'[d] = {} /\ d \in Known(fresh) \ keep)
  BY <1>1 DEF Forget
<1>4. forgotten'[d] = IF d \in lost(keep) THEN forgotten[d] \cup {Now} ELSE forgotten[d]
  BY <1>1
<1>5. d \in Known(fresh) \ keep => d \in lost(keep) \/ Live(fresh[d]) = {}
  OBVIOUS
<1> HIDE DEF fresh, lost
<1>6. Live({}) = {}
  BY DEF Live
<1>7. windows'[d] \subseteq ws[d]
  BY <1>2, <1>3
<1>8. CASE d \in lost(keep)
  BY <1>4, <1>7, <1>8 DEF CleanedUp
<1>9. CASE d \notin lost(keep)
  <2>1. windows'[d] = fresh[d] \/ Live(fresh[d]) = {}
    BY <1>3, <1>5, <1>9
  <2>2. windows'[d] = ws[d] \/ Live(ws[d]) = {}
    BY <1>2, <1>3, <2>1
  <2> QED
    BY <1>4, <1>7, <1>9, <2>2 DEF CleanedUp
<1> QED
  BY <1>8, <1>9
LEMMA AdmitClient ==
  ASSUME RTypeOK, NEW c \in Clients, Admit(c), NEW d \in Clients
  PROVE  CleanedUp(IF d = c THEN Live(windows[c]) \cup {Now} ELSE windows[d], d)
<1> DEFINE ws == [windows EXCEPT ![c] = Live(@) \cup {Now}]
<1>1. ws \in Table /\ ws[d] = IF d = c THEN Live(windows[c]) \cup {Now} ELSE windows[d]
  BY DEF RTypeOK, Table, Live, Now, Stamp
<1>2. CASE count + 1 >= Interval
  <2>1. Cleanup(ws)
    BY <1>2 DEF Admit
  <2> QED
    BY <1>1, <2>1, CleanupClient
<1>3. CASE ~(count + 1 >= Interval)
  BY <1>1, <1>3 DEF Admit, CleanedUp
<1> QED
  BY <1>2, <1>3

LEMMA AdmitTypes ==
  ASSUME RTypeOK, NEW c \in Clients, Admit(c)
  PROVE  RTypeOK'
<1> DEFINE ws == [windows EXCEPT ![c] = Live(@) \cup {Now}]
<1>1. Now \in Stamp
  BY DEF RTypeOK, Now, Stamp
<1>2. count' \in 0..Interval-1 /\ burst' \in Nat
  BY RateAssumption DEF Admit, RTypeOK
<1>3. admitted' \in Table
  BY <1>1 DEF Admit, RTypeOK, Table
<1>4. ws \in Table
  BY <1>1 DEF RTypeOK, Table, Live
<1>5. CASE count + 1 >= Interval
  <2>1. Cleanup(ws)
    BY <1>5 DEF Admit
  <2>2. \A d \in Clients : CleanedUp(ws[d], d)
    BY <1>4, <2>1, CleanupClient
  <2>3. \E vs, cs : windows' = Forget(vs, cs)
    BY <2>1 DEF Cleanup
  <2>4. windows' = [d \in Clients |-> windows'[d]]
    BY <2>3 DEF Forget
  <2>5. forgotten' = [d \in Clients |-> forgotten'[d]]
    BY <2>1 DEF Cleanup
  <2>6. \A d \in Clients : windows'[d] \subseteq Stamp /\ forgotten'[d] \subseteq Stamp
    BY <1>1, <1>4, <2>2 DEF CleanedUp, RTypeOK, Table
  <2> QED
    BY <1>2, <1>3, <2>4, <2>5, <2>6 DEF RTypeOK, Table
<1>6. CASE ~(count + 1 >= Interval)
  BY <1>2, <1>3, <1>4, <1>6 DEF Admit, RTypeOK
<1> QED
  BY <1>5, <1>6
(* A request that is let through, with it the client it is counted for and *)
(* every other.                                                            *)
LEMMA AdmitRecent ==
  ASSUME RTypeOK, Recent, NEW c \in Clients, Admit(c)
  PROVE  Recent'
<1> SUFFICES ASSUME NEW d \in Clients
             PROVE  (/\ IsFiniteSet(admitted[d]) /\ IsFiniteSet(forgotten[d])
                     /\ \A s \in admitted[d] \cup forgotten[d] : s.age < Window
                     /\ \A s \in admitted[d] \cup forgotten[d] : s.age = 0 => s.nth <= burst)'
  BY DEF Recent
<1>1. /\ IsFiniteSet(admitted[d]) /\ IsFiniteSet(forgotten[d])
      /\ \A s \in admitted[d] \cup forgotten[d] :
           s \in Stamp /\ s.age < Window /\ (s.age = 0 => s.nth <= burst)
  BY NowIsLast DEF Recent
<1>2. admitted'[d] \subseteq admitted[d] \cup {Now} /\ burst' = burst + 1
  BY DEF Admit, RTypeOK, Table
<1>3. forgotten'[d] \subseteq forgotten[d] \cup {Now}
  BY AdmitClient DEF CleanedUp
<1>4. IsFiniteSet(admitted[d] \cup {Now}) /\ IsFiniteSet(forgotten[d] \cup {Now})
  BY <1>1, FS_AddElement
<1>5. IsFiniteSet(admitted'[d]) /\ IsFiniteSet(forgotten'[d])
  BY <1>2, <1>3, <1>4, FS_Subset
<1>6. ASSUME NEW s \in (admitted'[d] \cup forgotten'[d])
      PROVE  s.age < Window /\ (s.age = 0 => s.nth <= burst')
  <2>1. CASE s = Now
    BY <1>2, <2>1, RateAssumption DEF Now, RTypeOK
  <2>2. CASE s # Now
    <3>1. s \in admitted[d] \cup forgotten[d]
      BY <1>2, <1>3, <2>2
    <3>2. s \in Stamp /\ s.age < Window /\ (s.age = 0 => s.nth <= burst)
      BY <1>1, <3>1
    <3> QED
      BY <1>2, <3>2 DEF Stamp, RTypeOK
  <2> QED
    BY <2>1, <2>2
<1> QED
  BY <1>5, <1>6

LEMMA AdmitWindowHolds ==
  ASSUME RTypeOK, Recent, WindowHolds, NEW c \in Clients, Admit(c)
  PROVE  WindowHolds'
<1> SUFFICES ASSUME NEW d \in Clients
             PROVE  Live(windows'[d]) \subseteq admitted'[d] /\ Standing(d)' \subseteq windows'[d]
  BY DEF WindowHolds, Live
<1> DEFINE w == IF d = c THEN Live(windows[c]) \cup {Now} ELSE windows[d]
<1>1. /\ Live(windows[d]) \subseteq admitted[d] /\ Standing(d) \subseteq windows[d]
      /\ \A s \in admitted[d] : s.age < Window
  BY DEF WindowHolds, Recent
<1>2. admitted'[d] = IF d = c THEN admitted[d] \cup {Now} ELSE admitted[d]
  BY DEF Admit, RTypeOK, Table
<1>3. \A s \in admitted[d] \cup forgotten[d] : Before(s, Now) /\ ~Before(Now, s)
  BY NowIsLast, BeforeIsOrder
<1>4. ~Before(Now, Now) /\ Now.age < Window
  BY NowIsLast, BeforeIsOrder, RateAssumption DEF Now
<1>5. Live(w) \subseteq admitted'[d]
  BY <1>1, <1>2 DEF Live
<1>6. {u \in admitted'[d] : \A f \in forgotten[d] : Before(f, u)} \subseteq Live(w)
  BY <1>1, <1>2, <1>4 DEF Standing, Live
<1>7. CleanedUp(w, d)
  BY AdmitClient
<1> HIDE DEF w
<1>8. Live(windows'[d]) \subseteq admitted'[d]
  BY <1>5, <1>7 DEF CleanedUp, Live
<1>9. CASE forgotten'[d] = forgotten[d] /\ (windows'[d] = w \/ Live(w) = {})
  BY <1>6, <1>8, <1>9 DEF Standing, Live
<1>10. CASE forgotten'[d] = forgotten[d] \cup {Now}
  <2>1. Standing(d)' = {}
    BY <1>2, <1>3, <1>4, <1>10 DEF Standing
  <2> QED
    BY <1>8, <2>1
<1> QED
  BY <1>7, <1>8, <1>9, <1>10 DEF CleanedUp

(* The new request finds room for it in the window, and the window had all *)
(* that it is counted with; what earlier requests were counted with stays. *)
LEMMA AdmitRateHeld ==
  ASSUME RTypeOK, Recent, WindowHolds, RateHeld, NEW c \in Clients, Admit(c)
  PROVE  RateHeld'
<1> SUFFICES ASSUME NEW d \in Clients, NEW s \in admitted'[d]
             PROVE  Cardinality(UpTo(admitted'[d], forgotten'[d], s)) <= Rpm
  BY DEF RateHeld, UpTo
<1>1. admitted'[d] = IF d = c THEN admitted[d] \cup {Now} ELSE admitted[d]
  BY DEF Admit, RTypeOK, Table
<1>2. forgotten'[d] \in {forgotten[d], forgotten[d] \cup {Now}}
  BY AdmitClient DEF CleanedUp
<1>3. Now \in Stamp /\ \A u \in admitted[d] \cup forgotten[d] : u \in Stamp /\ Before(u, Now)
  BY NowIsLast
<1>4. \A u \in admitted[d] \cup forgotten[d] : ~Before(Now, u) /\ u # Now
  BY <1>3, BeforeIsOrder
<1>5. ~Before(Now, Now)
  BY <1>3, BeforeIsOrder
<1>6. CASE s \in admitted[d]
  <2>1. UpTo(admitted'[d], forgotten'[d], s) = UpTo(admitted[d], forgotten[d], s)
    BY <1>1, <1>2, <1>3, <1>4, <1>6 DEF UpTo
  <2> QED
    BY <1>6, <2>1 DEF RateHeld
<1>7. CASE s \notin admitted[d]
  <2>1. d = c /\ s = Now
    BY <1>1, <1>7
  <2>2. UpTo(admitted'[d], forgotten'[d], s) \subseteq Live(windows[c]) \cup {Now}
    <3>1. ASSUME NEW u \in UpTo(admitted'[d], forgotten'[d], Now), u # Now
          PROVE  u \in Live(windows[c])
      <4>1. u \in admitted[c] /\ \A f \in forgotten[c] : Before(f, u)
        BY <1>1, <1>2, <1>3, <2>1, <3>1 DEF UpTo
      <4> QED
        BY <4>1 DEF Standing, WindowHolds, Recent, Live
    <3> QED
      BY <2>1, <3>1
  <2>3. IsFiniteSet(Live(windows[c])) /\ Cardinality(Live(windows[c])) \in Nat
    <3>1. Live(windows[c]) \in SUBSET admitted[c] /\ IsFiniteSet(admitted[c])
      BY DEF WindowHolds, Recent
    <3> QED
      BY <3>1, FS_Subset, FS_CardinalityType
  <2>4. Cardinality(Live(windows[c])) < Rpm
    BY <2>3, RateAssumption DEF Admit, AtLimit
  <2>5. /\ IsFiniteSet(Live(windows[c]) \cup {Now})
        /\ Cardinality(Live(windows[c]) \cup {Now}) <= Cardinality(Live(windows[c])) + 1
    BY <2>3, AddedCardinality
  <2>6. /\ Cardinality(UpTo(admitted'[d], forgotten'[d], s))
             <= Cardinality(Live(windows[c]) \cup {Now})
        /\ Cardinality(UpTo(admitted'[d], forgotten'[d], s)) \in Nat
        /\ Cardinality(Live(windows[c]) \cup {Now}) \in Nat
    BY <2>2, <2>5, FS_Subset, FS_CardinalityType
  <2> QED
    BY <2>3, <2>4, <2>5, <2>6, RateAssumption
<1> QED
  BY <1>6, <1>7
(* When a tick passes, what stays on record comes from a stamp a tick      *)
(* younger: this one.                                                      *)
Back(s) == [age |-> s.age - 1, nth |-> s.nth]

LEMMA BackStamps ==
  ASSUME NEW w \in SUBSET Stamp, NEW s
  PROVE  s \in Live(Older(w)) <=>
           s \in Stamp /\ s.age \in 1..Window-1 /\ Back(s) \in w
<1>1. ASSUME s \in Live(Older(w))
      PROVE  s \in Stamp /\ s.age \in 1..Window-1 /\ Back(s) \in w
  <2>1. PICK t \in w : s = [t EXCEPT !.age = IF @ < Oldest THEN @ + 1 ELSE Oldest]
    BY <1>1 DEF Live, Older
  <2>2. t \in Stamp /\ s.age < Window
    BY <1>1 DEF Live
  <2>3. s = [age |-> IF t.age < Oldest THEN t.age + 1 ELSE Oldest, nth |-> t.nth]
    BY <2>1, <2>2 DEF Stamp
  <2>4. t.age < Oldest
    BY <2>2, <2>3, RateAssumption DEF Stamp, Oldest
  <2>5. s = [age |-> t.age + 1, nth |-> t.nth]
    BY <2>3, <2>4
  <2>6. Back(s) = t
    BY <2>2, <2>5 DEF Back, Stamp
  <2> QED
    BY <2>2, <2>5, <2>6, RateAssumption DEF Stamp
<1>2. ASSUME s \in Stamp, s.age \in 1..Window-1, Back(s) \in w
      PROVE  s \in Live(Older(w))
  <2> DEFINE t == Back(s)
  <2>1. t.age < Oldest /\ t.age + 1 = s.age /\ t.nth = s.nth /\ t \in Stamp
    BY <1>2, RateAssumption DEF Back, Stamp, Oldest
  <2>2. [t EXCEPT !.age = IF @ < Oldest THEN @ + 1 ELSE Oldest] = s
    BY <1>2, <2>1 DEF Stamp
  <2>3. s \in Older(w)
    BY <1>2, <2>2 DEF Older
  <2> QED
    BY <1>2, <2>3, RateAssumption DEF Live
<1> QED
  BY <1>1, <1>2

LEMMA BackOrder ==
  ASSUME NEW s \in Stamp, NEW t \in Stamp, s.age > 0, t.age > 0
  PROVE  /\ Back(s) \in Stamp
         /\ Before(Back(s), Back(t)) <=> Before(s, t)
         /\ Back(s) = Back(t) => s = t
<1>1. Back(s) \in Stamp /\ Back(s).age = s.age - 1 /\ Back(s).nth = s.nth
  BY DEF Back, Stamp
<1>2. Back(t).age = t.age - 1 /\ Back(t).nth = t.nth
  BY DEF Back, Stamp
<1>3. Before(Back(s), Back(t)) <=> Before(s, t)
  BY <1>1, <1>2 DEF Before, Stamp
<1>4. ASSUME Back(s) = Back(t) PROVE s = t
  <2>1. s.age = t.age /\ s.nth = t.nth
    BY <1>1, <1>2, <1>4 DEF Stamp
  <2>2. s = [age |-> s.age, nth |-> s.nth] /\ t = [age |-> t.age, nth |-> t.nth]
    BY DEF Stamp
  <2> QED
    BY <2>1, <2>2
<1> QED
  BY <1>1, <1>3, <1>4

(* Fewer stamps stay on record than there were.                            *)
LEMMA BackCardinality ==
  ASSUME NEW S \in SUBSET {s \in Stamp : s.age > 0}, NEW T, IsFiniteSet(T),
         \A s \in S : Back(s) \in T
  PROVE  IsFiniteSet(S) /\ Cardinality(S) <= Cardinality(T)
<1> DEFINE back == [s \in S |-> Back(s)]
<1>1. back \in [S -> T]
  OBVIOUS
<1>2. \A s, t \in S : back[s] = back[t] => s = t
  BY BackOrder
<1>3. back \in Injection(S, T)
  BY <1>1, <1>2 DEF Injection, IsInjective
<1> QED
  BY <1>3, FS_Injection

LEMMA TimeInv ==
  ASSUME RateInv, TimePasses
  PROVE  RateInv'
<1> USE DEF RateInv
<1>1. \A d \in Clients : /\ windows[d] \in SUBSET Stamp /\ admitted[d] \in SUBSET Stamp
                         /\ forgotten[d] \in SUBSET Stamp
  BY DEF RTypeOK, Table
<1>2. \A w \in SUBSET Stamp : Older(w) \in SUBSET Stamp
  <2> SUFFICES ASSUME NEW w \in SUBSET Stamp, NEW t \in w
               PROVE  [t EXCEPT !.age = IF @ < Oldest THEN @ + 1 ELSE Oldest] \in Stamp
    BY DEF Older
  <2> QED
    BY RateAssumption DEF Stamp, Oldest
<1>3. RTypeOK'
  <2>1. \A w \in SUBSET Stamp : Live(w) \in SUBSET Stamp
    BY DEF Live
  <2>2. windows' \in Table
    BY <1>1, <1>2 DEF TimePasses, Table
  <2>3. admitted' \in Table /\ forgotten' \in Table
    BY <1>1, <1>2, <2>1 DEF TimePasses, Table
  <2> QED
    BY <2>2, <2>3 DEF RTypeOK, TimePasses
<1>4. ASSUME NEW d \in Clients
      PROVE  /\ admitted'[d] = Live(Older(admitted[d]))
             /\ forgotten'[d] = Live(Older(forgotten[d]))
             /\ windows'[d] = Older(windows[d])
  BY DEF TimePasses
<1>5. ASSUME NEW d \in Clients, NEW s
      PROVE  /\ s \in admitted'[d] <=>
                  s \in Stamp /\ s.age \in 1..Window-1 /\ Back(s) \in admitted[d]
             /\ s \in forgotten'[d] <=>
                  s \in Stamp /\ s.age \in 1..Window-1 /\ Back(s) \in forgotten[d]
             /\ s \in Live(windows'[d]) <=>
                  s \in Stamp /\ s.age \in 1..Window-1 /\ Back(s) \in windows[d]
  BY <1>1, <1>4, BackStamps
<1>6. ASSUME NEW d \in Clients
      PROVE  /\ admitted'[d] \in SUBSET {s \in Stamp : s.age > 0}
             /\ forgotten'[d] \in SUBSET {s \in Stamp : s.age > 0}
  BY <1>5
(* A clean-up that is no longer on record is older than all that is.       *)
<1>7. ASSUME NEW d \in Clients, NEW f \in forgotten[d]
       PROVE  \/ \A t \in Stamp : t.age \in 1..Window-1 => Before(f, Back(t))
              \/ \E g \in forgotten'[d] :
                   \A t \in Stamp : t.age \in 1..Window-1 =>
                     (Before(f, Back(t)) <=> Before(g, t))
  <2>1. f \in Stamp
    BY <1>1
  <2> DEFINE g == [age |-> f.age + 1, nth |-> f.nth]
  <2>2. g \in Stamp /\ g.age = f.age + 1 /\ Back(g) = f
    BY <2>1 DEF Stamp, Back
  <2>3. CASE f.age + 1 < Window
    <3>1. g \in forgotten'[d]
      BY <1>5, <2>1, <2>2, <2>3, RateAssumption DEF Stamp
    <3>2. \A t \in Stamp : t.age \in 1..Window-1 => (Before(f, Back(t)) <=> Before(g, t))
      BY <2>1, <2>2, BackOrder DEF Stamp
    <3> QED
      BY <3>1, <3>2
  <2>4. CASE ~(f.age + 1 < Window)
    BY <2>1, <2>4, RateAssumption DEF Before, Back, Stamp
  <2> QED
    BY <2>3, <2>4
<1>8. Recent'
  <2> SUFFICES ASSUME NEW d \in Clients
               PROVE  (/\ IsFiniteSet(admitted[d]) /\ IsFiniteSet(forgotten[d])
                       /\ \A s \in admitted[d] \cup forgotten[d] : s.age < Window
                       /\ \A s \in admitted[d] \cup forgotten[d] : s.age = 0 => s.nth <= burst)'
    BY DEF Recent
  <2>1. IsFiniteSet(admitted[d]) /\ IsFiniteSet(forgotten[d])
    BY DEF Recent
  <2>2. IsFiniteSet(admitted'[d]) /\ IsFiniteSet(forgotten'[d])
    BY <1>5, <1>6, <2>1, BackCardinality
  <2>3. \A s \in admitted'[d] \cup forgotten'[d] : s.age < Window /\ s.age # 0
    BY <1>5, RateAssumption
  <2> QED
    BY <2>2, <2>3
<1>9. WindowHolds'
  <2> SUFFICES ASSUME NEW d \in Clients
               PROVE  Live(windows'[d]) \subseteq admitted'[d] /\ Standing(d)' \subseteq windows'[d]
    BY DEF WindowHolds, Live
  <2>1. ASSUME NEW s \in Live(windows'[d]) PROVE s \in admitted'[d]
    <3>1. s \in Stamp /\ s.age \in 1..Window-1 /\ Back(s) \in windows[d]
      BY <1>5, <2>1
    <3>2. Back(s) \in Live(windows[d])
      BY <3>1, RateAssumption DEF Live, Back
    <3> QED
      BY <1>5, <3>1, <3>2 DEF WindowHolds
  <2>2. ASSUME NEW s \in Standing(d)' PROVE s \in windows'[d]
    <3>1. s \in admitted'[d] /\ \A f \in forgotten'[d] : Before(f, s)
      BY <2>2 DEF Standing
    <3>2. s \in Stamp /\ s.age \in 1..Window-1 /\ Back(s) \in admitted[d]
      BY <1>5, <3>1
    <3>3. ASSUME NEW f \in forgotten[d] PROVE Before(f, Back(s))
      BY <1>7, <3>1, <3>2
    <3>4. Back(s) \in windows[d]
      BY <3>2, <3>3 DEF Standing, WindowHolds
    <3>5. s \in Live(windows'[d])
      BY <1>5, <3>2, <3>4
    <3> QED
      BY <3>5 DEF Live
  <2> QED
    BY <2>1, <2>2
<1>10. RateHeld'
  <2> SUFFICES ASSUME NEW d \in Clients, NEW s \in admitted'[d]
               PROVE  Cardinality(UpTo(admitted'[d], forgotten'[d], s)) <= Rpm
    BY DEF RateHeld, UpTo
  <2> DEFINE S == UpTo(admitted'[d], forgotten'[d], s)
             T == UpTo(admitted[d], forgotten[d], Back(s))
  <2>1. s \in Stamp /\ s.age \in 1..Window-1 /\ Back(s) \in admitted[d] /\ Back(s) \in Stamp
    BY <1>5, BackOrder
  <2>2. ASSUME NEW u \in S PROVE Back(u) \in T
    <3>1. /\ u \in admitted'[d] /\ ~Before(s, u)
          /\ \A f \in forgotten'[d] : Before(f, s) => Before(f, u)
      BY <2>2 DEF UpTo
    <3>2. u \in Stamp /\ u.age \in 1..Window-1 /\ Back(u) \in admitted[d]
      BY <1>5, <3>1
    <3>3. ~Before(Back(s), Back(u))
      BY <2>1, <3>1, <3>2, BackOrder
    <3>4. ASSUME NEW f \in forgotten[d], Before(f, Back(s)) PROVE Before(f, Back(u))
      BY <1>7, <2>1, <3>1, <3>2, <3>4
    <3> QED
      BY <3>2, <3>3, <3>4 DEF UpTo
  <2>3. S \in SUBSET {t \in Stamp : t.age > 0}
    BY <1>6 DEF UpTo
  <2>4. IsFiniteSet(T) /\ Cardinality(T) <= Rpm
    <3>1. T \in SUBSET admitted[d] /\ IsFiniteSet(admitted[d])
      BY DEF UpTo, Recent
    <3> QED
      BY <2>1, <3>1, FS_Subset DEF RateHeld
  <2> HIDE DEF S, T
  <2>5. IsFiniteSet(S) /\ Cardinality(S) <= Cardinality(T)
    BY <2>2, <2>3, <2>4, BackCardinality
  <2>6. Cardinality(S) \in Nat /\ Cardinality(T) \in Nat
    BY <2>4, <2>5, FS_CardinalityType
  <2>7. Cardinality(S) <= Rpm
    BY <2>4, <2>5, <2>6, RateAssumption
  <2> QED
    BY <2>7 DEF S
<1> QED
  BY <1>3, <1>8, <1>9, <1>10
LEMMA RejectInv ==
  ASSUME RateInv, NEW c \in Clients, Reject(c)
  PROVE  RateInv'
<1> USE DEF RateInv
<1>1. windows' = [windows EXCEPT ![c] = Live(@)]
  BY DEF Reject, AfterReject
<1>2. UNCHANGED <<count, burst, admitted, forgotten>>
  BY DEF Reject
<1>3. RTypeOK'
  BY <1>1, <1>2 DEF RTypeOK, Table, Live
<1>4. ASSUME NEW d \in Clients
      PROVE  Live(windows'[d]) = Live(windows[d]) /\ Live(windows[d]) \subseteq windows'[d]
  BY <1>1 DEF RTypeOK, Table, Live
<1>5. WindowHolds'
  <2> SUFFICES ASSUME NEW d \in Clients
               PROVE  Live(windows'[d]) \subseteq admitted[d] /\ Standing(d) \subseteq windows'[d]
    BY <1>2 DEF WindowHolds, Live, Standing
  <2>1. Standing(d) \subseteq Live(windows[d])
    BY DEF WindowHolds, Recent, Standing, Live
  <2> QED
    BY <1>4, <2>1 DEF WindowHolds
<1>6. Recent'
  BY <1>2 DEF Recent
<1>7. RateHeld'
  <2>1. admitted' = admitted /\ forgotten' = forgotten /\ RateHeld
    BY <1>2
  <2> QED
    BY <2>1 DEF RateHeld, UpTo
<1> QED
  BY <1>3, <1>5, <1>6, <1>7

LEMMA RateInit == RInit => RateInv
<1> SUFFICES ASSUME RInit PROVE RateInv
  OBVIOUS
<1>1. \A d \in Clients : windows[d] = {} /\ admitted[d] = {} /\ forgotten[d] = {}
  BY DEF RInit
<1>2. RTypeOK
  BY RateAssumption DEF RInit, RTypeOK, Table
<1>3. Recent
  BY <1>1, FS_EmptySet DEF Recent
<1>4. WindowHolds /\ RateHeld
  BY <1>1 DEF WindowHolds, RateHeld, Live, Standing
<1> QED
  BY <1>2, <1>3, <1>4 DEF RateInv

LEMMA RateInvInductive == RateInv /\ [RNext]_rvars => RateInv'
<1> SUFFICES ASSUME RateInv, [RNext]_rvars PROVE RateInv'
  OBVIOUS
<1>1. CASE TimePasses
  BY <1>1, TimeInv
<1>2. ASSUME NEW c \in Clients, Admit(c) PROVE RateInv'
  BY <1>2, AdmitTypes, AdmitRecent, AdmitWindowHolds, AdmitRateHeld DEF RateInv
<1>3. ASSUME NEW c \in Clients, Reject(c) PROVE RateInv'
  BY <1>3, RejectInv
<1>4. CASE UNCHANGED rvars
  BY <1>4 DEF rvars, RateInv, RTypeOK, Recent, WindowHolds, RateHeld, Live, Standing, UpTo
<1> QED
  BY <1>1, <1>2, <1>3, <1>4 DEF RNext, Request

(* The count of a minute.  Each request is told by how many of the forced  *)
(* clean-ups came before it and by its place after the last of them; there *)
(* are 1 + |F| by Rpm such pairs.                                          *)
LEMMA CountedInRuns ==
  ASSUME NEW A \in SUBSET Stamp, NEW F \in SUBSET Stamp,
         IsFiniteSet(A), IsFiniteSet(F),
         \A s \in A : Cardinality(UpTo(A, F, s)) <= Rpm
  PROVE  Cardinality(A) <= Rpm * (1 + Cardinality(F))
<1> DEFINE run(s) == {f \in F : Before(f, s)}
           pair == [s \in A |-> <<Cardinality(run(s)), Cardinality(UpTo(A, F, s))>>]
           n == Cardinality(F)
<1>1. ASSUME NEW s \in A
      PROVE  /\ IsFiniteSet(run(s)) /\ Cardinality(run(s)) \in 0..n
             /\ IsFiniteSet(UpTo(A, F, s)) /\ Cardinality(UpTo(A, F, s)) \in 1..Rpm
             /\ s \in UpTo(A, F, s)
  <2>1. run(s) \in SUBSET F /\ n \in Nat
    BY FS_CardinalityType
  <2>2. IsFiniteSet(run(s)) /\ Cardinality(run(s)) <= n /\ Cardinality(run(s)) \in Nat
    BY <2>1, FS_Subset, FS_CardinalityType
  <2>3. UpTo(A, F, s) \in SUBSET A
    BY DEF UpTo
  <2>4. s \in UpTo(A, F, s)
    BY BeforeIsOrder DEF UpTo
  <2>5. IsFiniteSet(UpTo(A, F, s)) /\ Cardinality(UpTo(A, F, s)) \in Nat
    BY <2>3, FS_Subset, FS_CardinalityType
  <2>6. Cardinality(UpTo(A, F, s)) # 0
    BY <2>4, <2>5, FS_EmptySet
  <2> QED
    BY <2>1, <2>2, <2>4, <2>5, <2>6, RateAssumption
<1>2. ASSUME NEW s \in A, NEW t \in A, Before(s, t) PROVE pair[s] # pair[t]
  <2>1. run(s) \in SUBSET run(t)
    BY <1>2, BeforeIsOrder
  <2>2. CASE run(s) # run(t)
    <3>1. Cardinality(run(s)) # Cardinality(run(t))
      BY <1>1, <2>1, <2>2, FS_Subset
    <3> QED
      BY <3>1
  <2>3. CASE run(s) = run(t)
    <3>1. UpTo(A, F, s) \in SUBSET UpTo(A, F, t)
      BY <1>2, <2>3, BeforeIsOrder DEF UpTo
    <3>2. t \notin UpTo(A, F, s) /\ t \in UpTo(A, F, t)
      BY <1>1, <1>2 DEF UpTo
    <3>3. Cardinality(UpTo(A, F, s)) # Cardinality(UpTo(A, F, t))
      BY <1>1, <3>1, <3>2, FS_Subset
    <3> QED
      BY <3>3
  <2> QED
    BY <2>2, <2>3
<1>3. \A s, t \in A : pair[s] = pair[t] => s = t
  BY <1>2, BeforeIsOrder
<1>4. pair \in [A -> (0..n) \X (1..Rpm)]
  BY <1>1
<1> HIDE DEF pair
<1>5. pair \in Injection(A, (0..n) \X (1..Rpm))
  BY <1>3, <1>4 DEF Injection, IsInjective
<1>6. n \in Nat /\ Rpm \in Nat
  BY FS_CardinalityType, RateAssumption
<1>7. /\ IsFiniteSet(0..n) /\ Cardinality(0..n) = n + 1
      /\ IsFiniteSet(1..Rpm) /\ Cardinality(1..Rpm) = Rpm
  <2> HIDE DEF n
  <2>1. \A k \in Nat : k - 0 + 1 = k + 1 /\ ~(0 > k) /\ (1 > k => k = 0) /\ k - 1 + 1 = k
    OBVIOUS
  <2>2. IsFiniteSet(0..n) /\ Cardinality(0..n) = IF 0 > n THEN 0 ELSE n - 0 + 1
    BY <1>6, FS_Interval
  <2>3. IsFiniteSet(1..Rpm) /\ Cardinality(1..Rpm) = IF 1 > Rpm THEN 0 ELSE Rpm - 1 + 1
    BY <1>6, FS_Interval
  <2> QED
    BY <1>6, <2>1, <2>2, <2>3
<1>8. /\ IsFiniteSet((0..n) \X (1..Rpm))
      /\ Cardinality((0..n) \X (1..Rpm)) = (n + 1) * Rpm
  <2> HIDE DEF n
  <2>1. Cardinality((0..n) \X (1..Rpm)) = Cardinality(0..n) * Cardinality(1..Rpm)
    BY <1>7, FS_Product
  <2> QED
    BY <1>7, <2>1, FS_Product
<1>9. Cardinality(A) <= (n + 1) * Rpm
  BY <1>5, <1>8, FS_Injection
<1> QED
  BY <1>6, <1>9

LEMMA RateInvImplies == RateInv => RateHolds
<1> SUFFICES ASSUME RateInv, NEW d \in Clients
             PROVE  /\ Cardinality(admitted[d]) <= Rpm * (1 + Cardinality(forgotten[d]))
                    /\ Live(windows[d]) \subseteq admitted[d]
  BY DEF RateHolds
<1>1. admitted[d] \in SUBSET Stamp /\ forgotten[d] \in SUBSET Stamp
  BY DEF RateInv, RTypeOK, Table
<1> QED
  BY <1>1, CountedInRuns DEF RateInv, Recent, RateHeld, WindowHolds

(* RateHolds is an invariant: for any clients, limits and tick, no client  *)
(* gets more than requests_per_minute through in a minute and once more    *)
(* for each forced clean-up in it that dropped its window.                 *)
THEOREM RateSafe == RSpec => []RateHolds
<1>1. RSpec => []RateInv
  BY RateInit, RateInvInductive, PTL DEF RSpec
<1> QED
  BY <1>1, RateInvImplies, PTL
(* Admitted requests alone bring clients into the table: one each.         *)
LEMMA AdmitTable ==
  ASSUME RTypeOK, TableInv, NEW c \in Clients, Admit(c)
  PROVE  TableInv'
<1> DEFINE ws == [windows EXCEPT ![c] = Live(@) \cup {Now}]
<1>1. Known(ws) \in SUBSET (Known(windows) \cup {c})
  BY DEF Known, RTypeOK, Table
<1>2. /\ IsFiniteSet(Known(windows) \cup {c})
      /\ Cardinality(Known(windows) \cup {c}) <= Cardinality(Known(windows)) + 1
  BY AddedCardinality DEF TableInv
<1>3. IsFiniteSet(Known(ws)) /\ Cardinality(Known(ws)) <= Cardinality(Known(windows) \cup {c})
  BY <1>1, <1>2, FS_Subset
<1>4. /\ Cardinality(Known(windows)) \in Nat /\ Cardinality(Known(windows) \cup {c}) \in Nat
      /\ Cardinality(Known(ws)) \in Nat /\ MaxClients \in Nat /\ count \in Nat
  BY <1>2, <1>3, FS_CardinalityType, RateAssumption DEF TableInv, RTypeOK
<1>5. CASE count + 1 >= Interval
  <2> DEFINE fresh == Forget(ws, Stale(ws))
  <2>1. Cleanup(ws) /\ count' = 0
    BY <1>5 DEF Admit
  <2>2. PICK keep \in Kept(fresh) : windows' = Forget(fresh, Known(fresh) \ keep)
    BY <2>1 DEF Cleanup
  <2>3. Known(fresh) \in SUBSET Known(ws)
    BY DEF Known, Forget
  <2>4. IsFiniteSet(Known(fresh)) /\ Cardinality(Known(fresh)) \in Nat
    BY <1>3, <2>3, FS_Subset, FS_CardinalityType
  <2>5. keep \in SUBSET Known(fresh) /\ Cardinality(keep) <= MaxClients
    <3>1. CASE Cardinality(Known(fresh)) <= MaxClients
      BY <2>2, <3>1 DEF Kept
    <3>2. CASE ~(Cardinality(Known(fresh)) <= MaxClients)
      <4>1. keep \in SUBSET Known(fresh) /\ Cardinality(keep) = MaxClients \div 2
        BY <2>2, <3>2 DEF Kept
      <4>2. MaxClients \div 2 <= MaxClients
        BY RateAssumption
      <4> QED
        BY <4>1, <4>2
    <3> QED
      BY <3>1, <3>2
  <2>6. Known(windows') = keep
    BY <2>2, <2>5 DEF Known, Forget
  <2>7. IsFiniteSet(keep)
    BY <2>4, <2>5, FS_Subset
  <2>8. Known(windows)' = keep
    BY <2>6 DEF Known
  <2> QED
    BY <1>4, <2>1, <2>5, <2>7, <2>8 DEF TableInv
<1>6. CASE ~(count + 1 >= Interval)
  <2>1. windows' = ws /\ count' = count + 1
    BY <1>6 DEF Admit
  <2>2. Known(windows)' = Known(ws)
    BY <2>1 DEF Known
  <2> QED
    BY <1>2, <1>3, <1>4, <2>1, <2>2 DEF TableInv
<1> QED
  BY <1>5, <1>6

LEMMA TableInvInductive == RateInv /\ TableInv /\ [RNext]_rvars => TableInv'
<1> SUFFICES ASSUME RateInv, TableInv, [RNext]_rvars PROVE TableInv'
  OBVIOUS
<1>1. RTypeOK
  BY DEF RateInv
<1>2. ASSUME count' = count, Known(windows') \subseteq Known(windows) PROVE TableInv'
  <2>1. Known(windows)' = Known(windows')
    BY DEF Known
  <2>2. Known(windows') \in SUBSET Known(windows)
    BY <1>2
  <2>3. /\ IsFiniteSet(Known(windows'))
        /\ Cardinality(Known(windows')) <= Cardinality(Known(windows))
    BY <2>2, FS_Subset DEF TableInv
  <2>4. Cardinality(Known(windows')) \in Nat /\ Cardinality(Known(windows)) \in Nat
    BY <2>3, FS_CardinalityType DEF TableInv
  <2> QED
    BY <1>1, <1>2, <2>1, <2>3, <2>4, RateAssumption DEF TableInv, RTypeOK
<1>3. CASE TimePasses
  <2>1. \A d \in Clients : windows'[d] # {} => windows[d] # {}
    BY <1>3 DEF TimePasses, Older
  <2> QED
    BY <1>2, <1>3, <2>1 DEF TimePasses, Known
<1>4. ASSUME NEW c \in Clients, Admit(c) PROVE TableInv'
  BY <1>1, <1>4, AdmitTable
<1>5. ASSUME NEW c \in Clients, Reject(c) PROVE TableInv'
  <2>1. count' = count /\ windows' = [windows EXCEPT ![c] = Live(@)]
    BY <1>5 DEF Reject, AfterReject
  <2>2. \A d \in Clients : windows'[d] \subseteq windows[d]
    BY <1>1, <2>1 DEF RTypeOK, Table, Live
  <2> QED
    BY <1>2, <2>1, <2>2 DEF Known
<1>6. CASE UNCHANGED rvars
  BY <1>2, <1>6 DEF rvars
<1> QED
  BY <1>3, <1>4, <1>5, <1>6 DEF RNext, Request

(* TableIsBounded is an invariant: for any clients and limits, the table   *)
(* never outgrows max_clients by more than a clean-up interval.            *)
THEOREM TableSafe == RSpec => []TableIsBounded
<1>1. RInit => RateInv /\ TableInv
  <2>1. RInit => Known(windows) = {}
    BY DEF RInit, Known
  <2>2. IsFiniteSet({}) /\ Cardinality({}) = 0
    BY FS_EmptySet
  <2>3. RInit => TableInv
    <3> SUFFICES ASSUME RInit PROVE TableInv
      OBVIOUS
    <3>1. Cardinality(Known(windows)) = 0 /\ IsFiniteSet(Known(windows)) /\ count = 0
      BY <2>1, <2>2 DEF RInit
    <3> QED
      BY <3>1, RateAssumption DEF TableInv
  <2> QED
    BY <2>3, RateInit
<1>2. RateInv /\ TableInv /\ [RNext]_rvars => (RateInv /\ TableInv)'
  BY RateInvInductive, TableInvInductive
<1>3. RateInv /\ TableInv => TableIsBounded
  <2> SUFFICES ASSUME RateInv, TableInv PROVE TableIsBounded
    OBVIOUS
  <2>1. Cardinality(Known(windows)) \in Nat /\ count \in 0..Interval-1
    BY FS_CardinalityType DEF TableInv, RateInv, RTypeOK
  <2> QED
    BY <2>1, RateAssumption DEF TableInv, TableIsBounded
<1> QED
  BY <1>1, <1>2, <1>3, PTL DEF RSpec
-----------------------------------------------------------------------------
(* The two invariants of JobQueue count the places a job is in.  Neither   *)
(* is inductive: Get needs the queue to hold each job once, Start          *)
(* overwrites all phases and needs that no worker is left, and the count   *)
(* of one property is what the other starts from.  JobInv says where jobs  *)
(* are with quantifiers only; the counts follow from it at the end.        *)
Holds(w) == phase[w] \in {"got", "working"}

(* The queue holds each of its jobs once, and only pending ones.           *)
QueueInv ==
  /\ \A i, k \in 1..Len(queue) : queue[i] = queue[k] => i = k
  /\ \A i \in 1..Len(queue) : status[queue[i]] = "pending"

(* A job in a worker's hands is in no other's and not in the queue.        *)
HandsInv ==
  /\ \A w \in Workers : Holds(w) => held[w] \in Jobs
  /\ \A w \in Workers : phase[w] = "got" =>
       status[held[w]] = "pending" /\ \A i \in 1..Len(queue) : queue[i] # held[w]
  /\ \A w \in Workers : phase[w] = "working" =>
       status[held[w]] = "running" /\ held[w] \notin stamped
  /\ \A w, v \in Workers : (Holds(w) /\ Holds(v) /\ held[w] = held[v]) => w = v

(* A job that is neither absent nor over is somewhere.                     *)
PlaceInv ==
  /\ \A j \in Jobs : status[j] = "pending" =>
       \/ \E i \in 1..Len(queue) : queue[i] = j
       \/ \E w \in Workers : phase[w] = "got" /\ held[w] = j
  /\ \A j \in Jobs : (status[j] = "running" /\ j \notin stamped) =>
       \E w \in Workers : phase[w] = "working" /\ held[w] = j

StampInv ==
  /\ \A j \in Jobs : status[j] \in Ended => j \in stamped
  /\ \A j \in stamped : status[j] \notin {"absent", "pending"}

(* start() finds no worker of an earlier start().                          *)
OwnerInv == (~running /\ ~stopping) => \A w \in Workers : phase[w] = "none"

JobInv == TypeOK /\ QueueInv /\ HandsInv /\ PlaceInv /\ StampInv /\ OwnerInv
-----------------------------------------------------------------------------
LEMMA JobInitInv == Init => JobInv
<1> SUFFICES ASSUME Init PROVE JobInv
  OBVIOUS
<1> USE DEF Init
<1>1. TypeOK
  <2>1. <<>> \in Seq(Jobs)
    OBVIOUS
  <2>2. held \in [Workers -> Jobs \cup {None}]
    OBVIOUS
  <2>3. status \in [Jobs -> {"absent", "pending", "running"} \cup Ended]
    OBVIOUS
  <2>4. phase \in [Workers -> {"none", "polling", "got", "working"}]
    OBVIOUS
  <2> QED
    BY <2>1, <2>2, <2>3, <2>4 DEF TypeOK
<1>2. Len(queue) = 0
  OBVIOUS
<1>3. QueueInv
  BY <1>2 DEF QueueInv
<1>4. HandsInv
  BY DEF HandsInv, Holds
<1>5. PlaceInv /\ StampInv /\ OwnerInv
  BY DEF PlaceInv, StampInv, OwnerInv, Ended
<1> QED
  BY <1>1, <1>3, <1>4, <1>5 DEF JobInv

LEMMA StartKeeps == JobInv /\ Start => JobInv'
<1> SUFFICES ASSUME JobInv, Start PROVE JobInv'
  OBVIOUS
<1> USE DEF JobInv, Start, TypeOK, OwnerInv, jobVars, Ended
<1>1. \A w \in Workers : phase[w] = "none" /\ phase'[w] = "polling"
  OBVIOUS
<1>2. TypeOK' /\ OwnerInv'
  OBVIOUS
<1>3. QueueInv' /\ StampInv'
  BY DEF QueueInv, StampInv
<1>4. HandsInv' /\ PlaceInv'
  BY <1>1 DEF HandsInv, PlaceInv, Holds
<1> QED
  BY <1>2, <1>3, <1>4

LEMMA StopBeginKeeps == JobInv /\ StopBegin => JobInv'
<1> SUFFICES ASSUME JobInv, StopBegin PROVE JobInv'
  OBVIOUS
<1> USE DEF JobInv, StopBegin, jobVars
<1>1. TypeOK' /\ OwnerInv'
  BY DEF TypeOK, OwnerInv, LiveTasks
<1>2. QueueInv' /\ StampInv'
  BY DEF QueueInv, StampInv
<1>3. HandsInv'
  BY DEF HandsInv, Holds
<1>4. PlaceInv'
  BY DEF PlaceInv
<1> QED
  BY <1>1, <1>2, <1>3, <1>4

LEMMA StopEndKeeps == JobInv /\ StopEnd => JobInv'
<1> SUFFICES ASSUME JobInv, StopEnd PROVE JobInv'
  OBVIOUS
<1> USE DEF JobInv, StopEnd, jobVars, taskVars
<1>1. TypeOK' /\ OwnerInv'
  BY DEF TypeOK, OwnerInv, LiveTasks
<1>2. QueueInv' /\ StampInv'
  BY DEF QueueInv, StampInv
<1>3. HandsInv'
  BY DEF HandsInv, Holds
<1>4. PlaceInv'
  BY DEF PlaceInv
<1> QED
  BY <1>1, <1>2, <1>3, <1>4

LEMMA EnqueueKeeps == ASSUME NEW j \in Jobs, JobInv, Enqueue(j) PROVE JobInv'
<1> USE DEF JobInv, Enqueue, TypeOK, taskVars, Ended
<1>1. /\ queue' \in Seq(Jobs) /\ Len(queue') = Len(queue) + 1
      /\ \A i \in 1..Len(queue) : queue'[i] = queue[i] /\ queue[i] \in Jobs
      /\ queue'[Len(queue) + 1] = j
  OBVIOUS
<1>2. \A i \in 1..Len(queue) : queue[i] # j
  BY DEF QueueInv
<1>3. TypeOK' /\ OwnerInv'
  BY <1>1 DEF OwnerInv
<1>4. QueueInv'
  BY <1>1, <1>2 DEF QueueInv
<1>5. HandsInv'
  BY <1>1 DEF HandsInv, Holds
<1>6. PlaceInv'
  <2>1. ASSUME NEW k \in Jobs, status'[k] = "pending"
        PROVE \/ \E i \in 1..Len(queue') : queue'[i] = k
              \/ \E w \in Workers : phase'[w] = "got" /\ held'[w] = k
    BY <1>1, <2>1 DEF PlaceInv
  <2>2. ASSUME NEW k \in Jobs, status'[k] = "running", k \notin stamped'
        PROVE \E w \in Workers : phase'[w] = "working" /\ held'[w] = k
    BY <2>2 DEF PlaceInv
  <2> QED
    BY <2>1, <2>2 DEF PlaceInv
<1>7. StampInv'
  BY DEF StampInv
<1> QED
  BY <1>3, <1>4, <1>5, <1>6, <1>7

LEMMA GetKeeps == ASSUME NEW w \in Workers, JobInv, Get(w) PROVE JobInv'
<1> USE DEF JobInv, Get, TypeOK, Ended
<1>1. /\ Len(queue) \in Nat /\ Len(queue) > 0
      /\ queue' \in Seq(Jobs) /\ Len(queue') = Len(queue) - 1
      /\ \A i \in 1..Len(queue') : queue'[i] = queue[i + 1]
      /\ held'[w] = queue[1] /\ queue[1] \in Jobs
  BY EmptySeq, HeadTailProperties
<1>2. /\ phase'[w] = "got" /\ phase[w] = "polling"
      /\ \A v \in Workers : v # w => phase'[v] = phase[v] /\ held'[v] = held[v]
  OBVIOUS
<1>3. TypeOK' /\ OwnerInv'
  BY <1>1 DEF OwnerInv
<1>4. QueueInv' /\ StampInv'
  BY <1>1 DEF QueueInv, StampInv
<1>5. HandsInv'
  <2>1. \A i \in 1..Len(queue') : queue'[i] # queue[1]
    BY <1>1 DEF QueueInv
  <2>2. \A v \in Workers : Holds(v) => held[v] # queue[1]
    BY <1>1 DEF QueueInv, HandsInv, Holds
  <2> QED
    BY <1>1, <1>2, <2>1, <2>2 DEF HandsInv, QueueInv, Holds
<1>6. PlaceInv'
  <2>1. ASSUME NEW k \in Jobs, status'[k] = "pending"
        PROVE \/ \E i \in 1..Len(queue') : queue'[i] = k
              \/ \E v \in Workers : phase'[v] = "got" /\ held'[v] = k
    <3>1. CASE \E i \in 1..Len(queue) : queue[i] = k
      <4>1. PICK i \in 1..Len(queue) : queue[i] = k
        BY <3>1
      <4>2. CASE i = 1
        BY <1>1, <1>2, <4>1, <4>2
      <4>3. CASE i # 1
        <5>1. i - 1 \in 1..Len(queue') /\ queue'[i - 1] = k
          BY <1>1, <4>1, <4>3
        <5> QED
          BY <5>1
      <4> QED
        BY <4>2, <4>3
    <3>2. CASE \E v \in Workers : phase[v] = "got" /\ held[v] = k
      BY <1>2, <3>2
    <3> QED
      BY <2>1, <3>1, <3>2 DEF PlaceInv
  <2>2. ASSUME NEW k \in Jobs, status'[k] = "running", k \notin stamped'
        PROVE \E v \in Workers : phase'[v] = "working" /\ held'[v] = k
    BY <1>2, <2>2 DEF PlaceInv
  <2> QED
    BY <2>1, <2>2 DEF PlaceInv
<1> QED
  BY <1>3, <1>4, <1>5, <1>6

(* A worker that holds nothing goes on polling or ends.                    *)
LEMMA IdleKeeps == ASSUME NEW w \in Workers, JobInv, TimeOut(w) \/ Break(w) PROVE JobInv'
<1> USE DEF JobInv, TypeOK, TimeOut, Break, NextPass, jobVars, Ended
<1>1. /\ phase[w] = "polling" /\ phase'[w] \in {"polling", "none"}
      /\ \A v \in Workers : v # w => phase'[v] = phase[v]
      /\ UNCHANGED <<queue, status, stamped, held, running, stopping>>
  OBVIOUS
<1>2. TypeOK'
  OBVIOUS
<1>3. OwnerInv'
  BY <1>1 DEF OwnerInv
<1>4. QueueInv' /\ StampInv'
  BY <1>1 DEF QueueInv, StampInv
<1>5. HandsInv'
  BY <1>1 DEF HandsInv, Holds
<1>6. PlaceInv'
  BY <1>1 DEF PlaceInv
<1> QED
  BY <1>2, <1>3, <1>4, <1>5, <1>6

LEMMA BeginKeeps == ASSUME NEW w \in Workers, JobInv, Begin(w) PROVE JobInv'
<1> USE DEF JobInv, TypeOK, Begin, Ended
<1>1. /\ held[w] \in Jobs /\ phase[w] = "got" /\ phase'[w] = "working"
      /\ status[held[w]] = "pending" /\ status'[held[w]] = "running"
      /\ \A j \in Jobs : j # held[w] => status'[j] = status[j]
      /\ \A v \in Workers : v # w => phase'[v] = phase[v]
      /\ UNCHANGED <<queue, stamped, held, running, stopping>>
  BY DEF HandsInv, Holds
<1>2. TypeOK' /\ OwnerInv'
  BY <1>1 DEF OwnerInv
<1>3. \A i \in 1..Len(queue) : queue[i] \in Jobs /\ queue[i] # held[w]
  BY <1>1 DEF HandsInv
<1>4. QueueInv'
  BY <1>1, <1>3 DEF QueueInv
<1>5. StampInv'
  BY <1>1 DEF StampInv
<1>6. HandsInv'
  BY <1>1, <1>5 DEF HandsInv, Holds, StampInv
<1>7. PlaceInv'
  <2>1. ASSUME NEW k \in Jobs, status'[k] = "pending"
        PROVE \/ \E i \in 1..Len(queue') : queue'[i] = k
              \/ \E v \in Workers : phase'[v] = "got" /\ held'[v] = k
    BY <1>1, <2>1 DEF PlaceInv
  <2>2. ASSUME NEW k \in Jobs, status'[k] = "running", k \notin stamped'
        PROVE \E v \in Workers : phase'[v] = "working" /\ held'[v] = k
    BY <1>1, <2>2 DEF PlaceInv
  <2> QED
    BY <2>1, <2>2 DEF PlaceInv
<1> QED
  BY <1>2, <1>4, <1>5, <1>6, <1>7

(* What Finish and Abandon have in common.                                 *)
LEMMA OverKeeps ==
  ASSUME NEW w \in Workers, JobInv, phase[w] = "working",
         NEW s \in {"running"} \cup Ended, NEW p \in {"none", "polling"},
         status' = [status EXCEPT ![held[w]] = s],
         stamped' = stamped \cup {held[w]},
         phase' = [phase EXCEPT ![w] = p],
         held' = [held EXCEPT ![w] = None],
         cancelled' = cancelled \ {w},
         UNCHANGED <<queue, running, stopping>>
  PROVE  JobInv'
<1> USE DEF JobInv, TypeOK, Ended
<1>1. /\ held[w] \in Jobs /\ status[held[w]] = "running" /\ held[w] \notin stamped
      /\ status'[held[w]] = s /\ phase'[w] = p
      /\ \A j \in Jobs : j # held[w] => status'[j] = status[j]
      /\ \A v \in Workers : v # w => phase'[v] = phase[v] /\ held'[v] = held[v]
  BY DEF HandsInv, Holds
<1>2. TypeOK'
  BY <1>1
<1>3. OwnerInv'
  BY <1>1 DEF OwnerInv
<1>4. \A i \in 1..Len(queue) : queue[i] \in Jobs /\ queue[i] # held[w]
  BY <1>1 DEF QueueInv
<1>5. QueueInv'
  BY <1>1, <1>4 DEF QueueInv
<1>6. StampInv'
  BY <1>1 DEF StampInv
<1>7. \A v \in Workers : (v # w /\ Holds(v)) => held[v] # held[w]
  BY DEF HandsInv, Holds
<1>8. HandsInv'
  BY <1>1, <1>7 DEF HandsInv, Holds
<1>9. PlaceInv'
  <2>1. ASSUME NEW k \in Jobs, status'[k] = "pending"
        PROVE \/ \E i \in 1..Len(queue') : queue'[i] = k
              \/ \E v \in Workers : phase'[v] = "got" /\ held'[v] = k
    BY <1>1, <2>1 DEF PlaceInv
  <2>2. ASSUME NEW k \in Jobs, status'[k] = "running", k \notin stamped'
        PROVE \E v \in Workers : phase'[v] = "working" /\ held'[v] = k
    BY <1>1, <2>2 DEF PlaceInv
  <2> QED
    BY <2>1, <2>2 DEF PlaceInv
<1> QED
  BY <1>2, <1>3, <1>5, <1>6, <1>8, <1>9

LEMMA FinishKeeps ==
  ASSUME NEW w \in Workers, NEW outcome \in Ended, JobInv, Finish(w, outcome) PROVE JobInv'
<1>1. NextPass \in {"none", "polling"}
  BY DEF NextPass
<1> QED
  BY <1>1, OverKeeps DEF Finish

LEMMA AbandonKeeps == ASSUME NEW w \in Workers, JobInv, Abandon(w) PROVE JobInv'
<1>1. held[w] \in Jobs /\ status[held[w]] = "running"
  BY DEF Abandon, JobInv, HandsInv, Holds
<1>2. status' = [status EXCEPT ![held[w]] = "running"]
  BY <1>1 DEF Abandon, JobInv, TypeOK
<1> QED
  BY <1>2, OverKeeps DEF Abandon

LEMMA JobStutterKeeps == JobInv /\ UNCHANGED vars => JobInv'
BY DEF JobInv, vars, jobVars, taskVars, TypeOK, QueueInv, HandsInv, PlaceInv, StampInv, OwnerInv,
       Holds, Ended

LEMMA JobStepKeeps == JobInv /\ [Next]_vars => JobInv'
<1> SUFFICES ASSUME JobInv, [Next]_vars PROVE JobInv'
  OBVIOUS
<1>1. CASE Start
  BY <1>1, StartKeeps
<1>2. CASE StopBegin
  BY <1>2, StopBeginKeeps
<1>3. CASE StopEnd
  BY <1>3, StopEndKeeps
<1>4. CASE \E j \in Jobs : Enqueue(j)
  BY <1>4, EnqueueKeeps
<1>5. CASE \E w \in Workers : WorkerStep(w)
  BY <1>5, GetKeeps, IdleKeeps, BeginKeeps, FinishKeeps, AbandonKeeps DEF WorkerStep
<1>6. CASE UNCHANGED vars
  BY <1>6, JobStutterKeeps
<1> QED
  BY <1>1, <1>2, <1>3, <1>4, <1>5, <1>6 DEF Next

(* The inductive invariant holds throughout.                               *)
THEOREM JobInvariance == Spec => []JobInv
BY JobInitInv, JobStepKeeps, PTL DEF Spec
-----------------------------------------------------------------------------
LEMMA CountPending == JobInv => PendingHeldOnce
<1> SUFFICES ASSUME JobInv, NEW j \in Jobs
             PROVE Cardinality(Queued(j)) + Cardinality(Takers(j))
                     = IF status[j] = "pending" THEN 1 ELSE 0
  BY DEF PendingHeldOnce
<1> USE DEF JobInv, TypeOK
<1>1. DOMAIN queue = 1..Len(queue)
  BY LenProperties
<1>2. CASE \E i \in 1..Len(queue) : queue[i] = j
  <2>1. PICK i \in 1..Len(queue) : queue[i] = j
    BY <1>2
  <2>2. Queued(j) = {i}
    BY <1>1, <2>1 DEF QueueInv, Queued
  <2>3. Takers(j) = {}
    BY <2>1 DEF HandsInv, Takers
  <2>4. status[j] = "pending"
    BY <2>1 DEF QueueInv
  <2>5. Cardinality(Queued(j)) = 1
    BY <2>2, FS_Singleton
  <2>6. Cardinality(Takers(j)) = 0
    BY <2>3, FS_EmptySet
  <2> QED
    BY <2>4, <2>5, <2>6
<1>3. CASE \E w \in Workers : phase[w] = "got" /\ held[w] = j
  <2>1. PICK w \in Workers : phase[w] = "got" /\ held[w] = j
    BY <1>3
  <2>2. Queued(j) = {}
    BY <1>1, <2>1 DEF HandsInv, Queued
  <2>3. Takers(j) = {w}
    BY <2>1 DEF HandsInv, Holds, Takers
  <2>4. status[j] = "pending"
    BY <2>1 DEF HandsInv
  <2>5. Cardinality(Takers(j)) = 1
    BY <2>3, FS_Singleton
  <2>6. Cardinality(Queued(j)) = 0
    BY <2>2, FS_EmptySet
  <2> QED
    BY <2>4, <2>5, <2>6
<1>4. CASE /\ ~\E i \in 1..Len(queue) : queue[i] = j
           /\ ~\E w \in Workers : phase[w] = "got" /\ held[w] = j
  <2>1. Queued(j) = {} /\ Takers(j) = {} /\ status[j] # "pending"
    BY <1>1, <1>4 DEF PlaceInv, Queued, Takers
  <2> QED
    BY <2>1, FS_EmptySet
<1> QED
  BY <1>2, <1>3, <1>4

LEMMA CountRunning == JobInv => StampMeansOver
<1> SUFFICES ASSUME JobInv, NEW j \in Jobs
             PROVE /\ (j \in stamped \/ status[j] \in {"absent", "pending"}) => Doers(j) = {}
                   /\ (status[j] = "running" /\ j \notin stamped) => Cardinality(Doers(j)) = 1
                   /\ status[j] \in Ended => j \in stamped
  BY DEF StampMeansOver
<1> USE DEF JobInv
<1>1. (j \in stamped \/ status[j] \in {"absent", "pending"}) => Doers(j) = {}
  BY DEF HandsInv, Doers
<1>2. ASSUME status[j] = "running", j \notin stamped PROVE Cardinality(Doers(j)) = 1
  <2>1. PICK w \in Workers : phase[w] = "working" /\ held[w] = j
    BY <1>2 DEF PlaceInv
  <2>2. Doers(j) = {w}
    BY <2>1 DEF HandsInv, Holds, Doers
  <2> QED
    BY <2>2, FS_Singleton
<1>3. status[j] \in Ended => j \in stamped
  BY DEF StampInv
<1> QED
  BY <1>1, <1>2, <1>3

(* Type correctness.                                                       *)
THEOREM JobTypeCorrect == Spec => []TypeOK
<1>1. JobInv => TypeOK
  BY DEF JobInv
<1> QED
  BY <1>1, JobInvariance, PTL

(* A pending job is in exactly one place: no start(), stop(), time-out or  *)
(* cancellation loses or duplicates one.                                   *)
THEOREM PendingOnce == Spec => []PendingHeldOnce
BY CountPending, JobInvariance, PTL

(* A started job has exactly one worker until it is stamped, and none from *)
(* then on.                                                                *)
THEOREM StampIsFinal == Spec => []StampMeansOver
BY CountRunning, JobInvariance, PTL

(* A job is run at most once: its status only moves forward.               *)
THEOREM RunsOnce == Spec => NeverRunAgain
<1>1. JobInv /\ [Next]_vars => [\A j \in Jobs : status'[j] # status[j] => Rank(status'[j]) > Rank(status[j])]_vars
  <2> SUFFICES ASSUME JobInv, Next
               PROVE \A j \in Jobs : status'[j] # status[j] => Rank(status'[j]) > Rank(status[j])
    BY DEF vars, jobVars
  <2> USE DEF JobInv, TypeOK
  <2>1. CASE Start \/ StopBegin \/ StopEnd
    BY <2>1 DEF Start, StopBegin, StopEnd, jobVars
  <2>2. ASSUME NEW j \in Jobs, Enqueue(j)
        PROVE \A k \in Jobs : status'[k] # status[k] => Rank(status'[k]) > Rank(status[k])
    BY <2>2 DEF Enqueue, Rank
  <2>3. ASSUME NEW w \in Workers, WorkerStep(w)
        PROVE \A k \in Jobs : status'[k] # status[k] => Rank(status'[k]) > Rank(status[k])
    <3>1. CASE Get(w) \/ TimeOut(w) \/ Break(w) \/ Abandon(w)
      BY <3>1 DEF Get, TimeOut, Break, Abandon, jobVars
    <3>2. CASE Begin(w)
      BY <3>2 DEF Begin, HandsInv, Holds, Rank
    <3>3. ASSUME NEW outcome \in Ended, Finish(w, outcome)
          PROVE \A k \in Jobs : status'[k] # status[k] => Rank(status'[k]) > Rank(status[k])
      BY <3>3 DEF Finish, HandsInv, Holds, Rank, Ended
    <3> QED
      BY <2>3, <3>1, <3>2, <3>3 DEF WorkerStep
  <2> QED
    BY <2>1, <2>2, <2>3 DEF Next
<1> QED
  BY <1>1, JobInvariance, PTL DEF Spec, NeverRunAgain
=============================================================================
