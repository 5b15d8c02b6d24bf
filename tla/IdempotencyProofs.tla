-------------------------- MODULE IdempotencyProofs --------------------------
(***************************************************************************)
(* Proofs about Idempotency: with either store, any number of processes,   *)
(* keys and attempts, the lock of a key names the request its process      *)
(* works on; and with one process the middleware keeps the promise of      *)
(* AtMostOnce.                                                             *)
(***************************************************************************)
EXTENDS Idempotency, TLAPS

(* A request that was received has a process.                              *)
ServedInv == \A r \in Requests : phase[r] # "new" => at[r] \in Procs

Inv == TypeOK /\ ServedInv /\ LockIsHeld
-----------------------------------------------------------------------------
LEMMA Keyed == \A r \in Requests : KeyOf[r] \in Keys /\ r # None
BY IdempotencyAssumption

LEMMA InitInv == Init => Inv
<1> SUFFICES ASSUME Init PROVE Inv
  OBVIOUS
<1> USE DEF Init
<1>1. TypeOK
  <2>1. /\ at \in [Requests -> Procs \cup {None}] /\ seen \in [Requests -> Requests \cup {None}]
        /\ answer \in [Requests -> Requests \cup {None, Conflict, Error}]
        /\ phase \in [Requests -> {"new", "fetched", "done", "lost"} \cup Working]
    OBVIOUS
  <2>2. /\ saved \in [Stores -> [Keys -> Requests \cup {None}]]
        /\ lock \in [Procs -> [Keys -> Requests \cup {None}]]
    OBVIOUS
  <2> QED
    BY <2>1, <2>2 DEF TypeOK
<1>2. ServedInv /\ LockIsHeld
  BY Keyed DEF ServedInv, LockIsHeld, Working
<1> QED
  BY <1>1, <1>2 DEF Inv

(* dispatch() up to the handler, for a request no lock names.              *)
LEMMA AdmitKeeps ==
  ASSUME Inv, NEW r \in Requests, NEW p \in Procs, NEW found \in Requests \cup {None},
         phase[r] \in {"new", "fetched"}, Admit(r, p, found),
         stale' \subseteq Keys, UNCHANGED <<seen, saved, effect, redis, forgotten>>
  PROVE  Inv'
<1> USE DEF Inv
<1>1. /\ KeyOf[r] \in Keys /\ r # None /\ at' = [at EXCEPT ![r] = p]
      /\ \A q \in Procs : lock[q][KeyOf[r]] # r
  <2>1. KeyOf[r] \in Keys /\ r # None
    BY Keyed
  <2>2. at' = [at EXCEPT ![r] = p]
    BY DEF Admit
  <2>3. \A q \in Procs : lock[q][KeyOf[r]] # r
    BY DEF LockIsHeld, Working
  <2> QED
    BY <2>1, <2>2, <2>3
<1>2. CASE /\ lock[p][KeyOf[r]] = None
           /\ lock' = [lock EXCEPT ![p][KeyOf[r]] = r]
           /\ phase' = [phase EXCEPT ![r] = "running"]
           /\ UNCHANGED answer
  <2>1. TypeOK'
    BY <1>1, <1>2 DEF TypeOK, Working
  <2>2. ServedInv'
    BY <1>1, <1>2 DEF TypeOK, ServedInv
  <2>3. LockIsHeld'
    BY <1>1, <1>2, Keyed DEF TypeOK, LockIsHeld, Working
  <2> QED
    BY <2>1, <2>2, <2>3
<1>3. CASE \E a \in Requests \cup {Conflict} : Reply(r, a) /\ UNCHANGED lock
  <2>1. TypeOK'
    BY <1>1, <1>3 DEF TypeOK, Reply, Working
  <2>2. ServedInv'
    BY <1>1, <1>3 DEF TypeOK, Reply, ServedInv
  <2>3. LockIsHeld'
    BY <1>1, <1>3, Keyed DEF TypeOK, Reply, LockIsHeld, Working
  <2> QED
    BY <2>1, <2>2, <2>3
<1> QED
  BY <1>2, <1>3 DEF Admit, Acquire

LEMMA ReceiveKeeps ==
  ASSUME Inv, NEW r \in Requests, NEW p \in Procs, ReceiveMemory(r, p) PROVE Inv'
<1>1. Saved(p, KeyOf[r]) \in Requests \cup {None}
  BY Keyed DEF Inv, TypeOK, Saved, StoreOf, Stores
<1> QED
  BY <1>1, AdmitKeeps DEF ReceiveMemory, history, Inv, TypeOK

LEMMA FetchKeeps ==
  ASSUME Inv, NEW r \in Requests, NEW p \in Procs, Fetch(r, p) PROVE Inv'
<1> USE DEF Inv, Fetch
<1>1. Saved(p, KeyOf[r]) \in Requests \cup {None}
  BY Keyed DEF TypeOK, Saved, StoreOf, Stores
<1>2. TypeOK'
  BY <1>1 DEF TypeOK, history, Working
<1>3. ServedInv'
  BY DEF TypeOK, ServedInv
<1>4. LockIsHeld'
  BY Keyed DEF TypeOK, LockIsHeld, Working
<1> QED
  BY <1>2, <1>3, <1>4

LEMMA ResumeFetchedKeeps == ASSUME Inv, NEW r \in Requests, ResumeFetched(r) PROVE Inv'
<1>1. at[r] \in Procs /\ seen[r] \in Requests \cup {None}
  BY DEF Inv, ServedInv, TypeOK, ResumeFetched
<1>2. stale' \subseteq Keys
  BY Keyed DEF Inv, TypeOK, ResumeFetched
<1> QED
  BY <1>1, <1>2, AdmitKeeps DEF ResumeFetched

LEMMA FetchFailsKeeps == ASSUME Inv, NEW r \in Requests, FetchFails(r) PROVE Inv'
<1> USE DEF Inv, FetchFails, Reply, history
<1>1. TypeOK' /\ ServedInv'
  BY DEF TypeOK, ServedInv, Working
<1>2. LockIsHeld'
  BY DEF TypeOK, LockIsHeld, Working
<1> QED
  BY <1>1, <1>2

(* Steps of a request that keeps its lock.                                 *)
LEMMA WorkKeeps ==
  ASSUME Inv, NEW r \in Requests, Handle(r) \/ SaveRedis(r) PROVE Inv'
<1> USE DEF Inv, Handle, SaveRedis
<1>1. /\ phase[r] \in Working /\ UNCHANGED <<at, seen, lock, answer, redis, history>>
      /\ \E s \in Working : phase' = [phase EXCEPT ![r] = s]
  BY DEF Working
<1>2. StoreOf(at[r]) \in Stores /\ KeyOf[r] \in Keys
  BY <1>1, Keyed DEF ServedInv, StoreOf, Stores, Working
<1>3. effect' \subseteq Requests /\ saved' \in [Stores -> [Keys -> Requests \cup {None}]]
  BY <1>2 DEF TypeOK, Store
<1>4. TypeOK'
  BY <1>1, <1>3 DEF TypeOK, history
<1>5. ServedInv'
  BY <1>1 DEF TypeOK, ServedInv, Working
<1>6. LockIsHeld'
  BY <1>1 DEF TypeOK, LockIsHeld
<1> QED
  BY <1>4, <1>5, <1>6

(* Steps that end with release().                                          *)
LEMMA ReleaseKeeps ==
  ASSUME Inv, NEW r \in Requests, SaveMemory(r) \/ ResumeSaved(r) \/ Fail(r) PROVE Inv'
<1> USE DEF Inv, SaveMemory, ResumeSaved, Fail
<1>1. /\ phase[r] \in Working /\ Release(r) /\ phase' = [phase EXCEPT ![r] = "done"]
      /\ UNCHANGED <<at, seen, effect, redis, stale>>
      /\ \E a \in {r, Error} : answer' = [answer EXCEPT ![r] = a]
  <2>1. CASE SaveMemory(r) \/ ResumeSaved(r)
    BY <2>1 DEF Working, Reply, history
  <2>2. CASE Fail(r)
    BY <2>2 DEF Reply
  <2> QED
    BY <2>1, <2>2
<1>2. at[r] \in Procs /\ StoreOf(at[r]) \in Stores /\ KeyOf[r] \in Keys
  BY <1>1, Keyed DEF ServedInv, StoreOf, Stores, Working
<1>3. forgotten' \subseteq Keys /\ saved' \in [Stores -> [Keys -> Requests \cup {None}]]
  <2>1. CASE SaveMemory(r)
    <3>1. saved' = [saved EXCEPT ![StoreOf(at[r])][KeyOf[r]] = r] /\ forgotten' = forgotten
      BY <2>1 DEF Store, history
    <3> QED
      BY <1>2, <3>1 DEF TypeOK
  <2>2. CASE ResumeSaved(r)
    BY <2>2 DEF TypeOK, history
  <2>3. CASE Fail(r)
    BY <1>2, <2>3 DEF TypeOK
  <2> QED
    BY <2>1, <2>2, <2>3
<1>4. /\ lock' \in [Procs -> [Keys -> Requests \cup {None}]]
      /\ lock'[at[r]][KeyOf[r]] = None
      /\ \A p \in Procs, k \in Keys : (p # at[r] \/ k # KeyOf[r]) => lock'[p][k] = lock[p][k]
  BY <1>1, <1>2 DEF Release, TypeOK
<1>5. TypeOK'
  BY <1>1, <1>3, <1>4 DEF TypeOK
<1>6. ServedInv'
  BY <1>1, <1>2 DEF TypeOK, ServedInv
<1>7. LockIsHeld'
  <2> SUFFICES ASSUME NEW p \in Procs, NEW q \in Requests
               PROVE  lock'[p][KeyOf[q]] = q <=> (phase'[q] \in Working /\ at[q] = p)
    BY <1>1 DEF LockIsHeld
  <2>1. lock[at[r]][KeyOf[r]] = r
    BY <1>1, <1>2 DEF LockIsHeld
  <2>2. CASE q = r
    <3>1. phase'[q] \notin Working
      BY <1>1, <2>2 DEF TypeOK, Working
    <3>2. lock'[p][KeyOf[q]] # q
      BY <1>1, <1>2, <1>4, <2>2, Keyed DEF LockIsHeld
    <3> QED
      BY <3>1, <3>2
  <2>3. CASE q # r
    <3>1. phase'[q] = phase[q] /\ KeyOf[q] \in Keys /\ q # None
      BY <1>1, <2>3, Keyed DEF TypeOK
    <3>2. lock'[p][KeyOf[q]] = q <=> lock[p][KeyOf[q]] = q
      BY <1>4, <2>1, <2>3, <3>1
    <3> QED
      BY <3>1, <3>2 DEF LockIsHeld
  <2> QED
    BY <2>2, <2>3
<1> QED
  BY <1>5, <1>6, <1>7

LEMMA ExpireKeeps ==
  ASSUME Inv, NEW s \in Stores, NEW k \in Keys, Expire(s, k) PROVE Inv'
<1> USE DEF Inv, Expire
<1>1. TypeOK'
  BY DEF TypeOK
<1>2. ServedInv' /\ LockIsHeld'
  BY DEF ServedInv, LockIsHeld
<1> QED
  BY <1>1, <1>2

LEMMA CrashKeeps == ASSUME Inv, NEW p \in Procs, Crash(p) PROVE Inv'
<1> USE DEF Inv, Crash
<1>1. /\ \A r \in Requests : phase'[r] = IF at[r] = p /\ phase[r] \notin {"new", "done"}
                                        THEN "lost" ELSE phase[r]
      /\ phase' \in [Requests -> {"new", "fetched", "done", "lost"} \cup Working]
      /\ UNCHANGED <<at, seen, effect, answer, redis, stale>>
  BY DEF TypeOK
<1>2. /\ lock' \in [Procs -> [Keys -> Requests \cup {None}]]
      /\ \A k \in Keys : lock'[p][k] = None
      /\ \A q \in Procs : q # p => lock'[q] = lock[q]
  BY DEF TypeOK
<1>3. saved' \in [Stores -> [Keys -> Requests \cup {None}]] /\ forgotten' \subseteq Keys
  BY DEF TypeOK, Stores
<1>4. TypeOK'
  BY <1>1, <1>2, <1>3 DEF TypeOK
<1>5. ServedInv'
  BY <1>1 DEF ServedInv
<1>6. LockIsHeld'
  <2> SUFFICES ASSUME NEW q \in Procs, NEW r \in Requests
               PROVE  lock'[q][KeyOf[r]] = r <=> (phase'[r] \in Working /\ at[r] = q)
    BY <1>1 DEF LockIsHeld
  <2>1. CASE q = p
    <3>1. lock'[q][KeyOf[r]] # r
      BY <1>2, <2>1, Keyed
    <3>2. ~(phase'[r] \in Working /\ at[r] = q)
      BY <1>1, <2>1 DEF Working
    <3> QED
      BY <3>1, <3>2
  <2>2. CASE q # p
    BY <1>1, <1>2, <2>2 DEF LockIsHeld, Working
  <2> QED
    BY <2>1, <2>2
<1> QED
  BY <1>4, <1>5, <1>6

LEMMA StutterKeeps == Inv /\ UNCHANGED vars => Inv'
BY DEF Inv, vars, history, TypeOK, ServedInv, LockIsHeld

LEMMA StepKeeps == Inv /\ [Next]_vars => Inv'
<1> SUFFICES ASSUME Inv, [Next]_vars PROVE Inv'
  OBVIOUS
<1>1. ASSUME NEW r \in Requests, Serve(r) PROVE Inv'
  BY <1>1, ReceiveKeeps, FetchKeeps, ResumeFetchedKeeps, FetchFailsKeeps, WorkKeeps, ReleaseKeeps DEF Serve
<1>2. CASE \E s \in Stores, k \in Keys : Expire(s, k)
  BY <1>2, ExpireKeeps
<1>3. CASE \E p \in Procs : Crash(p)
  BY <1>3, CrashKeeps
<1>4. CASE UNCHANGED vars
  BY <1>4, StutterKeeps
<1> QED
  BY <1>1, <1>2, <1>3, <1>4 DEF Next

(* The inductive invariant holds throughout.                               *)
THEOREM Invariance == Spec => []Inv
BY InitInv, StepKeeps, PTL DEF Spec
-----------------------------------------------------------------------------
(* Type correctness.                                                       *)
THEOREM TypeCorrect == Spec => []TypeOK
<1>1. Inv => TypeOK
  BY DEF Inv
<1> QED
  BY <1>1, Invariance, PTL

(* The lock of a key names exactly the request its process works on, with  *)
(* any number of processes: none is freed by a request that was refused,   *)
(* and none outlives its request, however it ends.                         *)
THEOREM LockNamesItsHolder == Spec => []LockIsHeld
<1>1. Inv => LockIsHeld
  BY DEF Inv
<1> QED
  BY <1>1, Invariance, PTL
-----------------------------------------------------------------------------
(* What one process p knows of the work that was done: unless the key was  *)
(* forgotten, the work of every request is being recorded or is on record, *)
(* nothing is redone meanwhile, and every record is of work on its key.    *)
Unsure == forgotten \cup stale

ActedInv ==
  \A r \in Requests :
    /\ r \in effect => phase[r] \in {"acted", "saving", "done", "lost"}
    /\ phase[r] \in {"acted", "saving"} => r \in effect
    /\ phase[r] # "done" => answer[r] = None

KnownInv(p) ==
  \A q \in effect : phase[q] = "acted" \/ Saved(p, KeyOf[q]) # None \/ KeyOf[q] \in Unsure

FirstInv ==
  \A r \in Requests, q \in effect :
    phase[r] = "running" /\ KeyOf[q] = KeyOf[r] => KeyOf[r] \in Unsure

SameKeyOf(k) == {q \in Requests : KeyOf[q] = k}

RecordInv ==
  /\ \A s \in Stores, k \in Keys : saved[s][k] # None => saved[s][k] \in SameKeyOf(k) \cap effect
  /\ \A r \in Requests : seen[r] # None => seen[r] \in SameKeyOf(KeyOf[r]) \cap effect

Promise(p) == ActedInv /\ KnownInv(p) /\ FirstInv /\ RecordInv

LEMMA InitPromise == ASSUME NEW p, Procs = {p}, Init PROVE Promise(p) /\ Ideal!Init
<1>1. Promise(p)
  BY DEF Init, Promise, ActedInv, KnownInv, FirstInv, RecordInv
<1>2. Ideal!Init
  BY DEF Init, Ideal!Init
<1> QED
  BY <1>1, <1>2

(* dispatch() up to the handler maps to an answer, a refusal, or to        *)
(* nothing but the doubt about a key.                                      *)
LEMMA AdmitPromise ==
  ASSUME NEW p, Procs = {p}, Inv, Promise(p), NEW r \in Requests,
         NEW found \in Requests \cup {None}, phase[r] \in {"new", "fetched"},
         Admit(r, p, found), UNCHANGED <<seen, saved, effect, redis, forgotten>>,
         found # None => found \in SameKeyOf(KeyOf[r]) \cap effect,
         stale' \in {stale, stale \cup {KeyOf[r]}},
         phase'[r] # "running" => stale' = stale,
         found = None /\ Saved(p, KeyOf[r]) # None => (phase'[r] = "running" => KeyOf[r] \in stale')
  PROVE  Promise(p)' /\ (Ideal!Next \/ UNCHANGED <<effect, answer, forgotten \cup stale>>)
<1> USE DEF Inv, Promise
<1>1. KeyOf[r] \in Keys /\ r # None /\ answer[r] = None /\ r \notin effect /\ effect \subseteq Requests
  BY Keyed DEF ActedInv, TypeOK
<1>2. RecordInv'
  BY DEF RecordInv, SameKeyOf
<1>3. CASE /\ found = None /\ lock[p][KeyOf[r]] = None
           /\ phase' = [phase EXCEPT ![r] = "running"]
           /\ UNCHANGED answer
  <2>1. ActedInv'
    BY <1>1, <1>3 DEF ActedInv, TypeOK
  <2>2. KnownInv(p)'
    BY <1>1, <1>3 DEF KnownInv, TypeOK, Unsure, Saved, StoreOf
  <2>3. FirstInv'
    <3> SUFFICES ASSUME NEW x \in Requests, NEW q \in effect, phase'[x] = "running", KeyOf[q] = KeyOf[x]
                 PROVE  KeyOf[x] \in Unsure'
      BY DEF FirstInv
    <3>1. CASE x # r
      BY <1>3, <3>1 DEF FirstInv, TypeOK, Unsure
    <3>2. CASE x = r
      <4>1. phase[q] # "acted"
        <5> SUFFICES ASSUME phase[q] = "acted" PROVE FALSE
          OBVIOUS
        <5>1. at[q] = p /\ q \in Requests
          BY <1>1 DEF ServedInv
        <5>2. lock[p][KeyOf[q]] = q
          BY <5>1 DEF LockIsHeld, Working
        <5> QED
          BY <1>3, <3>2, <5>1, <5>2, Keyed
      <4>2. Saved(p, KeyOf[r]) # None \/ KeyOf[r] \in Unsure
        BY <3>2, <4>1 DEF KnownInv
      <4>3. phase'[r] = "running"
        BY <1>3 DEF TypeOK
      <4> QED
        BY <1>3, <3>2, <4>2, <4>3 DEF Unsure
    <3> QED
      BY <3>1, <3>2
  <2>4. Ideal!Next
    BY <1>3 DEF Ideal!Next, Ideal!Forget
  <2> QED
    BY <1>2, <2>1, <2>2, <2>3, <2>4
<1>4. ASSUME NEW a \in (SameKeyOf(KeyOf[r]) \cap effect) \cup {Conflict}, Reply(r, a)
      PROVE  Promise(p)' /\ Ideal!Next
  <2>0. phase' = [phase EXCEPT ![r] = "done"] /\ answer' = [answer EXCEPT ![r] = a] /\ stale' = stale
    BY <1>4 DEF Reply, TypeOK
  <2>1. ActedInv'
    BY <1>1, <2>0 DEF ActedInv, TypeOK
  <2>2. KnownInv(p)' /\ FirstInv'
    BY <1>1, <2>0 DEF KnownInv, FirstInv, TypeOK, Unsure, Saved, StoreOf
  <2>3. Ideal!Answer(r) \/ Ideal!Refuse(r)
    BY <1>1, <2>0 DEF Ideal!Answer, Ideal!Refuse, Ideal!SameKey, SameKeyOf
  <2> QED
    BY <1>2, <2>1, <2>2, <2>3 DEF Ideal!Next
<1> QED
  BY <1>3, <1>4 DEF Admit, Acquire

LEMMA ReceivePromise ==
  ASSUME NEW p, Procs = {p}, Inv, Promise(p), NEW r \in Requests, ReceiveMemory(r, p)
  PROVE  Promise(p)' /\ (Ideal!Next \/ UNCHANGED <<effect, answer, forgotten \cup stale>>)
<1>1. Saved(p, KeyOf[r]) \in Requests \cup {None}
  BY Keyed DEF Inv, TypeOK, Saved, StoreOf, Stores
<1>2. Saved(p, KeyOf[r]) # None => Saved(p, KeyOf[r]) \in SameKeyOf(KeyOf[r]) \cap effect
  BY Keyed DEF Promise, RecordInv, Saved, StoreOf, Stores
<1> QED
  BY <1>1, <1>2, AdmitPromise DEF ReceiveMemory, history

LEMMA ResumeFetchedPromise ==
  ASSUME NEW p, Procs = {p}, Inv, Promise(p), NEW r \in Requests, ResumeFetched(r)
  PROVE  Promise(p)' /\ (Ideal!Next \/ UNCHANGED <<effect, answer, forgotten \cup stale>>)
<1>1. at[r] = p /\ seen[r] \in Requests \cup {None} /\ phase[r] = "fetched"
  BY DEF Inv, ServedInv, TypeOK, ResumeFetched
<1>2. seen[r] # None => seen[r] \in SameKeyOf(KeyOf[r]) \cap effect
  BY DEF Promise, RecordInv
<1> QED
  BY <1>1, <1>2, AdmitPromise DEF ResumeFetched

LEMMA FetchFailsPromise ==
  ASSUME NEW p, Procs = {p}, Inv, Promise(p), NEW r \in Requests, FetchFails(r)
  PROVE  Promise(p)' /\ Ideal!Next
<1> USE DEF Inv, Promise, FetchFails, Reply, history
<1>1. answer[r] = None /\ r \notin effect
  BY DEF ActedInv
<1>2. ActedInv' /\ RecordInv'
  BY <1>1 DEF ActedInv, RecordInv, SameKeyOf, TypeOK
<1>3. KnownInv(p)' /\ FirstInv'
  BY <1>1 DEF KnownInv, FirstInv, TypeOK, Unsure, Saved, StoreOf
<1>4. Ideal!Refuse(r)
  BY <1>1 DEF Ideal!Refuse
<1> QED
  BY <1>2, <1>3, <1>4 DEF Ideal!Next

LEMMA FetchPromise ==
  ASSUME NEW p, Procs = {p}, Inv, Promise(p), NEW r \in Requests, Fetch(r, p)
  PROVE  Promise(p)' /\ UNCHANGED <<effect, answer, forgotten \cup stale>>
<1> USE DEF Inv, Promise, Fetch, history
<1>1. effect \subseteq Requests /\ r \notin effect
  BY DEF TypeOK, ActedInv
<1>2. ActedInv'
  BY <1>1 DEF ActedInv, TypeOK
<1>3. KnownInv(p)' /\ FirstInv'
  BY <1>1 DEF KnownInv, FirstInv, TypeOK, Unsure, Saved, StoreOf
<1>4. Saved(p, KeyOf[r]) # None => Saved(p, KeyOf[r]) \in SameKeyOf(KeyOf[r]) \cap effect
  BY Keyed DEF RecordInv, Saved, StoreOf, Stores
<1>5. RecordInv'
  BY <1>4 DEF RecordInv, SameKeyOf, TypeOK
<1> QED
  BY <1>2, <1>3, <1>5

LEMMA HandlePromise ==
  ASSUME NEW p, Procs = {p}, Inv, Promise(p), NEW r \in Requests, Handle(r)
  PROVE  Promise(p)' /\ Ideal!Next
<1> USE DEF Inv, Promise, Handle, history
<1>1. effect \subseteq Requests /\ r \notin effect /\ at[r] = p /\ lock[p][KeyOf[r]] = r
  BY DEF TypeOK, ActedInv, ServedInv, LockIsHeld, Working
<1>2. ActedInv'
  BY <1>1 DEF ActedInv, TypeOK
<1>3. KnownInv(p)'
  BY <1>1 DEF KnownInv, TypeOK, Unsure, Saved, StoreOf
<1>4. FirstInv'
  <2> SUFFICES ASSUME NEW x \in Requests, NEW q \in effect', phase'[x] = "running", KeyOf[q] = KeyOf[x]
               PROVE  KeyOf[x] \in Unsure'
    BY DEF FirstInv
  <2>1. x # r /\ phase[x] = "running" /\ at[x] = p
    BY DEF TypeOK, ServedInv
  <2>2. q # r
    BY <1>1, <2>1 DEF LockIsHeld, Working
  <2> QED
    BY <2>1, <2>2 DEF FirstInv, Unsure
<1>5. RecordInv'
  BY DEF RecordInv, SameKeyOf
<1>6. Ideal!Act(r)
  BY <1>1 DEF Ideal!Act, Ideal!SameKey, FirstInv, Unsure
<1> QED
  BY <1>2, <1>3, <1>4, <1>5, <1>6 DEF Ideal!Next

(* The work of r goes on record: every other record stays.                 *)
LEMMA StorePromise ==
  ASSUME NEW p, Procs = {p}, Inv, Promise(p), NEW r \in Requests, phase[r] = "acted", Store(r),
         UNCHANGED <<seen, effect, redis, forgotten, stale>>,
         NEW s \in {"saving", "done"}, phase' = [phase EXCEPT ![r] = s],
         answer' \in {answer, [answer EXCEPT ![r] = r]}, s = "saving" => answer' = answer
  PROVE  Promise(p)'
<1> USE DEF Inv, Promise
<1>1. r \in effect /\ at[r] = p /\ KeyOf[r] \in Keys /\ r # None /\ StoreOf(p) \in Stores
  BY Keyed DEF ActedInv, ServedInv, StoreOf, Stores
<1>2. saved' = [saved EXCEPT ![StoreOf(p)][KeyOf[r]] = r]
  BY <1>1 DEF Store
<1>3. ActedInv'
  BY <1>1 DEF ActedInv, TypeOK
<1>4. KnownInv(p)'
  <2> SUFFICES ASSUME NEW q \in effect
               PROVE  phase'[q] = "acted" \/ saved'[StoreOf(p)][KeyOf[q]] # None \/ KeyOf[q] \in Unsure
    BY DEF KnownInv, Saved, StoreOf, Unsure
  <2>1. q \in Requests /\ KeyOf[q] \in Keys
    BY Keyed DEF TypeOK
  <2>2. CASE KeyOf[q] = KeyOf[r]
    BY <1>1, <1>2, <2>2 DEF TypeOK
  <2>3. CASE KeyOf[q] # KeyOf[r]
    BY <1>1, <1>2, <2>1, <2>3 DEF KnownInv, Saved, TypeOK
  <2> QED
    BY <2>2, <2>3
<1>5. FirstInv'
  BY <1>1 DEF FirstInv, TypeOK, Unsure
<1>6. RecordInv'
  BY <1>1, <1>2 DEF RecordInv, SameKeyOf, TypeOK
<1> QED
  BY <1>3, <1>4, <1>5, <1>6

LEMMA SavePromise ==
  ASSUME NEW p, Procs = {p}, Inv, Promise(p), NEW r \in Requests, SaveMemory(r) \/ SaveRedis(r)
  PROVE  Promise(p)' /\ (Ideal!Next \/ UNCHANGED <<effect, answer, forgotten \cup stale>>)
<1>1. CASE SaveMemory(r)
  <2>1. Promise(p)'
    BY <1>1, StorePromise DEF SaveMemory, Reply, history
  <2>2. r \in effect /\ answer[r] = None
    BY <1>1 DEF SaveMemory, Promise, ActedInv
  <2>3. Ideal!Answer(r)
    BY <1>1, <2>2 DEF SaveMemory, Reply, history, Ideal!Answer, Ideal!SameKey
  <2> QED
    BY <2>1, <2>3 DEF Ideal!Next
<1>2. CASE SaveRedis(r)
  BY <1>2, StorePromise DEF SaveRedis, history
<1> QED
  BY <1>1, <1>2

LEMMA ResumeSavedPromise ==
  ASSUME NEW p, Procs = {p}, Inv, Promise(p), NEW r \in Requests, ResumeSaved(r)
  PROVE  Promise(p)' /\ Ideal!Next
<1> USE DEF Inv, Promise, ResumeSaved, Reply, history
<1>1. r \in effect /\ answer[r] = None
  BY DEF ActedInv
<1>2. ActedInv' /\ RecordInv'
  BY <1>1 DEF ActedInv, RecordInv, SameKeyOf, TypeOK
<1>3. KnownInv(p)' /\ FirstInv'
  BY DEF KnownInv, FirstInv, TypeOK, Unsure, Saved, StoreOf
<1>4. Ideal!Answer(r)
  BY <1>1 DEF Ideal!Answer, Ideal!SameKey
<1> QED
  BY <1>2, <1>3, <1>4 DEF Ideal!Next

LEMMA FailPromise ==
  ASSUME NEW p, Procs = {p}, Inv, Promise(p), NEW r \in Requests, Fail(r)
  PROVE  Promise(p)' /\ Ideal!Next
<1> USE DEF Inv, Promise, Fail, Reply
<1>1. answer[r] = None
  BY DEF ActedInv, Working
<1>2. ActedInv' /\ RecordInv'
  <2>1. r \in effect => phase'[r] = "done"
    BY DEF TypeOK
  <2> QED
    BY <2>1 DEF ActedInv, RecordInv, SameKeyOf, TypeOK
<1>3. KnownInv(p)' /\ FirstInv'
  BY DEF KnownInv, FirstInv, TypeOK, Unsure, Saved, StoreOf
<1>4. Ideal!Refuse(r)
  BY <1>1 DEF Ideal!Refuse
<1> QED
  BY <1>2, <1>3, <1>4 DEF Ideal!Next

LEMMA ExpirePromise ==
  ASSUME NEW p, Procs = {p}, Inv, Promise(p), NEW s \in Stores, NEW k \in Keys, Expire(s, k)
  PROVE  Promise(p)' /\ Ideal!Next
<1> USE DEF Inv, Promise, Expire
<1>1. ActedInv' /\ FirstInv'
  BY DEF ActedInv, FirstInv, Unsure
<1>2. KnownInv(p)'
  <2> SUFFICES ASSUME NEW q \in effect
               PROVE  phase[q] = "acted" \/ saved'[StoreOf(p)][KeyOf[q]] # None \/ KeyOf[q] \in Unsure'
    BY DEF KnownInv, Saved, StoreOf
  <2>1. KeyOf[q] \in Keys /\ StoreOf(p) \in Stores
    BY Keyed DEF TypeOK, StoreOf, Stores
  <2>2. CASE KeyOf[q] = k
    BY <2>2 DEF Unsure
  <2>3. CASE KeyOf[q] # k
    BY <2>1, <2>3 DEF KnownInv, Saved, Unsure, TypeOK
  <2> QED
    BY <2>2, <2>3
<1>3. RecordInv'
  BY DEF RecordInv, SameKeyOf, TypeOK
<1>4. Ideal!Forget
  BY DEF Ideal!Forget
<1> QED
  BY <1>1, <1>2, <1>3, <1>4 DEF Ideal!Next

LEMMA CrashPromise ==
  ASSUME NEW p, Procs = {p}, Inv, Promise(p), Crash(p)
  PROVE  Promise(p)' /\ Ideal!Next
<1> USE DEF Inv, Promise, Crash
<1>1. /\ \A r \in Requests : phase'[r] = IF at[r] = p /\ phase[r] \notin {"new", "done"}
                                        THEN "lost" ELSE phase[r]
      /\ \A r \in Requests : at[r] = p /\ phase[r] = "acted" => KeyOf[r] \in forgotten'
      /\ forgotten \subseteq forgotten' /\ effect \subseteq Requests
      /\ UNCHANGED <<at, seen, effect, answer, redis, stale>>
  BY Keyed DEF TypeOK
<1>2. ActedInv'
  BY <1>1 DEF ActedInv
<1>3. FirstInv'
  BY <1>1 DEF FirstInv, Unsure
<1>4. KnownInv(p)'
  <2> SUFFICES ASSUME NEW q \in effect
               PROVE  Saved(p, KeyOf[q])' # None \/ KeyOf[q] \in Unsure'
    BY DEF KnownInv
  <2>1. q \in Requests /\ KeyOf[q] \in Keys /\ (phase[q] = "acted" => at[q] = p)
    BY <1>1, Keyed DEF ServedInv
  <2>2. CASE KeyOf[q] \in Unsure
    BY <1>1, <2>2 DEF Unsure
  <2>3. CASE phase[q] = "acted"
    BY <1>1, <2>1, <2>3 DEF Unsure
  <2>4. CASE Saved(p, KeyOf[q]) # None
    <3>1. CASE redis
      BY <1>1, <2>4, <3>1 DEF Saved, StoreOf
    <3>2. CASE ~redis
      BY <2>1, <2>4, <3>2 DEF Unsure
    <3> QED
      BY <3>1, <3>2
  <2> QED
    BY <2>2, <2>3, <2>4 DEF KnownInv
<1>5. RecordInv'
  BY <1>1 DEF RecordInv, SameKeyOf, TypeOK
<1>6. Ideal!Forget
  BY <1>1 DEF Ideal!Forget
<1> QED
  BY <1>2, <1>3, <1>4, <1>5, <1>6 DEF Ideal!Next

LEMMA StepPromise ==
  ASSUME NEW p, Procs = {p}, Inv, Promise(p), [Next]_vars
  PROVE  Promise(p)' /\ (Ideal!Next \/ UNCHANGED <<effect, answer, forgotten \cup stale>>)
<1>1. ASSUME NEW r \in Requests, Serve(r)
      PROVE  Promise(p)' /\ (Ideal!Next \/ UNCHANGED <<effect, answer, forgotten \cup stale>>)
  BY <1>1, ReceivePromise, FetchPromise, ResumeFetchedPromise, FetchFailsPromise, HandlePromise, SavePromise,
     ResumeSavedPromise, FailPromise DEF Serve
<1>2. CASE \E s \in Stores, k \in Keys : Expire(s, k)
  BY <1>2, ExpirePromise
<1>3. CASE \E q \in Procs : Crash(q)
  BY <1>3, CrashPromise
<1>4. CASE UNCHANGED vars
  BY <1>4 DEF vars, history, Promise, ActedInv, KnownInv, FirstInv, RecordInv, SameKeyOf, Unsure, Saved, StoreOf
<1> QED
  BY <1>1, <1>2, <1>3, <1>4 DEF Next

(* With one process, whatever the store, the keys and the number of        *)
(* attempts, the middleware implements AtMostOnce: of the requests of a    *)
(* key at most one takes effect, and every replay is of one that did,      *)
(* unless the outcome of the key expired, was lost, or was read outdated.  *)
THEOREM OneProcessKeepsPromise == ASSUME NEW p, Procs = {p} PROVE Spec => KeepsPromise
<1>1. Init => Promise(p) /\ Ideal!Init
  BY InitPromise
<1>2. Inv /\ Promise(p) /\ [Next]_vars => Promise(p)' /\ [Ideal!Next]_<<effect, answer, forgotten \cup stale>>
  BY StepPromise
<1> QED
  BY <1>1, <1>2, Invariance, PTL DEF Spec, KeepsPromise, Ideal!Spec
=============================================================================
