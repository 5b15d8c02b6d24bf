---------------------------- MODULE Idempotency ----------------------------
(***************************************************************************)
(* IdempotencyMiddleware.dispatch over IdempotencyStore: requests with an  *)
(* Idempotency-Key, some of them retries of one another, served by         *)
(* processes that share a redis or keep a memory store each.               *)
(*                                                                         *)
(* With the memory store, check() and acquire() run with no suspension     *)
(* between them, and so do save() and release(); redis adds an await to    *)
(* check() and save().  The locks of acquire() are in process memory with  *)
(* either store.                                                           *)
(***************************************************************************)
CONSTANTS Requests, Keys,
          KeyOf,      (* the key each request carries                      *)
          Procs,      (* server processes                                  *)
          None, Conflict, Error

(* The name of the store that redis keeps for all processes.             *)
Shared == "redis"

ASSUME IdempotencyAssumption ==
  /\ KeyOf \in [Requests -> Keys]
  /\ {None, Conflict, Error} \cap (Requests \cup Procs) = {}
  /\ Shared \notin Procs

VARIABLES
  redis,     (* _redis is not None: connect() was given a redis_url        *)
  phase,     (* how far dispatch() is with a request                       *)
  at,        (* the process that serves it                                 *)
  seen,      (* the response redis returned to its check()                 *)
  saved,     (* by store and key: the request whose response is saved      *)
  lock,      (* _locks, by process and key: the holder                     *)
  effect,    (* the requests whose handler did its work                    *)
  answer,    (* the request whose response it was sent, or an error        *)
  forgotten, (* history: keys whose outcome expired, was lost or not saved *)
  stale      (* history: keys worked on after a check() that was outdated  *)

history == <<forgotten, stale>>
vars == <<redis, phase, at, seen, saved, lock, effect, answer, history>>

Stores == {Shared} \cup Procs
StoreOf(p) == IF redis THEN Shared ELSE p
Saved(p, k) == saved[StoreOf(p)][k]
SameKey(r) == {q \in Requests : KeyOf[q] = KeyOf[r]}

(* The requests between acquire() and release().                           *)
Working == {"running", "acted", "saving"}

Init ==
  /\ redis \in BOOLEAN
  /\ phase = [r \in Requests |-> "new"]
  /\ at = [r \in Requests |-> None]
  /\ seen = [r \in Requests |-> None]
  /\ saved = [s \in Stores |-> [k \in Keys |-> None]]
  /\ lock = [p \in Procs |-> [k \in Keys |-> None]]
  /\ effect = {}
  /\ answer = [r \in Requests |-> None]
  /\ forgotten = {}
  /\ stale = {}
-----------------------------------------------------------------------------
Reply(r, a) ==
  /\ phase' = [phase EXCEPT ![r] = "done"]
  /\ answer' = [answer EXCEPT ![r] = a]

(* Mutant of Acquire: inside the try, whose finally releases the lock of   *)
(* the request that holds it.                                              *)
AcquireInTry(r, p) ==
  \/ /\ lock[p][KeyOf[r]] = None
     /\ lock' = [lock EXCEPT ![p][KeyOf[r]] = r]
     /\ phase' = [phase EXCEPT ![r] = "running"]
     /\ UNCHANGED answer
  \/ /\ lock[p][KeyOf[r]] # None
     /\ lock' = [lock EXCEPT ![p][KeyOf[r]] = None]
     /\ Reply(r, Conflict)

(* acquire(): a key that is being processed raises IdempotencyConflict.    *)
Acquire(r, p) ==
  \/ /\ lock[p][KeyOf[r]] = None
     /\ lock' = [lock EXCEPT ![p][KeyOf[r]] = r]
     /\ phase' = [phase EXCEPT ![r] = "running"]
     /\ UNCHANGED answer
  \/ lock[p][KeyOf[r]] # None /\ Reply(r, Conflict) /\ UNCHANGED lock

(* dispatch() once check() has returned the response of request found.     *)
Admit(r, p, found) ==
  /\ \/ found # None /\ Reply(r, found) /\ UNCHANGED lock
     \/ found = None /\ Acquire(r, p)
  /\ at' = [at EXCEPT ![r] = p]

(* check() of the memory store does not suspend.                           *)
ReceiveMemory(r, p) ==
  /\ ~redis
  /\ phase[r] = "new"
  /\ Admit(r, p, Saved(p, KeyOf[r]))
  /\ UNCHANGED <<seen, saved, effect, redis, history>>

(* check() of redis: the response is read now and used when it arrives.    *)
Fetch(r, p) ==
  /\ redis
  /\ phase[r] = "new"
  /\ phase' = [phase EXCEPT ![r] = "fetched"]
  /\ at' = [at EXCEPT ![r] = p]
  /\ seen' = [seen EXCEPT ![r] = Saved(p, KeyOf[r])]
  /\ UNCHANGED <<saved, lock, effect, answer, redis, history>>

ResumeFetched(r) ==
  /\ phase[r] = "fetched"
  /\ Admit(r, at[r], seen[r])
  /\ stale' = IF phase'[r] = "running" /\ Saved(at[r], KeyOf[r]) # None
              THEN stale \cup {KeyOf[r]} ELSE stale
  /\ UNCHANGED <<seen, saved, effect, redis, forgotten>>

(* The GET of check() raises, or the client goes away while it is under    *)
(* way: that is before the try, and there is no lock to release.           *)
FetchFails(r) ==
  /\ phase[r] = "fetched"
  /\ Reply(r, Error)
  /\ UNCHANGED <<at, seen, saved, lock, effect, redis, history>>

(* The handler, behind call_next, does its work.                           *)
Handle(r) ==
  /\ phase[r] = "running"
  /\ phase' = [phase EXCEPT ![r] = "acted"]
  /\ effect' = effect \cup {r}
  /\ UNCHANGED <<at, seen, saved, lock, answer, redis, history>>
-----------------------------------------------------------------------------
(* release() pops the lock of the key, whoever calls it.                   *)
Release(r) == lock' = [lock EXCEPT ![at[r]][KeyOf[r]] = None]

(* Mutant of Store: save() is forgotten.                                   *)
StoreNothing(r) == UNCHANGED saved

(* save(): the response of r is stored, over any other of its key.         *)
Store(r) == saved' = [saved EXCEPT ![StoreOf(at[r])][KeyOf[r]] = r]

(* A 2xx response: save(), release(), answer.                              *)
SaveMemory(r) ==
  /\ ~redis
  /\ phase[r] = "acted"
  /\ Store(r)
  /\ Release(r)
  /\ Reply(r, r)
  /\ UNCHANGED <<at, seen, effect, redis, history>>

SaveRedis(r) ==
  /\ redis
  /\ phase[r] = "acted"
  /\ Store(r)
  /\ phase' = [phase EXCEPT ![r] = "saving"]
  /\ UNCHANGED <<at, seen, lock, effect, answer, redis, history>>

ResumeSaved(r) ==
  /\ phase[r] = "saving"
  /\ Release(r)
  /\ Reply(r, r)
  /\ UNCHANGED <<at, seen, saved, effect, redis, history>>

(* Mutant of Fail: no finally, the lock of a failed request stays.         *)
FailLocked(r) ==
  /\ phase[r] \in Working
  /\ UNCHANGED lock
  /\ Reply(r, Error)
  /\ forgotten' = IF phase[r] = "acted" THEN forgotten \cup {KeyOf[r]} ELSE forgotten
  /\ UNCHANGED <<at, seen, saved, effect, redis, stale>>

(* An exception, a response that is not 2xx, a client that goes away, a    *)
(* body that is not JSON, a redis that does not save: the finally releases *)
(* the lock, and the work that was done is not known.                      *)
Fail(r) ==
  /\ phase[r] \in Working
  /\ Release(r)
  /\ Reply(r, Error)
  /\ forgotten' = IF phase[r] = "acted" THEN forgotten \cup {KeyOf[r]} ELSE forgotten
  /\ UNCHANGED <<at, seen, saved, effect, redis, stale>>

(* A response is dropped once its TTL is over.                             *)
Expire(s, k) ==
  /\ saved[s][k] # None
  /\ saved' = [saved EXCEPT ![s][k] = None]
  /\ forgotten' = forgotten \cup {k}
  /\ UNCHANGED <<phase, at, seen, lock, effect, answer, redis, stale>>

(* A process restarts: its requests, locks and memory store are gone.      *)
Crash(p) ==
  LET lost == {r \in Requests : at[r] = p /\ phase[r] \notin {"new", "done"}}
      gone == {k \in Keys : (~redis /\ Saved(p, k) # None) \/ (\E r \in lost : phase[r] = "acted" /\ KeyOf[r] = k)}
  IN  /\ phase' = [r \in Requests |-> IF r \in lost THEN "lost" ELSE phase[r]]
      /\ lock' = [lock EXCEPT ![p] = [k \in Keys |-> None]]
      /\ saved' = IF redis THEN saved ELSE [saved EXCEPT ![p] = [k \in Keys |-> None]]
      /\ forgotten' = forgotten \cup gone
      /\ UNCHANGED <<at, seen, effect, answer, redis, stale>>

Serve(r) ==
  \/ \E p \in Procs : ReceiveMemory(r, p) \/ Fetch(r, p)
  \/ ResumeFetched(r)
  \/ FetchFails(r)
  \/ Handle(r)
  \/ SaveMemory(r)
  \/ SaveRedis(r)
  \/ ResumeSaved(r)
  \/ Fail(r)

Next ==
  \/ \E r \in Requests : Serve(r)
  \/ \E s \in Stores, k \in Keys : Expire(s, k)
  \/ \E p \in Procs : Crash(p)

Spec == Init /\ [][Next]_vars

(* A request that was received goes on until it is answered.               *)
FairSpec == Spec /\ \A r \in Requests : WF_vars(phase[r] # "new" /\ Serve(r))
-----------------------------------------------------------------------------
TypeOK ==
  /\ phase \in [Requests -> {"new", "fetched", "done", "lost"} \cup Working]
  /\ at \in [Requests -> Procs \cup {None}]
  /\ seen \in [Requests -> Requests \cup {None}]
  /\ saved \in [Stores -> [Keys -> Requests \cup {None}]]
  /\ lock \in [Procs -> [Keys -> Requests \cup {None}]]
  /\ effect \subseteq Requests
  /\ answer \in [Requests -> Requests \cup {None, Conflict, Error}]
  /\ forgotten \subseteq Keys
  /\ stale \subseteq Keys
  /\ redis \in BOOLEAN

(* The lock of a key names exactly the request its process works on: two   *)
(* requests of a key never run together in a process, one that was refused *)
(* does not free the key of another, and no failure keeps a key locked.    *)
LockIsHeld ==
  \A p \in Procs, r \in Requests :
    lock[p][KeyOf[r]] = r <=> (phase[r] \in Working /\ at[r] = p)

(* A key that is being processed becomes free again, so that a client that *)
(* retries after a conflict gets through.                                  *)
LockFreed == \A p \in Procs, k \in Keys : lock[p][k] # None ~> lock[p][k] = None

Ideal == INSTANCE AtMostOnce WITH forgotten <- forgotten \cup stale

(* In one process the middleware keeps the promise of an idempotency key,  *)
(* but for keys that were worked on after an outdated answer of redis.     *)
KeepsPromise == Ideal!Spec

=============================================================================
