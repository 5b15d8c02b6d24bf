------------------------------ MODULE JobQueue ------------------------------
(***************************************************************************)
(* JobQueue (_internal/_queue.py): an in-process queue of jobs, the worker *)
(* tasks start() creates, and stop(), which cancels them and waits.        *)
(*                                                                         *)
(* A worker gets a job through wait_for(queue.get(), 1.0).  wait_for runs  *)
(* the get in a task of its own: a cancellation that reaches the worker    *)
(* after that task took a job is swallowed, and the job runs.              *)
(*                                                                         *)
(* The owner calls start() and stop() in turn, not at the same time; any   *)
(* task may enqueue at any time, each job under an id of its own.          *)
(***************************************************************************)
EXTENDS Naturals, Sequences, FiniteSets

CONSTANTS Jobs,      (* jobs ever submitted                                *)
          Workers,   (* worker slots: 0..max_concurrent-1                  *)
          None       (* no job                                             *)

ASSUME QueueAssumption == None \notin Jobs

VARIABLES
  queue,      (* _queue                                                    *)
  status,     (* Job.status; "absent" before enqueue()                     *)
  stamped,    (* the jobs whose completed_at is set                        *)
  phase,      (* where the worker of each slot is; "none": no live task    *)
  held,       (* the job a worker took                                     *)
  cancelled,  (* workers with a cancellation not yet delivered             *)
  running,    (* _running                                                  *)
  stopping    (* stop() waits for the workers it cancelled                 *)

jobVars == <<queue, status, stamped>>
taskVars == <<phase, held, cancelled>>
vars == <<jobVars, taskVars, running, stopping>>

Ended == {"completed", "failed"}
LiveTasks == {w \in Workers : phase[w] # "none"}

Init ==
  /\ queue = <<>>
  /\ status = [j \in Jobs |-> "absent"]
  /\ stamped = {}
  /\ phase = [w \in Workers |-> "none"]
  /\ held = [w \in Workers |-> None]
  /\ cancelled = {}
  /\ running = FALSE
  /\ stopping = FALSE
-----------------------------------------------------------------------------
(* start() of a queue that runs already returns at once.                   *)
Start ==
  /\ ~stopping
  /\ ~running
  /\ running' = TRUE
  /\ phase' = [w \in Workers |-> "polling"]
  /\ UNCHANGED <<jobVars, held, cancelled, stopping>>

StopBegin ==
  /\ ~stopping
  /\ running' = FALSE
  /\ stopping' = TRUE
  /\ cancelled' = LiveTasks
  /\ UNCHANGED <<jobVars, phase, held>>

(* gather() returns when every worker task is done.                        *)
StopEnd ==
  /\ stopping
  /\ LiveTasks = {}
  /\ stopping' = FALSE
  /\ UNCHANGED <<jobVars, taskVars, running>>

(* Mutant of Enqueue: a job submitted while the queue is stopped is        *)
(* registered but not put in the queue.                                    *)
EnqueueIfRunning(j) ==
  /\ status[j] = "absent"
  /\ status' = [status EXCEPT ![j] = "pending"]
  /\ queue' = IF running THEN Append(queue, j) ELSE queue
  /\ UNCHANGED <<stamped, taskVars, running, stopping>>

(* A job is accepted whether the queue runs or not.                        *)
Enqueue(j) ==
  /\ status[j] = "absent"
  /\ status' = [status EXCEPT ![j] = "pending"]
  /\ queue' = Append(queue, j)
  /\ UNCHANGED <<stamped, taskVars, running, stopping>>
-----------------------------------------------------------------------------
(* Mutant of NextPass: while True.                                         *)
PassAlways == "polling"

(* while self._running: the worker polls again, or ends.                   *)
NextPass == IF running THEN "polling" ELSE "none"

(* Mutant of Get: the job stays at the head of the queue.                  *)
GetPeek(w) ==
  /\ phase[w] = "polling"
  /\ queue # <<>>
  /\ phase' = [phase EXCEPT ![w] = "got"]
  /\ held' = [held EXCEPT ![w] = Head(queue)]
  /\ UNCHANGED <<jobVars, cancelled, running, stopping>>

(* The get task of worker w takes the oldest job, even if a cancellation   *)
(* of the worker is on its way.                                            *)
Get(w) ==
  /\ phase[w] = "polling"
  /\ queue # <<>>
  /\ phase' = [phase EXCEPT ![w] = "got"]
  /\ held' = [held EXCEPT ![w] = Head(queue)]
  /\ queue' = Tail(queue)
  /\ UNCHANGED <<status, stamped, cancelled, running, stopping>>

(* wait_for times out after a second: continue.                            *)
TimeOut(w) ==
  /\ phase[w] = "polling"
  /\ w \notin cancelled
  /\ queue = <<>>
  /\ phase' = [phase EXCEPT ![w] = NextPass]
  /\ UNCHANGED <<jobVars, held, cancelled, running, stopping>>

(* The worker cancelled while it waits for a job leaves its loop.          *)
Break(w) ==
  /\ phase[w] = "polling"
  /\ w \in cancelled
  /\ phase' = [phase EXCEPT ![w] = "none"]
  /\ cancelled' = cancelled \ {w}
  /\ UNCHANGED <<jobVars, held, running, stopping>>

(* wait_for returns the job taken, and swallows a cancellation.            *)
Begin(w) ==
  /\ phase[w] = "got"
  /\ phase' = [phase EXCEPT ![w] = "working"]
  /\ status' = [status EXCEPT ![held[w]] = "running"]
  /\ cancelled' = cancelled \ {w}
  /\ UNCHANGED <<queue, stamped, held, running, stopping>>

(* The callable returns or raises an Exception, possibly after it caught   *)
(* the cancellation; the worker goes round its loop if the queue runs.     *)
Finish(w, outcome) ==
  /\ phase[w] = "working"
  /\ status' = [status EXCEPT ![held[w]] = outcome]
  /\ stamped' = stamped \cup {held[w]}
  /\ phase' = [phase EXCEPT ![w] = NextPass]
  /\ held' = [held EXCEPT ![w] = None]
  /\ cancelled' = cancelled \ {w}
  /\ UNCHANGED <<queue, running, stopping>>

(* Mutant of Abandon: the stamp is written after the try statement.        *)
AbandonUnstamped(w) ==
  /\ phase[w] = "working"
  /\ phase' = [phase EXCEPT ![w] = "none"]
  /\ held' = [held EXCEPT ![w] = None]
  /\ cancelled' = cancelled \ {w}
  /\ UNCHANGED <<jobVars, running, stopping>>

(* CancelledError leaves the callable: the worker's own cancellation, or   *)
(* that of a task the callable awaits.  It is no Exception: the finally    *)
(* stamps the job, whose status stays RUNNING, and the worker dies.        *)
Abandon(w) ==
  /\ phase[w] = "working"
  /\ stamped' = stamped \cup {held[w]}
  /\ phase' = [phase EXCEPT ![w] = "none"]
  /\ held' = [held EXCEPT ![w] = None]
  /\ cancelled' = cancelled \ {w}
  /\ UNCHANGED <<queue, status, running, stopping>>

WorkerStep(w) ==
  \/ Get(w)
  \/ TimeOut(w)
  \/ Break(w)
  \/ Begin(w)
  \/ \E outcome \in Ended : Finish(w, outcome)
  \/ Abandon(w)

Next ==
  \/ Start
  \/ StopBegin
  \/ StopEnd
  \/ \E j \in Jobs : Enqueue(j)
  \/ \E w \in Workers : WorkerStep(w)

Spec == Init /\ [][Next]_vars

(* The event loop runs every task that is ready, and every callable ends.  *)
Fairness == WF_vars(StopEnd) /\ \A w \in Workers : WF_vars(WorkerStep(w))

FairSpec == Spec /\ Fairness
-----------------------------------------------------------------------------
TypeOK ==
  /\ queue \in Seq(Jobs)
  /\ status \in [Jobs -> {"absent", "pending", "running"} \cup Ended]
  /\ stamped \subseteq Jobs
  /\ phase \in [Workers -> {"none", "polling", "got", "working"}]
  /\ held \in [Workers -> Jobs \cup {None}]
  /\ cancelled \subseteq Workers
  /\ running \in BOOLEAN
  /\ stopping \in BOOLEAN

Queued(j) == {i \in DOMAIN queue : queue[i] = j}
Takers(j) == {w \in Workers : phase[w] = "got" /\ held[w] = j}
Doers(j)  == {w \in Workers : phase[w] = "working" /\ held[w] = j}

(* No job is lost or duplicated, whatever start() and stop() cut short: a  *)
(* pending job is in exactly one place of the queue or one worker's hand,  *)
(* and any other job in none.                                              *)
PendingHeldOnce ==
  \A j \in Jobs :
    Cardinality(Queued(j)) + Cardinality(Takers(j)) = IF status[j] = "pending" THEN 1 ELSE 0

(* A started job is run by exactly one worker until completed_at is set,   *)
(* and by none after: a reader of the job can trust the stamp, though not  *)
(* the status, to say that nothing runs it.                                *)
StampMeansOver ==
  \A j \in Jobs :
    /\ (j \in stamped \/ status[j] \in {"absent", "pending"}) => Doers(j) = {}
    /\ (status[j] = "running" /\ j \notin stamped) => Cardinality(Doers(j)) = 1
    /\ status[j] \in Ended => j \in stamped

(* A job is run at most once: its status only moves forward.               *)
Rank(s) == CASE s = "absent" -> 0 [] s = "pending" -> 1 [] s = "running" -> 2 [] OTHER -> 3
NeverRunAgain == [][\A j \in Jobs : status'[j] # status[j] => Rank(status'[j]) > Rank(status[j])]_vars

(* stop() returns: every worker it cancels ends, also the one that goes on *)
(* with a job it had already taken.                                        *)
StopReturns == stopping ~> ~stopping

(* While the queue runs and a worker lives, a pending job is started.      *)
PendingIsStarted ==
  \A j \in Jobs : status[j] = "pending" ~>
                  status[j] # "pending" \/ ~running \/ LiveTasks = {}

=============================================================================
