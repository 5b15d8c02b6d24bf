--------------------------- MODULE SelectPipeline ---------------------------
(***************************************************************************)
(* ReinforceSpec.select and submit_feedback (client.py) with the lazy      *)
(* connect / close of the service and the tables of Storage                *)
(* (_internal/_persistence.py).                                            *)
(*                                                                         *)
(* Calls are coroutines of one event loop: a step of a call runs from one  *)
(* await to the next, and any other call may run in between.  Every write  *)
(* of Storage is a transaction of its own.  A write can fail (the request  *)
(* id is taken, the storage is not connected, the database is gone, the    *)
(* call is cancelled), and the answer to a commit can get lost.            *)
(*                                                                         *)
(* Scores and texts are left out: what scoring yields is the order of the  *)
(* candidates and the one that is selected.                                *)
(***************************************************************************)
EXTENDS Naturals, FiniteSets

CONSTANTS Calls,        (* calls of select, each made once                 *)
          Requests,     (* request ids; a retry uses the id again          *)
          None,         (* no request, no answer                           *)
          N,            (* candidates of a call                            *)
          MaxConnects,  (* bound: calls that find the service unconnected  *)
          MaxFeedback   (* bound: requests that get feedback               *)

ASSUME SelectAssumption ==
  /\ None \notin Requests
  /\ N \in Nat /\ N >= 2
  /\ MaxConnects \in Nat \ {0}
  /\ MaxFeedback \in Nat \ {0}

VARIABLES
  connected,  (* _connected                                                *)
  current,    (* how many times connect() has built the components         *)
  ready,      (* the Storage in use has a session maker                    *)
  replay,     (* the transitions in _replay_buffer                         *)
  call,       (* the coroutines                                            *)
  note,       (* the coroutine of submit_feedback                          *)
  status,     (* evaluation_requests: the status column                    *)
  rows,       (* candidate_specs                                           *)
  dims,       (* the candidates that have rows in dimension_scores         *)
  episodes,   (* rl_episodes                                               *)
  feedback,   (* feedback: the requests it is about                        *)
  audit       (* audit_log: the requests of "feedback_submitted"           *)

service == <<connected, current, ready>>
tables  == <<status, rows, dims, episodes>>
notes   == <<note, feedback, audit>>
vars    == <<service, replay, call, tables, notes>>
-----------------------------------------------------------------------------
Cands == 0..(N - 1)

(* score_candidates returns the candidates re-ordered.                     *)
Rankings == {f \in [1..N -> Cands] : \A i, j \in 1..N : f[i] = f[j] => i = j}
AsGiven  == [i \in 1..N |-> i - 1]

PCs == {"idle", "connecting", "saveRequest", "score", "saveCandidate", "saveScores",
        "saveEpisode", "complete", "done", "raised"}

(* next is the position in rank of the candidate that is saved next.       *)
CallState == [pc : PCs, req : Requests \cup {None}, rank : Rankings,
              sel : Cands, next : 1..(N + 1), judged : BOOLEAN]

NewCall == [pc |-> "idle", req |-> None, rank |-> AsGiven, sel |-> 0, next |-> 1,
            judged |-> FALSE]

At(c, pc)   == call[c].pc = pc
Goto(c, pc) == call' = [call EXCEPT ![c].pc = pc]
Req(c)      == call[c].req

(* _require_sessionmaker() of the storage in use.                          *)
StorageReady == ready

(* The writes of Storage.  A request id is a primary key, and so is the    *)
(* spec id, which is made of the request id and the index.                 *)
InsertRequest(r) ==
  /\ StorageReady
  /\ status[r] = "none"
  /\ status' = [status EXCEPT ![r] = "pending"]

InsertCandidate(r, candidate, selected, c) ==
  /\ StorageReady
  /\ \A row \in rows[r] : row.idx # candidate
  /\ rows' = [rows EXCEPT ![r] = @ \cup
                {[idx |-> candidate, selected |-> selected, by |-> c]}]

(* save_dimension_scores returns at once when there are no scores.         *)
InsertScores(r, candidate, judged) ==
  IF judged THEN StorageReady /\ dims' = [dims EXCEPT ![r] = @ \cup {candidate}]
            ELSE UNCHANGED dims

InsertEpisode(r, action, c) ==
  /\ StorageReady
  /\ episodes' = episodes \cup {[by |-> c, req |-> r, action |-> action]}

SetStatus(r, value) == StorageReady /\ status' = [status EXCEPT ![r] = value]

InsertFeedback(r) ==
  /\ StorageReady
  /\ status[r] # "none"
  /\ feedback' = feedback \cup {r}

(* The call raises: its locals are gone.                                   *)
Raise(c) == call' = [call EXCEPT ![c] = [NewCall EXCEPT !.pc = "raised"]]
-----------------------------------------------------------------------------
(* _ensure_connected: a call that finds the service unconnected builds all *)
(* components anew, the storage with its session maker among them, and then*)
(* awaits the database.  Calls that are under way go on with the new ones. *)
Start(c, r) ==
  /\ At(c, "idle")
  /\ call' = [call EXCEPT ![c].pc = IF connected THEN "saveRequest" ELSE "connecting",
                          ![c].req = r]
  /\ IF connected
     THEN UNCHANGED <<current, ready, replay>>
     ELSE /\ current < MaxConnects
          /\ current' = current + 1
          /\ ready' = TRUE
          /\ replay' = {}
  /\ UNCHANGED <<connected, tables, notes>>

Connected(c) ==
  /\ At(c, "connecting")
  /\ connected' = TRUE
  /\ Goto(c, "saveRequest")
  /\ UNCHANGED <<current, ready, replay, tables, notes>>

(* Mutant of SaveRequest: an existing request is taken over.               *)
SaveRequestUpsert(c) ==
  /\ At(c, "saveRequest")
  /\ SetStatus(Req(c), "pending")
  /\ Goto(c, "score")
  /\ UNCHANGED <<service, replay, rows, dims, episodes, notes>>

SaveRequest(c) ==
  /\ At(c, "saveRequest")
  /\ InsertRequest(Req(c))
  /\ Goto(c, "score")
  /\ UNCHANGED <<service, replay, rows, dims, episodes, notes>>

(* Scoring and selection; judged is FALSE when every judge call failed.    *)
Scored(c) ==
  /\ At(c, "score")
  /\ \E f \in Rankings, s \in Cands, j \in BOOLEAN :
       call' = [call EXCEPT ![c] = [@ EXCEPT !.pc = "saveCandidate", !.rank = f,
                                             !.sel = s, !.judged = j]]
  /\ UNCHANGED <<service, replay, tables, notes>>

Candidate(c) == call[c].rank[call[c].next]

(* Mutant of SaveCandidate: the winner is looked up by its rank.           *)
SelectedByRank(c) ==
  /\ At(c, "saveCandidate")
  /\ InsertCandidate(Req(c), Candidate(c), call[c].next - 1 = call[c].sel, c)
  /\ Goto(c, "saveScores")
  /\ UNCHANGED <<service, replay, status, dims, episodes, notes>>

SaveCandidate(c) ==
  /\ At(c, "saveCandidate")
  /\ InsertCandidate(Req(c), Candidate(c), Candidate(c) = call[c].sel, c)
  /\ Goto(c, "saveScores")
  /\ UNCHANGED <<service, replay, status, dims, episodes, notes>>

(* Mutant of AfterScores: the last candidate is forgotten.                 *)
AfterScoresShort(k) == IF k >= N THEN "saveEpisode" ELSE "saveCandidate"

AfterScores(k) == IF k > N THEN "saveEpisode" ELSE "saveCandidate"

SaveScores(c) ==
  /\ At(c, "saveScores")
  /\ InsertScores(Req(c), Candidate(c), call[c].judged)
  /\ LET k == call[c].next + 1 IN
       call' = [call EXCEPT ![c].next = k, ![c].pc = AfterScores(k)]
  /\ UNCHANGED <<service, replay, status, rows, episodes, notes>>

Transition(c) == [by |-> c, req |-> Req(c), action |-> call[c].sel, rank |-> call[c].rank]

(* Mutant of SaveEpisode: the transition is recorded before the episode is *)
(* written.                                                                *)
RecordFirst(c) ==
  /\ At(c, "saveEpisode")
  /\ replay' = replay \cup {Transition(c)}
  /\ \/ InsertEpisode(Req(c), call[c].sel, c) /\ Goto(c, "complete")
     \/ Raise(c) /\ UNCHANGED episodes
  /\ UNCHANGED <<service, status, rows, dims, notes>>

(* The episode is written; when save_episode returns, the transition goes  *)
(* to the replay buffer in use.  If the answer to the commit is lost, the  *)
(* call raises with the episode on disk.  (For every other write that case *)
(* is the same as Abort after it.)                                         *)
SaveEpisode(c) ==
  /\ At(c, "saveEpisode")
  /\ InsertEpisode(Req(c), call[c].sel, c)
  /\ \/ replay' = replay \cup {Transition(c)} /\ Goto(c, "complete")
     \/ Raise(c) /\ UNCHANGED replay
  /\ UNCHANGED <<service, status, rows, dims, notes>>

CompleteRequest(c) ==
  /\ At(c, "complete")
  /\ SetStatus(Req(c), "completed")
  /\ call' = [call EXCEPT ![c].pc = "done", ![c].rank = AsGiven]
  /\ UNCHANGED <<service, replay, rows, dims, episodes, notes>>

(* An await raises and nothing was written.  fail_request is not called:   *)
(* the request stays "pending".                                            *)
Abort(c) ==
  /\ call[c].pc \notin {"idle", "done", "raised"}
  /\ Raise(c)
  /\ UNCHANGED <<service, replay, tables, notes>>
-----------------------------------------------------------------------------
(* submit_feedback: the row, whose foreign key needs the request, and then *)
(* the audit entry.                                                        *)
SaveFeedback(r) ==
  /\ note = None /\ Cardinality(feedback) < MaxFeedback
  /\ connected
  /\ InsertFeedback(r)
  /\ note' \in {r, None}
  /\ UNCHANGED <<service, replay, call, tables, audit>>

AppendAudit ==
  /\ note # None
  /\ note' = None
  /\ audit' \in {audit, audit \cup {note}}
  /\ (audit' # audit => StorageReady)
  /\ UNCHANGED <<service, replay, call, tables, feedback>>

(* close(): calls in flight are not waited for.                            *)
Close ==
  /\ connected
  /\ ready' = FALSE
  /\ connected' = FALSE
  /\ UNCHANGED <<current, replay, call, tables, notes>>

(* The process dies: the tables stay, the replay buffer does not.          *)
Crash ==
  /\ current # 0
  /\ connected' = FALSE
  /\ ready' = FALSE
  /\ replay' = {}
  /\ call' = [c \in Calls |-> IF At(c, "idle") \/ At(c, "done") THEN call[c]
                              ELSE [NewCall EXCEPT !.pc = "raised"]]
  /\ note' = None
  /\ UNCHANGED <<current, tables, feedback, audit>>
-----------------------------------------------------------------------------
(* A new database.                                                         *)
EmptyTables ==
  /\ status = [r \in Requests |-> "none"]
  /\ rows = [r \in Requests |-> {}]
  /\ dims = [r \in Requests |-> {}]
  /\ episodes = {}
  /\ feedback = {} /\ audit = {}

Init ==
  /\ connected = FALSE
  /\ current = 0
  /\ ready = FALSE
  /\ replay = {}
  /\ call = [c \in Calls |-> NewCall]
  /\ note = None
  /\ EmptyTables

Next ==
  \/ \E c \in Calls, r \in Requests : Start(c, r)
  \/ \E c \in Calls : \/ Connected(c) \/ SaveRequest(c) \/ Scored(c) \/ SaveCandidate(c)
                      \/ SaveScores(c) \/ SaveEpisode(c) \/ CompleteRequest(c) \/ Abort(c)
  \/ \E r \in Requests : SaveFeedback(r)
  \/ AppendAudit
  \/ Close
  \/ Crash

Spec == Init /\ [][Next]_vars
-----------------------------------------------------------------------------
Row     == [idx : Cands, selected : BOOLEAN, by : Calls]
Episode == [by : Calls, req : Requests, action : Cands]

TypeOK ==
  /\ connected \in BOOLEAN
  /\ current \in 0..MaxConnects
  /\ ready \in BOOLEAN
  /\ call \in [Calls -> CallState]
  /\ note \in Requests \cup {None}
  /\ status \in [Requests -> {"none", "pending", "completed"}]
  /\ rows \in [Requests -> SUBSET Row]
  /\ dims \in [Requests -> SUBSET Cands]
  /\ episodes \subseteq Episode
  /\ replay \subseteq [by : Calls, req : Requests, action : Cands, rank : Rankings]
  /\ feedback \subseteq Requests /\ audit \subseteq Requests

(* All rows of a request, and its episodes, were written by the same call: *)
(* a retry or a second caller with the same request id, whose scoring may  *)
(* order and select differently, adds nothing to what the first one wrote. *)
OneWriter ==
  \A r \in Requests :
    Cardinality({row.by : row \in rows[r]} \cup {e.by : e \in {x \in episodes : x.req = r}}) <= 1

(* A caller that got an answer finds the request completed, and the row    *)
(* flagged is_selected is the candidate it was given.                      *)
AnswerIsRecorded ==
  \A c \in Calls : At(c, "done") =>
    /\ status[Req(c)] = "completed"
    /\ {row.idx : row \in {x \in rows[Req(c)] : x.selected}} = {call[c].sel}
    /\ call[c].judged => dims[Req(c)] = Cands

(* Training never learns from a selection the database does not know: a    *)
(* transition in the replay buffer has its episode, with the same action,  *)
(* and all its candidates, whatever failed after it was added.             *)
ReplayIsPersisted ==
  \A t \in replay :
    /\ [by |-> t.by, req |-> t.req, action |-> t.action] \in episodes
    /\ {row.idx : row \in rows[t.req]} = Cands

(* What a reader of completed requests sees.                               *)
Visible == [r \in Requests |->
  IF status[r] = "completed"
  THEN [candidates |-> {row.idx : row \in rows[r]},
        winners    |-> {row.idx : row \in {x \in rows[r] : x.selected}},
        actions    |-> {e.action : e \in {x \in episodes : x.req = r}}]
  ELSE [candidates |-> {}, winners |-> {}, actions |-> {}]]

(* The separate transactions of select implement the ledger: a request     *)
(* becomes visible at once and whole, and no retry, failure or crash ever  *)
(* changes a completed request.                                            *)
Ledger == INSTANCE SelectionLedger WITH ledger <- Visible

PublishesAtomically == Ledger!Spec
=============================================================================
