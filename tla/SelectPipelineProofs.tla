------------------------ MODULE SelectPipelineProofs ------------------------
(***************************************************************************)
(* Proofs about SelectPipeline, for any number of calls, request ids,      *)
(* candidates and connections.  The invariant follows what a call in       *)
(* flight has written so far: its request is pending and nobody else's,    *)
(* and the rows of the request are those of the candidates it has passed.  *)
(***************************************************************************)
EXTENDS SelectPipeline, FiniteSetTheorems, TLAPS

RowIds(r)     == {row.idx : row \in rows[r]}
Winners(r)    == {row.idx : row \in {x \in rows[r] : x.selected}}
EpisodesOf(r) == {x \in episodes : x.req = r}
Writers(r)    == {row.by : row \in rows[r]} \cup {e.by : e \in EpisodesOf(r)}

(* The calls that own their request id.                                    *)
Writing(c) == call[c].pc \in {"score", "saveCandidate", "saveScores", "saveEpisode", "complete"}

(* The positions of rank whose candidate, and whose scores, are written.   *)
SavedTo(c) ==
  {i \in 1..N : \/ call[c].pc \in {"saveEpisode", "complete"}
                \/ call[c].pc \in {"saveCandidate", "saveScores"} /\ i < call[c].next
                \/ call[c].pc = "saveScores" /\ i = call[c].next}
ScoredTo(c) ==
  {i \in 1..N : \/ call[c].pc \in {"saveEpisode", "complete"}
                \/ call[c].pc \in {"saveCandidate", "saveScores"} /\ i < call[c].next}

Counted(c) ==
  /\ call[c].pc \in {"idle", "connecting", "saveRequest", "score"} => call[c].next = 1
  /\ call[c].pc \in {"saveCandidate", "saveScores"} => call[c].next \in 1..N
  /\ call[c].pc \notin {"idle", "raised"} => Req(c) \in Requests

Owns(c) ==
  /\ status[Req(c)] = "pending"
  /\ \A d \in Calls : Writing(d) /\ Req(d) = Req(c) => d = c

Written(c) ==
  /\ \A row \in rows[Req(c)] : row.by = c /\ (row.selected <=> row.idx = call[c].sel)
  /\ RowIds(Req(c)) = {call[c].rank[i] : i \in SavedTo(c)}
  /\ call[c].judged \/ At(c, "score") => dims[Req(c)] = {call[c].rank[i] : i \in ScoredTo(c)}
  /\ EpisodesOf(Req(c)) = IF call[c].pc = "complete"
                          THEN {[by |-> c, req |-> Req(c), action |-> call[c].sel]} ELSE {}

Recorded(c) ==
  /\ status[Req(c)] = "completed"
  /\ Winners(Req(c)) = {call[c].sel}
  /\ call[c].judged => dims[Req(c)] = Cands

CallInv(c) ==
  /\ Counted(c)
  /\ Writing(c) => Owns(c) /\ Written(c)
  /\ At(c, "done") => Recorded(c)

(* What no call has begun is empty, and no two calls wrote to one request. *)
TableInv ==
  \A r \in Requests :
    /\ status[r] = "none" => rows[r] = {} /\ dims[r] = {} /\ EpisodesOf(r) = {}
    /\ \A c, d \in Writers(r) : c = d

Inv == TypeOK /\ TableInv /\ ReplayIsPersisted /\ \A c \in Calls : CallInv(c)
USE DEF At, Req
-----------------------------------------------------------------------------
(* A ranking of all candidates names every one of them.                    *)
LEMMA RankCovers == ASSUME NEW f \in Rankings PROVE {f[i] : i \in 1..N} = Cands
<1>1. N \in Nat /\ N >= 2
  BY SelectAssumption
<1>2. /\ IsFiniteSet(1..N) /\ Cardinality(1..N) = N
      /\ IsFiniteSet(Cands) /\ Cardinality(Cands) = N
  BY <1>1, FS_Interval DEF Cands
<1>3. f \in Injection(1..N, Cands)
  BY DEF Rankings, Injection, IsInjective
<1>4. f \in Surjection(1..N, Cands)
  BY <1>2, <1>3, FS_Injection
<1> QED
  BY <1>3, <1>4 DEF Surjection, Injection

LEMMA GivenRanks == AsGiven \in Rankings /\ 0 \in Cands /\ 1 \in 1..(N + 1)
BY SelectAssumption DEF AsGiven, Rankings, Cands

(* A call of which some fields change is still a call.                     *)
LEMMA CallTyped ==
  ASSUME NEW k \in CallState
  PROVE  /\ \A pc \in PCs : [k EXCEPT !.pc = pc] \in CallState
         /\ \A r \in Requests : [k EXCEPT !.req = r] \in CallState
         /\ \A f \in Rankings : [k EXCEPT !.rank = f] \in CallState
         /\ \A s \in Cands : [k EXCEPT !.sel = s] \in CallState
         /\ \A n \in 1..(N + 1) : [k EXCEPT !.next = n] \in CallState
         /\ \A j \in BOOLEAN : [k EXCEPT !.judged = j] \in CallState
<1> DEFINE M == 1..(N + 1)
<1> SUFFICES
      /\ \A pc \in PCs : [k EXCEPT !.pc = pc] \in CallState
      /\ \A r \in Requests : [k EXCEPT !.req = r] \in CallState
      /\ \A f \in Rankings : [k EXCEPT !.rank = f] \in CallState
      /\ \A s \in Cands : [k EXCEPT !.sel = s] \in CallState
      /\ \A n \in M : [k EXCEPT !.next = n] \in CallState
      /\ \A j \in BOOLEAN : [k EXCEPT !.judged = j] \in CallState
  OBVIOUS
<1>1. CallState = [pc : PCs, req : Requests \cup {None},
                   rank : Rankings, sel : Cands, next : M, judged : BOOLEAN]
  BY DEF CallState
<1> HIDE DEF M
<1> QED
  BY <1>1

LEMMA NewCallTyped ==
  /\ NewCall \in CallState
  /\ [NewCall EXCEPT !.pc = "raised"] \in CallState
<1> HIDE DEF AsGiven, Rankings, Cands
<1> QED
  BY GivenRanks DEF NewCall, CallState, PCs

LEMMA InitInv == Init => Inv
<1> SUFFICES ASSUME Init PROVE Inv
  OBVIOUS
<1> USE DEF Init, EmptyTables
<1>1. TypeOK
  <2>1. call \in [Calls -> CallState]
    BY NewCallTyped
  <2>2. current \in 0..MaxConnects
    BY SelectAssumption
  <2> QED
    BY <2>1, <2>2 DEF TypeOK
<1>2. TableInv /\ ReplayIsPersisted
  BY DEF TableInv, ReplayIsPersisted, EpisodesOf, Writers
<1>3. ASSUME NEW c \in Calls PROVE CallInv(c)
  <2>1. call[c].pc = "idle" /\ call[c].next = 1
    BY DEF NewCall
  <2> QED
    BY <2>1 DEF CallInv, Counted, Writing, At
<1> QED
  BY <1>1, <1>2, <1>3 DEF Inv
-----------------------------------------------------------------------------
(* What a step of a call on request r leaves alone: another call and the   *)
(* other requests.                                                         *)
LEMMA OthersKeep ==
  ASSUME Inv, NEW c \in Calls, NEW d \in Calls, d # c, call' \in [Calls -> CallState],
         \A e \in Calls \ {c} : call'[e] = call[e],
         NEW r \in Requests, status[r] # "completed", Writing(d) => Req(d) # r,
         Writing(c)' => Req(c)' = r,
         \A q \in Requests \ {r} : /\ status'[q] = status[q] /\ rows'[q] = rows[q]
                                   /\ dims'[q] = dims[q] /\ EpisodesOf(q)' = EpisodesOf(q)
  PROVE  CallInv(d)'
<1>1. call'[d] = call[d] /\ CallInv(d)
  BY DEF Inv
<1>2. Counted(d)' /\ (Writing(d)' <=> Writing(d)) /\ (At(d, "done")' <=> At(d, "done"))
  BY <1>1 DEF CallInv, Counted, Writing, At
<1>3. ASSUME Writing(d) PROVE Owns(d)' /\ Written(d)'
  <2>1. Req(d) \in Requests \ {r} /\ Req(d)' = Req(d)
    BY <1>1, <1>3 DEF CallInv, Counted, Writing
  <2>2. Owns(d)'
    <3> SUFFICES ASSUME NEW e \in Calls, Writing(e)', Req(e)' = Req(d)' PROVE e = d
      BY <1>1, <1>3, <2>1 DEF Owns, CallInv
    <3>1. e # c
      BY <2>1
    <3> QED
      BY <1>1, <1>3, <3>1 DEF CallInv, Owns, Writing
  <2>3. Written(d)'
    <3>1. /\ SavedTo(d)' = SavedTo(d) /\ ScoredTo(d)' = ScoredTo(d) /\ Req(d)' = Req(d)
          /\ rows'[Req(d)] = rows[Req(d)] /\ dims'[Req(d)] = dims[Req(d)]
          /\ EpisodesOf(Req(d))' = EpisodesOf(Req(d)) /\ RowIds(Req(d))' = RowIds(Req(d))
      BY <1>1, <2>1 DEF SavedTo, ScoredTo, RowIds
    <3> QED
      BY <1>1, <1>3, <3>1 DEF CallInv, Written
  <2> QED
    BY <2>2, <2>3
<1>4. ASSUME At(d, "done") PROVE Recorded(d)'
  <2>1. Req(d) \in Requests \ {r} /\ Req(d)' = Req(d)
    BY <1>1, <1>4 DEF CallInv, Counted, At, Recorded
  <2> QED
    BY <1>1, <1>4, <2>1 DEF CallInv, Recorded, Winners
<1> QED
  BY <1>2, <1>3, <1>4 DEF CallInv

(* A step that writes no table and lets no call begin to write.            *)
LEMMA NoWriteKeeps ==
  ASSUME Inv, call' \in [Calls -> CallState], UNCHANGED tables,
         \A c \in Calls : call'[c] = call[c] \/ (Counted(c)' /\ ~Writing(c)' /\ ~At(c, "done")')
  PROVE  TableInv' /\ \A c \in Calls : CallInv(c)'
<1>1. TableInv'
  <2>1. \A r \in Requests : EpisodesOf(r)' = EpisodesOf(r) /\ Writers(r)' = Writers(r)
    BY DEF tables, EpisodesOf, Writers
  <2> QED
    BY <2>1 DEF Inv, TableInv, tables
<1>2. ASSUME NEW c \in Calls, call'[c] = call[c] PROVE CallInv(c)'
  <2>1. CallInv(c)
    BY DEF Inv
  <2>2. Counted(c)' /\ (Writing(c)' <=> Writing(c)) /\ (At(c, "done")' <=> At(c, "done"))
    BY <1>2, <2>1 DEF CallInv, Counted, Writing, At
  <2>3. Writing(c) => Owns(c)'
    <3> SUFFICES ASSUME Writing(c), NEW d \in Calls, Writing(d)', Req(d)' = Req(c)' PROVE d = c
      BY <1>2, <2>1 DEF Owns, CallInv, tables
    <3>1. call'[d] = call[d]
      OBVIOUS
    <3> QED
      BY <1>2, <2>1, <3>1 DEF CallInv, Owns, Writing
  <2>4. Writing(c) => Written(c)'
    <3>1. SavedTo(c)' = SavedTo(c) /\ ScoredTo(c)' = ScoredTo(c)
      BY <1>2 DEF SavedTo, ScoredTo
    <3>2. RowIds(Req(c))' = RowIds(Req(c)) /\ EpisodesOf(Req(c))' = EpisodesOf(Req(c))
      BY <1>2 DEF RowIds, EpisodesOf, tables
    <3> QED
      BY <1>2, <2>1, <3>1, <3>2 DEF CallInv, Written, tables
  <2>5. At(c, "done") => Recorded(c)'
    BY <1>2, <2>1 DEF CallInv, Recorded, Winners, tables
  <2> QED
    BY <2>2, <2>3, <2>4, <2>5 DEF CallInv
<1> QED
  BY <1>1, <1>2 DEF CallInv

(* A replayed transition stays backed by the tables as long as they only   *)
(* grow.                                                                   *)
LEMMA ReplayKeeps ==
  ASSUME Inv, replay' \subseteq replay, episodes \subseteq episodes',
         \A r \in Requests : rows[r] \subseteq rows'[r] /\ rows'[r] \subseteq Row
  PROVE  ReplayIsPersisted'
<1> SUFFICES ASSUME NEW t \in replay'
             PROVE  /\ [by |-> t.by, req |-> t.req, action |-> t.action] \in episodes'
                    /\ {row.idx : row \in rows'[t.req]} = Cands
  BY DEF ReplayIsPersisted
<1>1. t \in replay /\ t.req \in Requests
  BY DEF Inv, TypeOK
<1>2. /\ [by |-> t.by, req |-> t.req, action |-> t.action] \in episodes
      /\ {row.idx : row \in rows[t.req]} = Cands
  BY <1>1 DEF Inv, ReplayIsPersisted
<1>3. rows[t.req] \subseteq rows'[t.req] /\ \A row \in rows'[t.req] : row.idx \in Cands
  BY <1>1 DEF Row
<1> QED
  BY <1>2, <1>3
-----------------------------------------------------------------------------
(* Steps that write no table.                                              *)
LEMMA RaisedTyped ==
  ASSUME Inv, NEW c \in Calls, Raise(c)
  PROVE  /\ call' \in [Calls -> CallState]
         /\ call'[c].pc = "raised" /\ \A d \in Calls \ {c} : call'[d] = call[d]
<1>1. [NewCall EXCEPT !.pc = "raised"] \in CallState /\ [NewCall EXCEPT !.pc = "raised"].pc = "raised"
  BY NewCallTyped DEF NewCall
<1> QED
  BY <1>1 DEF Raise, Inv, TypeOK

LEMMA StartKeeps ==
  ASSUME Inv, NEW c \in Calls, NEW r \in Requests, Start(c, r) PROVE Inv'
<1> USE DEF Inv
<1>1. call[c] \in CallState /\ call[c].pc = "idle" /\ call[c].next = 1
  BY DEF TypeOK, Start, At, CallInv, Counted
<1>2. /\ call' \in [Calls -> CallState] /\ \A d \in Calls \ {c} : call'[d] = call[d]
      /\ call'[c].pc \in {"connecting", "saveRequest"} /\ call'[c].req = r /\ call'[c].next = 1
      /\ current' \in 0..MaxConnects /\ ready' \in BOOLEAN
  <2> HIDE DEF Rankings, Cands
  <2>1. CASE connected
    <3>1. call' = [call EXCEPT ![c] = [call[c] EXCEPT !.pc = "saveRequest", !.req = r]]
      BY <2>1 DEF Start, TypeOK
    <3>2. [call[c] EXCEPT !.pc = "saveRequest", !.req = r] \in CallState
      BY <1>1, CallTyped DEF PCs
    <3>3. current' = current /\ ready' = ready
      BY <2>1 DEF Start
    <3> QED
      BY <1>1, <3>1, <3>2, <3>3 DEF TypeOK, CallState
  <2>2. CASE ~connected
    <3>1. call' = [call EXCEPT ![c] = [call[c] EXCEPT !.pc = "connecting", !.req = r]]
      BY <2>2 DEF Start, TypeOK
    <3>2. current' = current + 1 /\ current < MaxConnects /\ ready' = TRUE
      BY <2>2 DEF Start
    <3>3. [call[c] EXCEPT !.pc = "connecting", !.req = r] \in CallState
      BY <1>1, CallTyped DEF PCs
    <3> QED
      BY <1>1, <3>1, <3>2, <3>3, SelectAssumption DEF TypeOK, CallState
  <2> QED
    BY <2>1, <2>2
<1>3. UNCHANGED <<tables, notes>> /\ replay' \subseteq replay /\ connected' = connected
  BY DEF Start, service
<1>4. TypeOK'
  BY <1>2, <1>3, SelectAssumption DEF TypeOK, tables, notes
<1>5. TableInv' /\ \A d \in Calls : CallInv(d)'
  <2>1. Counted(c)' /\ ~Writing(c)' /\ ~At(c, "done")'
    BY <1>2 DEF Counted, Writing, At
  <2> QED
    BY <1>2, <1>3, <2>1, NoWriteKeeps
<1>6. ReplayIsPersisted'
  BY <1>3, ReplayKeeps DEF tables, TypeOK
<1> QED
  BY <1>4, <1>5, <1>6

LEMMA ConnectedKeeps == ASSUME Inv, NEW c \in Calls, Connected(c) PROVE Inv'
<1> USE DEF Inv
<1>1. call[c] \in CallState /\ call[c].pc = "connecting" /\ call[c].next = 1 /\ call[c].req \in Requests
  BY DEF TypeOK, Connected, At, CallInv, Counted
<1>2. /\ call' \in [Calls -> CallState] /\ \A d \in Calls \ {c} : call'[d] = call[d]
      /\ call'[c].pc = "saveRequest" /\ call'[c].req = call[c].req /\ call'[c].next = 1
  <2> HIDE DEF Rankings, Cands
  <2>1. call' = [call EXCEPT ![c] = [call[c] EXCEPT !.pc = "saveRequest"]]
    BY DEF Connected, Goto, TypeOK
  <2>3. [call[c] EXCEPT !.pc = "saveRequest"] \in CallState
    BY <1>1, CallTyped DEF PCs
  <2> QED
    BY <1>1, <2>1, <2>3 DEF TypeOK, CallState
<1>3. UNCHANGED <<current, ready, replay, tables, notes>> /\ connected' = TRUE
  BY DEF Connected
<1>5. TypeOK'
  BY <1>2, <1>3 DEF TypeOK, tables, notes
<1>6. TableInv' /\ \A d \in Calls : CallInv(d)'
  <2>1. Counted(c)' /\ ~Writing(c)' /\ ~At(c, "done")'
    BY <1>1, <1>2 DEF Counted, Writing, At
  <2> QED
    BY <1>2, <1>3, <2>1, NoWriteKeeps
<1>7. ReplayIsPersisted'
  BY <1>3, ReplayKeeps DEF tables, TypeOK
<1> QED
  BY <1>5, <1>6, <1>7

LEMMA AbortKeeps == ASSUME Inv, NEW c \in Calls, Abort(c) PROVE Inv'
<1> USE DEF Inv, Abort
<1>1. /\ call' \in [Calls -> CallState]
      /\ call'[c].pc = "raised" /\ \A d \in Calls \ {c} : call'[d] = call[d]
      /\ UNCHANGED tables
  BY RaisedTyped
<1>2. TypeOK'
  BY <1>1 DEF TypeOK, service, tables, notes
<1>3. TableInv' /\ \A d \in Calls : CallInv(d)'
  <2>1. Counted(c)' /\ ~Writing(c)' /\ ~At(c, "done")'
    BY <1>1 DEF Counted, Writing, At
  <2> QED
    BY <1>1, <2>1, NoWriteKeeps
<1>4. ReplayIsPersisted'
  BY ReplayKeeps DEF tables, TypeOK
<1> QED
  BY <1>2, <1>3, <1>4

LEMMA CrashKeeps == ASSUME Inv, Crash PROVE Inv'
<1> USE DEF Inv, Crash
<1>1. [NewCall EXCEPT !.pc = "raised"] \in CallState /\ [NewCall EXCEPT !.pc = "raised"].pc = "raised"
  BY NewCallTyped DEF NewCall
<1>2. /\ call' \in [Calls -> CallState]
      /\ \A c \in Calls : call'[c] = call[c] \/ call'[c].pc = "raised"
  BY <1>1 DEF TypeOK, At
<1>3. TypeOK'
  BY <1>2 DEF TypeOK, tables
<1>4. TableInv' /\ \A d \in Calls : CallInv(d)'
  <2>1. \A c \in Calls : call'[c] = call[c] \/ (Counted(c)' /\ ~Writing(c)' /\ ~At(c, "done")')
    BY <1>2 DEF Counted, Writing, At
  <2> QED
    BY <1>2, <2>1, NoWriteKeeps
<1>5. ReplayIsPersisted'
  BY ReplayKeeps DEF tables, TypeOK
<1> QED
  BY <1>3, <1>4, <1>5

LEMMA NotesKeep ==
  ASSUME Inv, (\E r \in Requests : SaveFeedback(r)) \/ AppendAudit \/ Close PROVE Inv'
<1> USE DEF Inv, SaveFeedback, InsertFeedback, AppendAudit, Close, service, tables
<1>1. TypeOK'
  <2>1. CASE \E r \in Requests : SaveFeedback(r)
    BY <2>1 DEF TypeOK
  <2>2. CASE AppendAudit
    BY <2>2 DEF TypeOK
  <2>3. CASE Close
    BY <2>3 DEF TypeOK, notes
  <2> QED
    BY <2>1, <2>2, <2>3
<1>2. TableInv' /\ \A d \in Calls : CallInv(d)'
  BY NoWriteKeeps DEF TypeOK
<1>3. ReplayIsPersisted'
  BY ReplayKeeps DEF TypeOK
<1> QED
  BY <1>1, <1>2, <1>3
-----------------------------------------------------------------------------
(* Steps that write.                                                       *)
LEMMA Owner ==
  ASSUME Inv, NEW c \in Calls, Writing(c)
  PROVE  /\ call[c] \in CallState /\ Counted(c) /\ Owns(c) /\ Written(c)
         /\ Req(c) \in Requests /\ status[Req(c)] = "pending"
         /\ \A d \in Calls \ {c} : Writing(d) => Req(d) # Req(c)
         /\ \A x \in Writers(Req(c)) : x = c
         /\ call[c].rank \in Rankings /\ call[c].sel \in Cands /\ call[c].next \in 1..(N + 1)
<1>1. call[c] \in CallState /\ CallInv(c)
  BY DEF Inv, TypeOK
<1>2. call[c].rank \in Rankings /\ call[c].sel \in Cands /\ call[c].next \in 1..(N + 1)
  <2> HIDE DEF Rankings, Cands
  <2> QED
    BY <1>1 DEF CallState
<1>3. Counted(c) /\ Owns(c) /\ Written(c) /\ Req(c) \in Requests
  BY <1>1 DEF CallInv, Counted, Writing
<1>4. \A x \in Writers(Req(c)) : x = c
  <2>1. \A row \in rows[Req(c)] : row.by = c
    BY <1>3 DEF Written
  <2>2. \A e \in EpisodesOf(Req(c)) : e.by = c
    BY <1>3 DEF Written
  <2> QED
    BY <2>1, <2>2 DEF Writers
<1> QED
  BY <1>1, <1>2, <1>3, <1>4 DEF Owns

LEMMA WriteKeeps ==
  ASSUME Inv, NEW c \in Calls, NEW r \in Requests, status[r] # "completed", status'[r] # "none",
         current' = current, call' \in [Calls -> CallState],
         \A d \in Calls \ {c} : call'[d] = call[d] /\ (Writing(d) => Req(d) # r),
         Writing(c)' => Req(c)' = r,
         \A q \in Requests \ {r} : /\ status'[q] = status[q] /\ rows'[q] = rows[q]
                                   /\ dims'[q] = dims[q] /\ EpisodesOf(q)' = EpisodesOf(q),
         CallInv(c)', \A x \in Writers(r)' : x = c
  PROVE  TableInv' /\ \A d \in Calls : CallInv(d)'
<1>1. TableInv'
  <2> SUFFICES ASSUME NEW q \in Requests
               PROVE  /\ status'[q] = "none" => rows'[q] = {} /\ dims'[q] = {} /\ EpisodesOf(q)' = {}
                      /\ \A x, y \in Writers(q)' : x = y
    BY DEF TableInv
  <2>1. CASE q = r
    BY <2>1
  <2>2. CASE q # r
    <3>1. Writers(q)' = Writers(q)
      BY <2>2 DEF Writers
    <3> QED
      BY <2>2, <3>1 DEF Inv, TableInv
  <2> QED
    BY <2>1, <2>2
<1>2. ASSUME NEW d \in Calls, d # c PROVE CallInv(d)'
  BY <1>2, OthersKeep
<1> QED
  BY <1>1, <1>2

LEMMA SaveRequestKeeps == ASSUME Inv, NEW c \in Calls, SaveRequest(c) PROVE Inv'
<1> DEFINE r == Req(c)
<1>1. /\ call[c] \in CallState /\ call[c].pc = "saveRequest" /\ call[c].next = 1
      /\ r \in Requests /\ status[r] = "none"
  BY DEF Inv, TypeOK, CallInv, Counted, SaveRequest, InsertRequest
<1>2. /\ call' = [call EXCEPT ![c] = [call[c] EXCEPT !.pc = "score"]]
      /\ status' = [status EXCEPT ![r] = "pending"]
      /\ UNCHANGED <<service, replay, rows, dims, episodes, notes>>
  BY DEF SaveRequest, InsertRequest, Goto, Inv, TypeOK
<1>3. /\ call' \in [Calls -> CallState] /\ \A d \in Calls \ {c} : call'[d] = call[d]
      /\ call'[c].pc = "score" /\ call'[c].req = r /\ call'[c].next = 1
  <2>1. [call[c] EXCEPT !.pc = "score"] \in CallState
    BY <1>1, CallTyped DEF PCs
  <2> QED
    BY <1>1, <1>2, <2>1 DEF Inv, TypeOK, CallState
<1>4. TypeOK'
  BY <1>1, <1>2, <1>3 DEF Inv, TypeOK, service, notes
<1>5. rows[r] = {} /\ dims[r] = {} /\ EpisodesOf(r) = {}
  BY <1>1 DEF Inv, TableInv
<1>6. \A d \in Calls \ {c} : Writing(d) => Req(d) # r
  BY <1>1, Owner
<1>7. CallInv(c)'
  <2>1. Counted(c)' /\ Writing(c)' /\ ~At(c, "done")' /\ Req(c)' = r
    BY <1>1, <1>3 DEF Counted, Writing
  <2>2. Owns(c)'
    <3>1. status'[r] = "pending"
      BY <1>1, <1>2 DEF Inv, TypeOK
    <3>2. \A d \in Calls : Writing(d)' /\ Req(d)' = r => d = c
      BY <1>3, <1>6 DEF Writing
    <3> QED
      BY <2>1, <3>1, <3>2 DEF Owns
  <2>3. SavedTo(c)' = {} /\ ScoredTo(c)' = {} /\ EpisodesOf(r)' = {} /\ rows'[r] = {} /\ dims'[r] = {}
    BY <1>2, <1>3, <1>5 DEF SavedTo, ScoredTo, EpisodesOf
  <2>4. Written(c)'
    BY <1>3, <2>3 DEF Written, RowIds
  <2> QED
    BY <2>1, <2>2, <2>4 DEF CallInv
<1>8. \A x \in Writers(r)' : x = c
  BY <1>2, <1>5 DEF Writers, EpisodesOf
<1>9. TableInv' /\ \A d \in Calls : CallInv(d)'
  <2>1. /\ status'[r] # "none"
        /\ \A q \in Requests \ {r} : /\ status'[q] = status[q] /\ rows'[q] = rows[q]
                                     /\ dims'[q] = dims[q] /\ EpisodesOf(q)' = EpisodesOf(q)
    BY <1>1, <1>2 DEF Inv, TypeOK, EpisodesOf
  <2> QED
    BY <1>1, <1>2, <1>3, <1>6, <1>7, <1>8, <2>1, WriteKeeps DEF service
<1>10. ReplayIsPersisted'
  BY <1>2, ReplayKeeps DEF Inv, TypeOK
<1> QED
  BY <1>4, <1>9, <1>10 DEF Inv

LEMMA ScoredKeeps == ASSUME Inv, NEW c \in Calls, Scored(c) PROVE Inv'
<1> DEFINE r == Req(c)
<1>1. call[c].pc = "score" /\ Writing(c) /\ UNCHANGED <<service, replay, tables, notes>>
  BY DEF Scored, Writing
<1>2. PICK f \in Rankings, s \in Cands, j \in BOOLEAN :
        call' = [call EXCEPT ![c] = [call[c] EXCEPT !.pc = "saveCandidate", !.rank = f, !.sel = s, !.judged = j]]
  BY DEF Scored, Inv, TypeOK
<1>3. /\ call' \in [Calls -> CallState] /\ \A d \in Calls \ {c} : call'[d] = call[d]
      /\ call'[c].pc = "saveCandidate" /\ call'[c].req = r /\ call'[c].next = 1
      /\ call'[c].rank = f /\ call'[c].sel = s /\ call'[c].judged = j
  <2>1. call[c] \in CallState /\ call[c].next = 1
    BY <1>1, Owner DEF Counted
  <2>2. [call[c] EXCEPT !.pc = "saveCandidate", !.rank = f, !.sel = s, !.judged = j] \in CallState
    BY <2>1, CallTyped DEF PCs
  <2> HIDE DEF Rankings, Cands
  <2> QED
    BY <1>2, <2>1, <2>2 DEF Inv, TypeOK, CallState
<1>4. TypeOK'
  BY <1>1, <1>3 DEF Inv, TypeOK, service, tables, notes
<1>5. rows[r] = {} /\ dims[r] = {} /\ EpisodesOf(r) = {}
  <2>1. SavedTo(c) = {} /\ ScoredTo(c) = {}
    BY <1>1 DEF SavedTo, ScoredTo
  <2>2. Written(c) /\ r \in Requests
    BY <1>1, Owner
  <2>3. RowIds(r) = {} /\ dims[r] = {} /\ EpisodesOf(r) = {}
    BY <1>1, <2>1, <2>2 DEF Written
  <2> QED
    BY <2>3 DEF RowIds
<1>6. CallInv(c)'
  <2>1. Counted(c)' /\ Writing(c)' /\ ~At(c, "done")' /\ Req(c)' = r
    BY <1>1, <1>3, Owner, SelectAssumption DEF Counted, Writing
  <2>2. Owns(c)'
    BY <1>1, <1>3, Owner DEF Owns, Writing, tables
  <2>3. SavedTo(c)' = {} /\ ScoredTo(c)' = {} /\ EpisodesOf(r)' = {} /\ rows'[r] = {} /\ dims'[r] = {}
    BY <1>1, <1>3, <1>5, SelectAssumption DEF SavedTo, ScoredTo, EpisodesOf, tables
  <2>4. Written(c)'
    BY <1>3, <2>3 DEF Written, RowIds
  <2> QED
    BY <2>1, <2>2, <2>4 DEF CallInv
<1>7. TableInv' /\ \A d \in Calls : CallInv(d)'
  <2>1. \A q \in Requests : EpisodesOf(q)' = EpisodesOf(q) /\ Writers(q)' = Writers(q)
    BY <1>1 DEF tables, EpisodesOf, Writers
  <2>2. /\ r \in Requests /\ status[r] = "pending" /\ status' = status
        /\ \A d \in Calls \ {c} : Writing(d) => Req(d) # r
        /\ \A x \in Writers(r)' : x = c
    <3>1. /\ r \in Requests /\ status[r] = "pending"
          /\ \A d \in Calls \ {c} : Writing(d) => Req(d) # r
          /\ \A x \in Writers(r) : x = c
      BY <1>1, Owner
    <3> QED
      BY <1>1, <1>3, <2>1, <3>1 DEF tables
  <2> QED
    BY <1>1, <1>3, <1>6, <2>1, <2>2, WriteKeeps DEF service, tables
<1>8. ReplayIsPersisted'
  BY <1>1, ReplayKeeps DEF Inv, TypeOK, tables
<1> QED
  BY <1>4, <1>7, <1>8 DEF Inv

LEMMA SaveCandidateKeeps == ASSUME Inv, NEW c \in Calls, SaveCandidate(c) PROVE Inv'
<1>1. call[c].pc = "saveCandidate" /\ Writing(c)
  BY DEF SaveCandidate, Writing
<1>2. PICK r \in Requests : r = Req(c)
  BY <1>1, Owner
<1>3. /\ call[c] \in CallState /\ status[r] = "pending" /\ call[c].next \in 1..N
      /\ Owns(c) /\ Written(c) /\ call[c].rank \in Rankings /\ call[c].sel \in Cands
      /\ \A d \in Calls \ {c} : Writing(d) => Req(d) # r
  BY <1>1, <1>2, Owner DEF Counted
<1> DEFINE n == call[c].next
           row0 == [idx |-> call[c].rank[n], selected |-> call[c].rank[n] = call[c].sel, by |-> c]
<1>4. /\ call' = [call EXCEPT ![c] = [call[c] EXCEPT !.pc = "saveScores"]]
      /\ rows' = [rows EXCEPT ![r] = rows[r] \cup {row0}]
      /\ UNCHANGED <<service, replay, status, dims, episodes, notes>>
  BY <1>2 DEF SaveCandidate, InsertCandidate, Candidate, Goto, Inv, TypeOK
<1>5. /\ call' \in [Calls -> CallState] /\ \A d \in Calls \ {c} : call'[d] = call[d]
      /\ call'[c].pc = "saveScores" /\ call'[c].req = r /\ call'[c].next = n
      /\ call'[c].rank = call[c].rank /\ call'[c].sel = call[c].sel /\ call'[c].judged = call[c].judged
  <2>1. [call[c] EXCEPT !.pc = "saveScores"] \in CallState
    BY <1>3, CallTyped DEF PCs
  <2> HIDE DEF Rankings, Cands
  <2> QED
    BY <1>2, <1>3, <1>4, <2>1 DEF Inv, TypeOK, CallState
<1>6. row0 \in Row /\ row0.by = c /\ row0.idx = call[c].rank[n] /\ (row0.selected <=> row0.idx = call[c].sel)
  <2>1. call[c].rank[n] \in Cands
    BY <1>3 DEF Rankings
  <2> QED
    BY <2>1 DEF Row
<1> HIDE DEF row0
<1>7. rows'[r] = rows[r] \cup {row0} /\ \A q \in Requests \ {r} : rows'[q] = rows[q]
  BY <1>4 DEF Inv, TypeOK
<1>8. \A q \in Requests : rows[q] \subseteq rows'[q] /\ rows'[q] \subseteq Row
  BY <1>6, <1>7 DEF Inv, TypeOK
<1>9. TypeOK'
  <2>1. rows' \in [Requests -> SUBSET Row]
    BY <1>4, <1>6 DEF Inv, TypeOK
  <2> QED
    BY <1>4, <1>5, <2>1 DEF Inv, TypeOK, service, notes
<1>10. CallInv(c)'
  <2>1. Counted(c)' /\ Writing(c)' /\ ~At(c, "done")' /\ Req(c)' = r
    BY <1>2, <1>3, <1>5 DEF Counted, Writing
  <2>2. Owns(c)'
    BY <1>1, <1>2, <1>3, <1>4, <1>5 DEF Owns, Writing
  <2>3. SavedTo(c)' = SavedTo(c) \cup {n} /\ ScoredTo(c)' = ScoredTo(c)
    BY <1>1, <1>3, <1>5 DEF SavedTo, ScoredTo
  <2>4. \A row \in rows'[r] : row.by = c /\ (row.selected <=> row.idx = call[c].sel)
    BY <1>2, <1>3, <1>6, <1>7 DEF Written
  <2>5. {row.idx : row \in rows'[r]} = {call[c].rank[i] : i \in SavedTo(c)'}
    <3>1. {row.idx : row \in rows[r]} = {call[c].rank[i] : i \in SavedTo(c)}
      BY <1>2, <1>3 DEF Written, RowIds
    <3>2. {row.idx : row \in rows'[r]} = {row.idx : row \in rows[r]} \cup {call[c].rank[n]}
      BY <1>6, <1>7
    <3> QED
      BY <2>3, <3>1, <3>2
  <2>6. call[c].judged => dims'[r] = {call[c].rank[i] : i \in ScoredTo(c)'}
    BY <1>2, <1>3, <1>4, <2>3 DEF Written
  <2>7. EpisodesOf(r)' = {}
    BY <1>1, <1>2, <1>3, <1>4 DEF Written, EpisodesOf
  <2>8. Written(c)'
    <3>1. RowIds(Req(c))' = {call'[c].rank[i] : i \in SavedTo(c)'}
      BY <1>5, <2>1, <2>5 DEF RowIds
    <3> QED
      BY <1>5, <2>1, <2>4, <2>6, <2>7, <3>1 DEF Written
  <2> QED
    BY <2>1, <2>2, <2>8 DEF CallInv
<1>11. TableInv' /\ \A d \in Calls : CallInv(d)'
  <2>1. \A q \in Requests : EpisodesOf(q)' = EpisodesOf(q)
    BY <1>4 DEF EpisodesOf
  <2>2. \A x \in Writers(r)' : x = c
    BY <1>1, <1>2, <1>6, <1>7, <2>1, Owner DEF Writers
  <2> QED
    BY <1>3, <1>4, <1>5, <1>7, <1>10, <2>1, <2>2, WriteKeeps DEF service
<1>12. ReplayIsPersisted'
  BY <1>4, <1>8, ReplayKeeps
<1> QED
  BY <1>9, <1>11, <1>12 DEF Inv

LEMMA SaveScoresKeeps == ASSUME Inv, NEW c \in Calls, SaveScores(c) PROVE Inv'
<1>1. call[c].pc = "saveScores" /\ Writing(c)
  BY DEF SaveScores, Writing
<1>2. PICK r \in Requests : r = Req(c)
  BY <1>1, Owner
<1>3. /\ call[c] \in CallState /\ status[r] = "pending" /\ call[c].next \in 1..N
      /\ Owns(c) /\ Written(c) /\ call[c].rank \in Rankings /\ call[c].sel \in Cands
      /\ \A d \in Calls \ {c} : Writing(d) => Req(d) # r
  BY <1>1, <1>2, Owner DEF Counted
<1> DEFINE n == call[c].next
<1>4. /\ call' = [call EXCEPT ![c] = [call[c] EXCEPT !.next = n + 1, !.pc = AfterScores(n + 1)]]
      /\ dims' = IF call[c].judged THEN [dims EXCEPT ![r] = dims[r] \cup {call[c].rank[n]}] ELSE dims
      /\ UNCHANGED <<service, replay, status, rows, episodes, notes>>
  BY <1>2 DEF SaveScores, InsertScores, Candidate, Inv, TypeOK
<1>5. /\ call' \in [Calls -> CallState] /\ \A d \in Calls \ {c} : call'[d] = call[d]
      /\ call'[c].pc = AfterScores(n + 1) /\ call'[c].req = r /\ call'[c].next = n + 1
      /\ call'[c].rank = call[c].rank /\ call'[c].sel = call[c].sel /\ call'[c].judged = call[c].judged
  <2>1. AfterScores(n + 1) \in PCs /\ n + 1 \in 1..(N + 1)
    BY <1>3, SelectAssumption DEF PCs, AfterScores
  <2>2. [call[c] EXCEPT !.next = n + 1, !.pc = AfterScores(n + 1)] \in CallState
    BY <1>3, <2>1, CallTyped
  <2> HIDE DEF Rankings, Cands
  <2> QED
    BY <1>2, <1>3, <1>4, <2>1, <2>2 DEF Inv, TypeOK, CallState
<1>6. call[c].rank[n] \in Cands
  BY <1>3 DEF Rankings
<1>7. /\ call[c].judged => dims'[r] = dims[r] \cup {call[c].rank[n]}
      /\ \A q \in Requests \ {r} : dims'[q] = dims[q]
      /\ dims' \in [Requests -> SUBSET Cands]
  BY <1>4, <1>6 DEF Inv, TypeOK
<1>8. TypeOK'
  BY <1>4, <1>5, <1>7 DEF Inv, TypeOK, service, notes
<1>9. \A q \in Requests : EpisodesOf(q)' = EpisodesOf(q) /\ Writers(q)' = Writers(q)
  BY <1>4 DEF EpisodesOf, Writers
<1>10. CallInv(c)'
  <2>1. Counted(c)' /\ Writing(c)' /\ ~At(c, "done")' /\ Req(c)' = r
    BY <1>2, <1>3, <1>5, SelectAssumption DEF Counted, Writing, AfterScores
  <2>2. Owns(c)'
    BY <1>1, <1>2, <1>3, <1>4, <1>5, <2>1 DEF Owns, Writing
  <2>3. SavedTo(c)' = SavedTo(c) /\ ScoredTo(c)' = ScoredTo(c) \cup {n}
    <3>1. CASE n = N
      <4>1. call'[c].pc = "saveEpisode"
        BY <1>5, <3>1, SelectAssumption DEF AfterScores
      <4>2. SavedTo(c) = 1..N /\ SavedTo(c)' = 1..N
        BY <1>1, <3>1, <4>1, SelectAssumption DEF SavedTo
      <4>3. ScoredTo(c) \cup {n} = 1..N /\ ScoredTo(c)' = 1..N
        BY <1>1, <3>1, <4>1, SelectAssumption DEF ScoredTo
      <4> QED
        BY <4>2, <4>3
    <3>2. CASE n # N
      <4>1. call'[c].pc = "saveCandidate" /\ n \in 1..N /\ N \in Nat
        BY <1>3, <1>5, <3>2, SelectAssumption DEF AfterScores
      <4> QED
        BY <1>1, <1>5, <4>1 DEF SavedTo, ScoredTo
    <3> QED
      BY <3>1, <3>2
  <2>4. /\ \A row \in rows'[r] : row.by = c /\ (row.selected <=> row.idx = call[c].sel)
        /\ {row.idx : row \in rows'[r]} = {call[c].rank[i] : i \in SavedTo(c)'}
    BY <1>2, <1>3, <1>4, <2>3 DEF Written, RowIds
  <2>5. call[c].judged => dims'[r] = {call[c].rank[i] : i \in ScoredTo(c)'}
    <3>1. call[c].judged => dims[r] = {call[c].rank[i] : i \in ScoredTo(c)}
      BY <1>2, <1>3 DEF Written
    <3> QED
      BY <1>7, <2>3, <3>1
  <2>6. EpisodesOf(r)' = {} /\ call'[c].pc \in {"saveCandidate", "saveEpisode"}
    BY <1>1, <1>2, <1>3, <1>5, <1>9 DEF Written, AfterScores
  <2>7. Written(c)'
    BY <1>5, <2>4, <2>5, <2>6 DEF Written, RowIds
  <2> QED
    BY <2>1, <2>2, <2>7 DEF CallInv
<1>11. TableInv' /\ \A d \in Calls : CallInv(d)'
  <2>1. \A x \in Writers(r)' : x = c
    BY <1>1, <1>2, <1>9, Owner
  <2> QED
    BY <1>3, <1>4, <1>5, <1>7, <1>9, <1>10, <2>1, WriteKeeps DEF service
<1>12. ReplayIsPersisted'
  BY <1>4, ReplayKeeps DEF Inv, TypeOK
<1> QED
  BY <1>8, <1>11, <1>12 DEF Inv

(* After save_episode, and when the answer to its commit was lost.         *)
LEMMA SaveEpisodeKeeps == ASSUME Inv, NEW c \in Calls, SaveEpisode(c) PROVE Inv'
<1>1. call[c].pc = "saveEpisode" /\ Writing(c)
  BY DEF SaveEpisode, Writing
<1>2. PICK r \in Requests : r = Req(c)
  BY <1>1, Owner
<1>3. /\ call[c] \in CallState /\ status[r] = "pending"
      /\ Owns(c) /\ Written(c) /\ call[c].rank \in Rankings /\ call[c].sel \in Cands
      /\ \A d \in Calls \ {c} : Writing(d) => Req(d) # r
  BY <1>1, <1>2, Owner
<1> DEFINE ep == [by |-> c, req |-> r, action |-> call[c].sel]
<1>4. /\ episodes' = episodes \cup {ep}
      /\ UNCHANGED <<service, status, rows, dims, notes>>
      /\ \/ /\ replay' = replay \cup {Transition(c)}
            /\ call' = [call EXCEPT ![c] = [call[c] EXCEPT !.pc = "complete"]]
         \/ replay' = replay /\ Raise(c)
  BY <1>2 DEF SaveEpisode, InsertEpisode, Goto, Inv, TypeOK
<1>5. ep \in Episode /\ ep.req = r /\ ep.by = c
  BY <1>3 DEF Episode
<1>6. RowIds(r) = Cands
  <2>1. SavedTo(c) = 1..N
    BY <1>1 DEF SavedTo
  <2> QED
    BY <1>2, <1>3, <2>1, RankCovers DEF Written
<1>7. Transition(c) \in [by : Calls, req : Requests, action : Cands, rank : Rankings]
  <2> HIDE DEF Rankings, Cands
  <2> QED
    BY <1>2, <1>3 DEF Transition
<1>8. /\ EpisodesOf(r)' = {ep}
      /\ \A q \in Requests \ {r} : EpisodesOf(q)' = EpisodesOf(q)
  <2>1. EpisodesOf(r) = {}
    BY <1>1, <1>2, <1>3 DEF Written
  <2> QED
    BY <1>4, <1>5, <2>1 DEF EpisodesOf
<1>9. \A x \in Writers(r)' : x = c
  BY <1>1, <1>2, <1>4, <1>5, <1>8, Owner DEF Writers
<1>10. ReplayIsPersisted'
  <2> SUFFICES ASSUME NEW t \in replay'
               PROVE  /\ [by |-> t.by, req |-> t.req, action |-> t.action] \in episodes'
                      /\ {row.idx : row \in rows'[t.req]} = Cands
    BY DEF ReplayIsPersisted
  <2>1. CASE t \in replay
    BY <1>4, <2>1 DEF Inv, ReplayIsPersisted
  <2>2. CASE t = Transition(c)
    BY <1>2, <1>4, <1>6, <2>2 DEF Transition, RowIds
  <2> QED
    BY <1>4, <2>1, <2>2
<1>11. CASE call' = [call EXCEPT ![c] = [call[c] EXCEPT !.pc = "complete"]] /\ replay' = replay \cup {Transition(c)}
  <2>1. /\ call' \in [Calls -> CallState] /\ \A d \in Calls \ {c} : call'[d] = call[d]
        /\ call'[c].pc = "complete" /\ call'[c].req = r /\ call'[c].rank = call[c].rank
        /\ call'[c].sel = call[c].sel /\ call'[c].judged = call[c].judged
    <3>1. [call[c] EXCEPT !.pc = "complete"] \in CallState
      BY <1>3, CallTyped DEF PCs
    <3> HIDE DEF Rankings, Cands
    <3> QED
      BY <1>2, <1>3, <1>11, <3>1 DEF Inv, TypeOK, CallState
  <2>2. TypeOK'
    BY <1>4, <1>5, <1>7, <1>11, <2>1 DEF Inv, TypeOK, service, notes
  <2>3. Counted(c)' /\ Writing(c)' /\ ~At(c, "done")' /\ Req(c)' = r
    BY <1>2, <2>1 DEF Counted, Writing
  <2>4. Owns(c)'
    BY <1>1, <1>2, <1>3, <1>4, <2>1 DEF Owns, Writing
  <2>5. SavedTo(c)' = SavedTo(c) /\ ScoredTo(c)' = ScoredTo(c)
    BY <1>1, <2>1 DEF SavedTo, ScoredTo
  <2>6. Written(c)'
    <3>1. /\ \A row \in rows'[r] : row.by = c /\ (row.selected <=> row.idx = call[c].sel)
          /\ {row.idx : row \in rows'[r]} = {call[c].rank[i] : i \in SavedTo(c)}
          /\ call[c].judged => dims'[r] = {call[c].rank[i] : i \in ScoredTo(c)}
      BY <1>1, <1>2, <1>3, <1>4 DEF Written, RowIds
    <3>2. RowIds(Req(c))' = {call'[c].rank[i] : i \in SavedTo(c)'}
      BY <2>1, <2>3, <2>5, <3>1 DEF RowIds
    <3>3. EpisodesOf(Req(c))' = {[by |-> c, req |-> Req(c)', action |-> call'[c].sel]}
      BY <1>8, <2>1, <2>3
    <3> QED
      BY <2>1, <2>3, <2>5, <3>1, <3>2, <3>3 DEF Written
  <2>7. CallInv(c)'
    BY <2>3, <2>4, <2>6 DEF CallInv
  <2>8. TableInv' /\ \A d \in Calls : CallInv(d)'
    BY <1>3, <1>4, <1>8, <1>9, <2>1, <2>7, WriteKeeps DEF service
  <2> QED
    BY <1>10, <2>2, <2>8 DEF Inv
<1>12. CASE Raise(c) /\ replay' = replay
  <2>1. /\ call' \in [Calls -> CallState] /\ \A d \in Calls \ {c} : call'[d] = call[d]
        /\ call'[c].pc = "raised"
    BY <1>12, RaisedTyped
  <2>2. TypeOK'
    BY <1>4, <1>5, <1>12, <2>1 DEF Inv, TypeOK, service, notes
  <2>3. CallInv(c)' /\ ~Writing(c)'
    BY <2>1 DEF CallInv, Counted, Writing
  <2>4. TableInv' /\ \A d \in Calls : CallInv(d)'
    BY <1>3, <1>4, <1>8, <1>9, <2>1, <2>3, WriteKeeps DEF service
  <2> QED
    BY <1>10, <2>2, <2>4 DEF Inv
<1> QED
  BY <1>4, <1>11, <1>12

(* What a call has written when all that is left is complete_request.      *)
LEMMA WholeRequest ==
  ASSUME Inv, NEW c \in Calls, call[c].pc = "complete"
  PROVE  /\ RowIds(Req(c)) = Cands /\ Winners(Req(c)) = {call[c].sel}
         /\ call[c].judged => dims[Req(c)] = Cands
         /\ {e.action : e \in EpisodesOf(Req(c))} = {call[c].sel}
<1>1. Written(c) /\ call[c].rank \in Rankings /\ call[c].sel \in Cands
  BY Owner DEF Writing
<1>2. SavedTo(c) = 1..N /\ ScoredTo(c) = 1..N
  BY DEF SavedTo, ScoredTo
<1>3. RowIds(Req(c)) = Cands /\ (call[c].judged => dims[Req(c)] = Cands)
  BY <1>1, <1>2, RankCovers DEF Written
<1>4. PICK row \in rows[Req(c)] : row.idx = call[c].sel
  BY <1>1, <1>3 DEF RowIds
<1>5. row.selected /\ \A x \in rows[Req(c)] : x.selected => x.idx = call[c].sel
  BY <1>1, <1>4 DEF Written
<1>6. Winners(Req(c)) = {call[c].sel}
  BY <1>4, <1>5 DEF Winners
<1>7. EpisodesOf(Req(c)) = {[by |-> c, req |-> Req(c), action |-> call[c].sel]}
  BY <1>1 DEF Written
<1> QED
  BY <1>3, <1>6, <1>7

LEMMA CompleteRequestKeeps == ASSUME Inv, NEW c \in Calls, CompleteRequest(c) PROVE Inv'
<1>1. call[c].pc = "complete" /\ Writing(c)
  BY DEF CompleteRequest, Writing
<1>2. PICK r \in Requests : r = Req(c)
  BY <1>1, Owner
<1>3. /\ call[c] \in CallState /\ status[r] = "pending" /\ call[c].sel \in Cands
      /\ \A d \in Calls \ {c} : Writing(d) => Req(d) # r
  BY <1>1, <1>2, Owner
<1>4. /\ call' = [call EXCEPT ![c] = [call[c] EXCEPT !.pc = "done", !.rank = AsGiven]]
      /\ status' = [status EXCEPT ![r] = "completed"]
      /\ UNCHANGED <<service, replay, rows, dims, episodes, notes>>
  BY <1>2 DEF CompleteRequest, SetStatus, Inv, TypeOK
<1>5. /\ call' \in [Calls -> CallState] /\ \A d \in Calls \ {c} : call'[d] = call[d]
      /\ call'[c].pc = "done" /\ call'[c].req = r
      /\ call'[c].sel = call[c].sel /\ call'[c].judged = call[c].judged
  <2>1. [call[c] EXCEPT !.pc = "done", !.rank = AsGiven] \in CallState
    BY <1>3, CallTyped, GivenRanks DEF PCs
  <2> HIDE DEF Rankings, Cands, AsGiven
  <2> QED
    BY <1>2, <1>3, <1>4, <2>1 DEF Inv, TypeOK, CallState
<1>6. /\ status'[r] = "completed" /\ \A q \in Requests \ {r} : status'[q] = status[q]
      /\ status' \in [Requests -> {"none", "pending", "completed"}]
  BY <1>4 DEF Inv, TypeOK
<1>7. TypeOK'
  BY <1>4, <1>5, <1>6 DEF Inv, TypeOK, service, notes
<1>8. CallInv(c)'
  <2>1. Counted(c)' /\ ~Writing(c)' /\ Req(c)' = r
    BY <1>5 DEF Counted, Writing
  <2>2. Winners(r)' = {call[c].sel} /\ (call[c].judged => dims'[r] = Cands)
    BY <1>1, <1>2, <1>4, WholeRequest DEF Winners
  <2>3. Recorded(c)'
    BY <1>5, <1>6, <2>2 DEF Recorded, Winners
  <2> QED
    BY <2>1, <2>3 DEF CallInv
<1>9. \A q \in Requests : EpisodesOf(q)' = EpisodesOf(q) /\ Writers(q)' = Writers(q)
  BY <1>4 DEF EpisodesOf, Writers
<1>10. TableInv' /\ \A d \in Calls : CallInv(d)'
  <2>1. \A x \in Writers(r)' : x = c
    BY <1>1, <1>2, <1>9, Owner
  <2>2. ~Writing(c)'
    BY <1>5 DEF Writing
  <2> QED
    BY <1>3, <1>4, <1>5, <1>6, <1>8, <1>9, <2>1, <2>2, WriteKeeps DEF service
<1>11. ReplayIsPersisted'
  BY <1>4, ReplayKeeps DEF Inv, TypeOK
<1> QED
  BY <1>7, <1>10, <1>11 DEF Inv

LEMMA StepKeeps == Inv /\ [Next]_vars => Inv'
<1> SUFFICES ASSUME Inv, [Next]_vars PROVE Inv'
  OBVIOUS
<1>1. ASSUME NEW c \in Calls, NEW r \in Requests, Start(c, r) PROVE Inv'
  BY <1>1, StartKeeps
<1>2. ASSUME NEW c \in Calls,
             \/ Connected(c) \/ SaveRequest(c) \/ Scored(c) \/ SaveCandidate(c)
             \/ SaveScores(c) \/ SaveEpisode(c) \/ CompleteRequest(c) \/ Abort(c)
      PROVE  Inv'
  BY <1>2, ConnectedKeeps, SaveRequestKeeps, ScoredKeeps, SaveCandidateKeeps, SaveScoresKeeps,
     SaveEpisodeKeeps, CompleteRequestKeeps, AbortKeeps
<1>3. CASE (\E r \in Requests : SaveFeedback(r)) \/ AppendAudit \/ Close
  BY <1>3, NotesKeep
<1>4. CASE Crash
  BY <1>4, CrashKeeps
<1>5. CASE UNCHANGED vars
  <2>1. TypeOK' /\ call' \in [Calls -> CallState]
    BY <1>5 DEF Inv, TypeOK, vars, service, tables, notes
  <2>2. TableInv' /\ \A c \in Calls : CallInv(c)'
    BY <1>5, <2>1, NoWriteKeeps DEF vars, service
  <2>3. ReplayIsPersisted'
    BY <1>5, ReplayKeeps DEF Inv, TypeOK, vars, tables
  <2> QED
    BY <2>1, <2>2, <2>3 DEF Inv
<1> QED
  BY <1>1, <1>2, <1>3, <1>4, <1>5 DEF Next

(* The inductive invariant holds throughout.                               *)
THEOREM Invariance == Spec => []Inv
BY InitInv, StepKeeps, PTL DEF Spec
-----------------------------------------------------------------------------
(* Type correctness.                                                       *)
THEOREM TypeCorrect == Spec => []TypeOK
<1>1. Inv => TypeOK
  BY DEF Inv
<1> QED
  BY <1>1, Invariance, PTL

(* However many calls use a request id, as retries or by chance, and       *)
(* wherever they fail, the rows and the episode of a request come from one *)
(* call.                                                                   *)
THEOREM RequestHasOneWriter == Spec => []OneWriter
<1>1. Inv => OneWriter
  <2> SUFFICES ASSUME Inv, NEW r \in Requests PROVE Cardinality(Writers(r)) <= 1
    BY DEF OneWriter, Writers, EpisodesOf
  <2>1. \A c, d \in Writers(r) : c = d
    BY DEF Inv, TableInv
  <2>2. CASE Writers(r) = {}
    BY <2>2, FS_EmptySet
  <2>3. CASE Writers(r) # {}
    <3>1. PICK c \in Writers(r) : TRUE
      BY <2>3
    <3>2. Writers(r) = {c}
      BY <2>1, <3>1
    <3> QED
      BY <3>2, FS_Singleton
  <2> QED
    BY <2>2, <2>3
<1> QED
  BY <1>1, Invariance, PTL

(* A caller that got its answer finds it in the tables, with any number of *)
(* candidates.                                                             *)
THEOREM AnswersAreRecorded == Spec => []AnswerIsRecorded
<1>1. Inv => AnswerIsRecorded
  <2> SUFFICES ASSUME Inv, NEW c \in Calls, At(c, "done")
               PROVE  /\ status[Req(c)] = "completed"
                      /\ {row.idx : row \in {x \in rows[Req(c)] : x.selected}} = {call[c].sel}
                      /\ call[c].judged => dims[Req(c)] = Cands
    BY DEF AnswerIsRecorded
  <2> QED
    BY DEF Inv, CallInv, Recorded, Winners
<1> QED
  BY <1>1, Invariance, PTL

(* Every transition that training may draw is backed by its episode and by *)
(* all candidates of its request.                                          *)
THEOREM ReplayHasItsRows == Spec => []ReplayIsPersisted
<1>1. Inv => ReplayIsPersisted
  BY DEF Inv
<1> QED
  BY <1>1, Invariance, PTL
-----------------------------------------------------------------------------
(* What readers of completed requests see does not change unless a request *)
(* is completed.                                                           *)
LEMMA VisibleKeeps ==
  ASSUME \A q \in Requests :
           /\ status'[q] = "completed" <=> status[q] = "completed"
           /\ status[q] = "completed" => rows'[q] = rows[q] /\ EpisodesOf(q)' = EpisodesOf(q)
  PROVE  UNCHANGED Visible
<1> DEFINE View(done, rs, es) ==
      IF done
      THEN [candidates |-> {row.idx : row \in rs},
            winners    |-> {row.idx : row \in {x \in rs : x.selected}},
            actions    |-> {e.action : e \in es}]
      ELSE [candidates |-> {}, winners |-> {}, actions |-> {}]
<1>1. Visible = [r \in Requests |-> View(status[r] = "completed", rows[r], EpisodesOf(r))]
  BY DEF Visible, EpisodesOf
<1>2. Visible' = [r \in Requests |-> View(status'[r] = "completed", rows'[r], EpisodesOf(r)')]
  BY DEF Visible, EpisodesOf
<1>3. ASSUME NEW r \in Requests
      PROVE  View(status'[r] = "completed", rows'[r], EpisodesOf(r)')
               = View(status[r] = "completed", rows[r], EpisodesOf(r))
  <2>1. CASE status[r] = "completed"
    BY <2>1
  <2>2. CASE status[r] # "completed"
    BY <2>2
  <2> QED
    BY <2>1, <2>2
<1> HIDE DEF View
<1> QED
  BY <1>1, <1>2, <1>3

(* A call writes to a pending request, which no reader sees.               *)
LEMMA WritesUnseen ==
  ASSUME Inv, NEW c \in Calls,
         SaveRequest(c) \/ SaveCandidate(c) \/ SaveScores(c) \/ SaveEpisode(c)
  PROVE  UNCHANGED Visible
<1>1. PICK r \in Requests : r = Req(c) /\ status[r] # "completed"
  <2>1. CASE SaveRequest(c)
    BY <2>1 DEF SaveRequest, InsertRequest, Inv, CallInv, Counted
  <2>2. CASE SaveCandidate(c) \/ SaveScores(c) \/ SaveEpisode(c)
    <3>1. Writing(c)
      BY <2>2 DEF SaveCandidate, SaveScores, SaveEpisode, Writing
    <3> QED
      BY <3>1, Owner
  <2> QED
    BY <2>1, <2>2
<1>2. \A q \in Requests \ {r} : status'[q] = status[q] /\ rows'[q] = rows[q] /\ EpisodesOf(q)' = EpisodesOf(q)
  <2>1. CASE SaveRequest(c)
    BY <1>1, <2>1 DEF SaveRequest, InsertRequest, EpisodesOf, Inv, TypeOK
  <2>2. CASE SaveCandidate(c)
    BY <1>1, <2>2 DEF SaveCandidate, InsertCandidate, EpisodesOf, Inv, TypeOK
  <2>3. CASE SaveScores(c)
    BY <2>3 DEF SaveScores, EpisodesOf
  <2>4. CASE SaveEpisode(c)
    BY <1>1, <2>4 DEF SaveEpisode, InsertEpisode, EpisodesOf
  <2> QED
    BY <2>1, <2>2, <2>3, <2>4
<1>3. status'[r] # "completed"
  <2>1. CASE SaveRequest(c)
    BY <1>1, <2>1 DEF SaveRequest, InsertRequest, Inv, TypeOK
  <2>2. CASE SaveCandidate(c) \/ SaveScores(c) \/ SaveEpisode(c)
    BY <1>1, <2>2 DEF SaveCandidate, SaveScores, SaveEpisode
  <2> QED
    BY <2>1, <2>2
<1> QED
  BY <1>1, <1>2, <1>3, VisibleKeeps

LEMMA CompletePublishes ==
  ASSUME Inv, NEW c \in Calls, CompleteRequest(c) PROVE Ledger!Next
<1>1. call[c].pc = "complete" /\ Writing(c)
  BY DEF CompleteRequest, Writing
<1>2. PICK r \in Requests : r = Req(c)
  BY <1>1, Owner
<1>3. status[r] = "pending" /\ call[c].sel \in Cands
  BY <1>1, <1>2, Owner
<1>4. status' = [status EXCEPT ![r] = "completed"] /\ UNCHANGED <<rows, episodes>>
  BY <1>2 DEF CompleteRequest, SetStatus
<1>5. Visible[r] = Ledger!Unpublished
  BY <1>3 DEF Visible, Ledger!Unpublished
<1>6. Visible'[r] = Ledger!Published(call[c].sel)
  <2>1. /\ {row.idx : row \in rows[r]} = Cands
        /\ {row.idx : row \in {x \in rows[r] : x.selected}} = {call[c].sel}
        /\ {e.action : e \in {x \in episodes : x.req = r}} = {call[c].sel}
    BY <1>1, <1>2, WholeRequest DEF RowIds, Winners, EpisodesOf
  <2>2. status'[r] = "completed"
    BY <1>4 DEF Inv, TypeOK
  <2>3. Visible'[r] = [candidates |-> {row.idx : row \in rows[r]},
                       winners    |-> {row.idx : row \in {x \in rows[r] : x.selected}},
                       actions    |-> {e.action : e \in {x \in episodes : x.req = r}}]
    BY <1>4, <2>2 DEF Visible
  <2> QED
    BY <2>1, <2>3 DEF Ledger!Published, Cands
<1>7. \A q \in Requests \ {r} : Visible'[q] = Visible[q]
  <2>1. \A q \in Requests \ {r} : status'[q] = status[q]
    BY <1>4 DEF Inv, TypeOK
  <2> QED
    BY <1>4, <2>1 DEF Visible
<1>8. Visible' = [Visible EXCEPT ![r] = Ledger!Published(call[c].sel)]
  BY <1>6, <1>7 DEF Visible
<1> QED
  BY <1>3, <1>5, <1>8 DEF Ledger!Next, Ledger!Publish, Cands

LEMMA StepPublishes == Inv /\ [Next]_vars => [Ledger!Next]_Visible
<1> SUFFICES ASSUME Inv, [Next]_vars PROVE Ledger!Next \/ UNCHANGED Visible
  OBVIOUS
<1>1. CASE UNCHANGED <<status, rows, episodes>>
  BY <1>1, VisibleKeeps DEF EpisodesOf
<1>2. ASSUME NEW c \in Calls, CompleteRequest(c) PROVE Ledger!Next
  BY <1>2, CompletePublishes
<1>3. ASSUME NEW c \in Calls, SaveRequest(c) \/ SaveCandidate(c) \/ SaveScores(c) \/ SaveEpisode(c)
      PROVE  UNCHANGED Visible
  BY <1>3, WritesUnseen
<1>4. \/ UNCHANGED <<status, rows, episodes>>
      \/ \E c \in Calls : \/ CompleteRequest(c) \/ SaveRequest(c) \/ SaveCandidate(c)
                          \/ SaveScores(c) \/ SaveEpisode(c)
  BY DEF Next, vars, tables, Start, Connected, Scored, Abort, SaveFeedback, AppendAudit, Close, Crash
<1> QED
  BY <1>1, <1>2, <1>3, <1>4

(* The transactions of select implement the ledger for any number of       *)
(* calls, retries, candidates and failures: a request is published at      *)
(* once, whole, and never changes again.                                   *)
THEOREM SelectPublishesAtomically == Spec => PublishesAtomically
<1>1. Init => Ledger!Init
  BY DEF Init, EmptyTables, Visible, Ledger!Init, Ledger!Unpublished
<1> QED
  BY <1>1, StepPublishes, Invariance, PTL DEF Spec, PublishesAtomically, Ledger!Spec
=============================================================================
