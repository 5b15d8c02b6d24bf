------------------------------ MODULE DataLoop ------------------------------
(***************************************************************************)
(* scripts/build_replay_buffer.py against the service: evaluate, give      *)
(* feedback, train every so many evaluations, and once more at the end for *)
(* what is left over.  Other clients select, rate and train meanwhile, and *)
(* the server may restart.                                                 *)
(*                                                                         *)
(* The script handles answers with an error status everywhere, and a       *)
(* refused connection in _evaluate alone; any other error of the transport *)
(* (a refused connection elsewhere, an answer that does not come) ends it  *)
(* with a traceback.                                                       *)
(***************************************************************************)
EXTENDS Learning

CONSTANTS Rounds,      (* --rounds                                         *)
          TrainEvery   (* --train-every                                    *)

ASSUME DataLoopAssumption ==
  /\ Rounds \in Nat
  /\ TrainEvery \in Nat \ {0}
  /\ "script" \in Clients \ Facades

VARIABLES
  pc,         (* what the script does next                                 *)
  round,      (* the scenario it is at                                     *)
  evaluated,
  mine,       (* the selection it waits for                                *)
  counted,    (* the selections that made up evaluated                     *)
  asked,      (* the buffer when its training was asked for                *)
  offered,    (* what was in the buffer at trainings it took for done      *)
  lost,       (* what restarts took out of the buffer                      *)
  lastTrain   (* did its last training come to nothing                     *)

script == <<pc, round, evaluated, mine, counted, asked, offered, lastTrain>>
vars == <<learning, script, lost>>

Over == {"done", "unreachable", "aborted"}
-----------------------------------------------------------------------------
Abort ==
  /\ pc \notin Over
  /\ pc' = "aborted"
  /\ UNCHANGED <<learning, round, evaluated, mine, counted, asked, offered, lost, lastTrain>>

(* The first _policy_status.                                               *)
Greet ==
  /\ pc = "start"
  /\ pc' \in {"evaluate", "unreachable"}
  /\ UNCHANGED <<learning, round, evaluated, mine, counted, asked, offered, lost, lastTrain>>

(* A round whose _evaluate returns None: an error status before anything   *)
(* was recorded, or no connection.                                         *)
Skip ==
  /\ pc = "evaluate"
  /\ round < Rounds
  /\ round' = round + 1
  /\ UNCHANGED <<learning, pc, evaluated, mine, counted, asked, offered, lost, lastTrain>>

Evaluate ==
  /\ pc = "evaluate"
  /\ round < Rounds
  /\ ShowCandidates
  /\ mine' = selects'
  /\ pc' = "scored"
  /\ UNCHANGED <<round, evaluated, counted, asked, offered, lost, lastTrain>>

(* The answer: 200, or the 500 of a selection that was not recorded, or of *)
(* one that was and whose request could not be completed.                  *)
Evaluated ==
  /\ pc = "scored"
  /\ Quiet
  /\ mine \notin pending
  /\ \/ /\ mine \in buffer
        /\ evaluated' = evaluated + 1
        /\ counted' = counted \cup {mine}
        /\ pc' = "feedback"
        /\ UNCHANGED round
     \/ /\ round' = round + 1
        /\ pc' = "evaluate"
        /\ UNCHANGED <<evaluated, counted>>
  /\ mine' = 0
  /\ UNCHANGED <<learning, asked, offered, lost, lastTrain>>

(* Mutant of TrainingDue: counts rounds, not evaluations.                  *)
RoundIsDue == (round + 1) % TrainEvery = 0

TrainingDue == evaluated % TrainEvery = 0

(* _feedback, whatever its status.                                         *)
Feedback ==
  /\ pc = "feedback"
  /\ SubmitFeedback \/ UNCHANGED learning
  /\ IF TrainingDue THEN pc' = "train" /\ UNCHANGED round
                    ELSE pc' = "evaluate" /\ round' = round + 1
  /\ UNCHANGED <<evaluated, mine, counted, asked, offered, lost, lastTrain>>

Remaining == evaluated % TrainEvery

(* After the last round: the final training, if any, and the summary.      *)
Finish ==
  /\ pc = "evaluate"
  /\ round = Rounds
  /\ pc' = IF Remaining > 0 THEN "final" ELSE "summary"
  /\ UNCHANGED <<learning, round, evaluated, mine, counted, asked, offered, lost, lastTrain>>

AskTraining ==
  /\ pc \in {"train", "final"}
  /\ Training("script")
  /\ asked' = buffer
  /\ pc' = IF pc = "train" THEN "training" ELSE "finalTraining"
  /\ UNCHANGED <<round, evaluated, mine, counted, offered, lost, lastTrain>>

AfterTraining == IF pc \in {"train", "training"} THEN "status" ELSE "summary"

(* An error status before the service did anything.                        *)
NotTrained ==
  /\ pc \in {"train", "final"}
  /\ pc' = AfterTraining
  /\ lastTrain' = "failed"
  /\ UNCHANGED <<learning, round, evaluated, mine, counted, asked, offered, lost>>

(* Mutant of TrainingAnswered: asks again until the training succeeds.     *)
AsksUntilTrained ==
  /\ pc \in {"training", "finalTraining"}
  /\ Quiet
  /\ reply["script"] # "none"
  /\ IF reply["script"] = "error"
     THEN /\ pc' = IF pc = "training" THEN "train" ELSE "final"
          /\ lastTrain' = "failed"
          /\ UNCHANGED offered
     ELSE /\ pc' = AfterTraining
          /\ lastTrain' = "ok"
          /\ offered' = offered \cup asked
  /\ asked' = {}
  /\ UNCHANGED <<learning, round, evaluated, mine, counted, lost>>

(* Any 200 is a success to the script, also "insufficient_data".           *)
TrainingAnswered ==
  /\ pc \in {"training", "finalTraining"}
  /\ Quiet
  /\ reply["script"] # "none"
  /\ pc' = AfterTraining
  /\ IF reply["script"] = "error"
     THEN lastTrain' = "failed" /\ UNCHANGED offered
     ELSE lastTrain' = "ok" /\ offered' = offered \cup asked
  /\ asked' = {}
  /\ UNCHANGED <<learning, round, evaluated, mine, counted, lost>>

(* The other two _policy_status: their answer is only printed.             *)
Status ==
  /\ pc \in {"status", "summary"}
  /\ IF pc = "status" THEN pc' = "evaluate" /\ round' = round + 1
                      ELSE pc' = "done" /\ UNCHANGED round
  /\ UNCHANGED <<learning, evaluated, mine, counted, asked, offered, lost, lastTrain>>

(* An answer the server can no longer give is an error of the transport.   *)
ServerRestarts ==
  /\ Restart
  /\ lost' = lost \cup buffer
  /\ pc' = IF pc \in {"scored", "training", "finalTraining"} THEN "aborted" ELSE pc
  /\ UNCHANGED <<round, evaluated, mine, counted, asked, offered, lastTrain>>
-----------------------------------------------------------------------------
Init ==
  /\ LearningInit
  /\ pc = "start"
  /\ round = 0
  /\ evaluated = 0
  /\ mine = 0
  /\ counted = {}
  /\ asked = {}
  /\ offered = {}
  /\ lost = {}
  /\ lastTrain = "ok"

Service == Internal /\ UNCHANGED <<script, lost>>

OtherClient ==
  /\ \/ ShowCandidates
     \/ SubmitFeedback
     \/ \E who \in Clients \ {"script"} : Training(who)
     \/ \E who \in Facades : TrainerRun(who)
  /\ UNCHANGED <<script, lost>>

Script ==
  \/ Greet \/ Skip \/ Evaluate \/ Evaluated \/ Feedback \/ Finish
  \/ AskTraining \/ NotTrained \/ TrainingAnswered \/ Status

Next == Script \/ Abort \/ Service \/ OtherClient \/ ServerRestarts

(* The script goes on, the event loop serves it in spite of the others, and*)
(* what the service has begun it goes on with.  No fairness for the others,*)
(* for failures and for restarts.                                          *)
TrainingGoesOn == (Step \/ Trained) /\ UNCHANGED <<script, lost>>

SelectionGoesOn == (\E t \in pending : Record(t)) /\ UNCHANGED <<script, lost>>

Spec ==
  /\ Init /\ [][Next]_vars
  /\ SF_vars(Script)
  /\ WF_vars(TrainingGoesOn)
  /\ SF_vars(SelectionGoesOn)
-----------------------------------------------------------------------------
(* A script that has reached its summary, and whose last training was not  *)
(* refused, has had every selection it counted offered to PPO, or the      *)
(* server has lost it: rounds that were skipped do not upset the count that*)
(* decides when to train, and a failed training is made good by the next.  *)
CountedIsTrained ==
  (pc = "done" /\ lastTrain = "ok") => counted \subseteq offered \cup lost

(* The script comes to an end, whatever fails, restarts or is in its way.  *)
LoopEnds == <>(pc \in Over)
=============================================================================
