----------------------------- MODULE AtMostOnce -----------------------------
(***************************************************************************)
(* What an idempotency key promises to the clients that send it: among the *)
(* requests of one key at most one takes effect, and a replayed answer is  *)
(* that of a request of the same key that took effect.  A key may be       *)
(* forgotten (its outcome expires or is lost); only then may the effect    *)
(* happen again.                                                           *)
(***************************************************************************)
CONSTANTS Requests, KeyOf, None, Conflict, Error

VARIABLES effect,     (* requests whose handler did its work               *)
          answer,     (* the request whose response r got, or an error     *)
          forgotten   (* keys whose outcome may be unknown                 *)

SameKey(r) == {q \in Requests : KeyOf[q] = KeyOf[r]}

Init ==
  /\ effect = {}
  /\ answer = [r \in Requests |-> None]
  /\ forgotten = {}

Act(r) ==
  /\ r \notin effect
  /\ SameKey(r) \cap effect = {} \/ KeyOf[r] \in forgotten
  /\ effect' = effect \cup {r}
  /\ UNCHANGED <<answer, forgotten>>

Answer(r) ==
  /\ answer[r] = None
  /\ \E a \in SameKey(r) \cap effect : answer' = [answer EXCEPT ![r] = a]
  /\ UNCHANGED <<effect, forgotten>>

Refuse(r) ==
  /\ answer[r] = None
  /\ \E a \in {Conflict, Error} : answer' = [answer EXCEPT ![r] = a]
  /\ forgotten' \in {forgotten, forgotten \cup {KeyOf[r]}}
  /\ UNCHANGED effect

Forget ==
  /\ forgotten \subseteq forgotten'
  /\ UNCHANGED <<effect, answer>>

Next ==
  \/ Forget
  \/ \E r \in Requests : Act(r) \/ Answer(r) \/ Refuse(r)

Spec == Init /\ [][Next]_<<effect, answer, forgotten>>
=============================================================================
