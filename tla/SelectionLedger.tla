-------------------------- MODULE SelectionLedger --------------------------
(***************************************************************************)
(* What the tables of a selection promise to whoever reads only completed  *)
(* requests: a request becomes visible once, with every candidate, exactly *)
(* one winner and the RL episode of that winner, and never changes again.  *)
(***************************************************************************)
EXTENDS Naturals

CONSTANTS Requests,   (* request ids                                       *)
          N           (* candidates of a request                           *)

VARIABLE ledger

Unpublished == [candidates |-> {}, winners |-> {}, actions |-> {}]

Published(w) == [candidates |-> 0..(N - 1), winners |-> {w}, actions |-> {w}]

Init == ledger = [r \in Requests |-> Unpublished]

Publish(r) ==
  /\ ledger[r] = Unpublished
  /\ \E w \in 0..(N - 1) : ledger' = [ledger EXCEPT ![r] = Published(w)]

Next == \E r \in Requests : Publish(r)

Spec == Init /\ [][Next]_ledger
=============================================================================
