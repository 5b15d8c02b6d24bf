------------------------------ MODULE MCScoring ------------------------------
(* Two machines in one run: a request that is scored and selected, and the *)
(* studies of scores and selections.  They share no state: a behaviour     *)
(* runs the one or the other.                                              *)
EXTENDS Scoring, Assessment

InitSum ==
  /\ SInit
  /\ \/ study = "none" /\ given = <<>> /\ data = <<>>
     \/ AInit /\ topK = 2

NextSum ==
  \/ study = "none" /\ SNext /\ UNCHANGED avars
  \/ ANext /\ UNCHANGED svars

SpecSum == InitSum /\ [][NextSum]_<<svars, avars>>
=============================================================================
