------------------------------ MODULE MCDelivery ------------------------------
(* One version of one skill with a functional holdout, which it passes or   *)
(* fails by a regression.                                                   *)
EXTENDS Delivery, TLC

CONSTANTS s1, v1, f

MCScores == {<<8, 8>>, <<8, 10>>}
MCTypeOf == f :> "functional"
MCSplitOf == f :> "holdout"
MCSkillOf == v1 :> s1
=============================================================================
