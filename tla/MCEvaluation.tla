---------------------------- MODULE MCEvaluation ----------------------------
(* Small instances of Evaluation for TLC: one functional holdout, or with a *)
(* personal one and a development dataset.                                 *)
EXTENDS Evaluation, TLC

CONSTANTS f, p, g

\* Just passing, failing.
PassOrFail == {<<8, 8>>, <<7, 7>>}

Types == f :> "functional" @@ p :> "personal" @@ g :> "functional"
Splits == f :> "holdout" @@ p :> "holdout" @@ g :> "dev"

FunctionalOnly == {f}
TypesFunctional == f :> "functional"
SplitsFunctional == f :> "holdout"

Symmetry == Permutations(Evaluator) \cup Permutations(Candidate)
=============================================================================
