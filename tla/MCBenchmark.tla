----------------------------- MODULE MCBenchmark -----------------------------
(* Two runs that share a case, one of them with a case it cannot grade.    *)
EXTENDS Benchmark, TLC

CONSTANTS r1, r2, k1, k2

MCRun == {r1, r2}
MCCase == {k1, k2}
MCCasesOf == r1 :> {k1, k2} @@ r2 :> {k1}

\* The first output wins alone; both pass and the second wins; neither passes.
MCJudgments ==
  {[winner |-> "A", pass |-> ("A" :> TRUE @@ "B" :> FALSE)],
   [winner |-> "B", pass |-> ("A" :> TRUE @@ "B" :> TRUE)],
   [winner |-> "tie", pass |-> ("A" :> FALSE @@ "B" :> FALSE)]}
=============================================================================
