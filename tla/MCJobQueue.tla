----------------------------- MODULE MCJobQueue -----------------------------
(* Small instances of JobQueue for TLC.                                    *)
EXTENDS JobQueue, TLC

\* Workers, callers and the truthy keys are interchangeable; safety runs only.
Symmetry ==
  Permutations(Worker) \cup Permutations(Request)
    \cup Permutations(Key \ {EmptyKey})
=============================================================================
