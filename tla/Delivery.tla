------------------------------- MODULE Delivery -------------------------------
(***************************************************************************)
(* From an evaluation to production: Evaluation and Releases over one      *)
(* skill_versions.status.  The candidates of the evaluations are the       *)
(* versions of the releases, and what an evaluation writes of a version    *)
(* waits for the row a promotion has locked (services.py:177-200 against   *)
(* 0002:36-39).                                                            *)
(***************************************************************************)
EXTENDS Naturals, Sequences, FiniteSets

CONSTANTS Candidate, Dataset, TypeOf, SplitOf, Shared, Evaluator, Author, Scores,
          MaxRuns, MaxCases, MaxFaults,
          Skill, SkillOf, Caller, NoOne, NoRelease, MaxCalls, Reasons

VARIABLES datasets, runs, decision, status, evals, authors, planned, faults, cutShort,
          promoted, releases, versionLock, skillLock, calls, started

evaluationVars == <<datasets, runs, decision, evals, authors, planned, faults, cutShort>>
releaseVars == <<promoted, releases, versionLock, skillLock, calls, started>>
vars == <<evaluationVars, status, releaseVars>>

\* With what is proved of each part, for DeliveryProofs.
E == INSTANCE EvaluationProofs
R == INSTANCE ReleasesProofs WITH Version <- Candidate

ASSUME DeliveryAssumption ==
  /\ E!EvaluationAssumption
  /\ R!ReleasesAssumption
  /\ Reasons \subseteq {"none", "blank", "text"}

Init == E!Init /\ R!Init

\* A row of eval_runs or of eval_gate_decisions refers to its version: to
\* insert it is to lock that row FOR KEY SHARE, for which a promotion's FOR
\* UPDATE is waited for (0001:100, 0004:6).  eval_runs also refers to the
\* baseline, whose wait, of the same kind, is left out.
RowFree(e) == versionLock[E!CandidateOf(e)] = NoOne
References == {"create", "decide"}

\* The last write of an evaluation, an update of the row itself, is what
\* Releases knows as SetStatus.
Mark(e) ==
  /\ E!Mark(e)
  /\ R!SetStatus(E!CandidateOf(e), status'[E!CandidateOf(e)])

\* A request that dies has made its write, if the row was free, or has not.
Interrupt(e) ==
  /\ E!Interrupt(e)
  /\ evals[e].pc \in References /\ ~RowFree(e) => UNCHANGED <<runs, decision>>
  /\ \/ UNCHANGED <<status, releaseVars>>
     \/ R!SetStatus(E!CandidateOf(e), status'[E!CandidateOf(e)])

EvaluateStep(e) ==
  /\ evals[e].pc # "mark" /\ E!EvalStep(e)
  /\ evals[e].pc \in References => RowFree(e)
  /\ UNCHANGED <<status, releaseVars>>

\* What else happens around evaluations.
Evaluate ==
  /\ \/ \E d \in Dataset : E!CreateDataset(d)
     \/ \E a \in Author, d \in Dataset : E!CheckCase(a, d)
     \/ \E a \in Author : E!InsertCase(a)
     \/ \E e \in Evaluator, c \in Candidate : \/ E!RunHoldouts(e, c)
                                             \/ \E d \in Dataset : E!RunOne(e, c, d)
     \/ \E e \in Evaluator : E!FinishLost(e)
  /\ UNCHANGED releaseVars

DeliverStep(c) == R!Step(c) /\ UNCHANGED evaluationVars
BreakDeadlock(c) == R!BreakDeadlock(c) /\ UNCHANGED evaluationVars

\* POST /promote and /rollback.  MaxCalls bounds the calls, Reasons the texts
\* they bring.
NewCall(c) ==
  \/ \E v \in Candidate, override \in BOOLEAN, why \in Reasons :
       R!CallPromote(c, v, override, why)
  \/ \E s \in Skill, t \in R!Targets, why \in Reasons :
       R!CallRollback(c, s, t, why)

\* MaxFaults bounds the failed calls of evaluations and transactions together.
Deliver(c) ==
  \/ DeliverStep(c) \/ BreakDeadlock(c)
  \/ NewCall(c) /\ UNCHANGED evaluationVars
  \/ /\ R!Abort(c)
     /\ faults < MaxFaults /\ faults' = faults + 1
     /\ UNCHANGED <<datasets, runs, decision, evals, authors, planned, cutShort>>

Next ==
  \/ Evaluate
  \/ \E e \in Evaluator : EvaluateStep(e) \/ Mark(e) \/ Interrupt(e)
  \/ \E c \in Caller : Deliver(c)

Spec == Init /\ [][Next]_vars

\* Calls to the registry return, transactions go on or are given up by the
\* deadlock detector.  As the calls are bounded, no lock is taken for ever
\* again, and weak fairness is enough.  Nothing is assumed of a benchmark: it
\* waits for Codex without a timeout (benchmark.py:123).
Fairness ==
  /\ \A e \in Evaluator :
       WF_vars(evals[e].pc # "benchmark" /\ (EvaluateStep(e) \/ Mark(e)))
  /\ \A c \in Caller : WF_vars(DeliverStep(c) \/ BreakDeadlock(c))

FairSpec == Spec /\ Fairness

----------------------------------------------------------------------------
(* Properties.                                                             *)

\* What is or was in production was earned: its version has the evidence of
\* the gate on record, or someone overrode the gate and said why; a rollback
\* only goes back to such a release.  With one evaluation at a time also after
\* faults, for as long as the releases are on record (prd.md 15.2,
\* services.py:130-143).
EarnedProduction ==
  \A s \in Skill : \A i \in DOMAIN releases[s] :
    \E j \in 1..i :
      /\ releases[s][j].version = releases[s][i].version
      /\ \/ /\ releases[s][j].grounds = "gate"
            /\ E!Evidence(releases[s][j].version)
         \/ /\ releases[s][j].grounds = "override"
            /\ releases[s][j].reason = "text"

\* See Evaluation: with one evaluation at a time, what a status means and how
\* it agrees with the decision; promotions and rollbacks beside it, which hold
\* its last update up, change nothing about that.
PassedMeansPassing == E!PassedMeansPassing
DecisionMatchesStatus == E!DecisionMatchesStatus
RunsEndClosed == E!RunsEndClosed

\* Every evaluation is answered, once its benchmarks come back, although three
\* of its writes wait for the row of a promotion that may itself wait, or
\* deadlock (services.py:177-200).
EveryEvaluationEnds ==
  (\A e \in Evaluator : []<>(evals[e].pc # "benchmark"))
    => \A e \in Evaluator : E!Busy(e) ~> ~E!Busy(e)

=============================================================================
