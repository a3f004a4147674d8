----------------------------- MODULE Evaluation -----------------------------
(***************************************************************************)
(* Evaluations and the release gate: EvaluationService.run and             *)
(* run_holdouts (apps/api/app/services.py), evaluate_gate                  *)
(* (apps/api/app/gating.py), the creation of datasets and of their cases   *)
(* (apps/api/app/main.py), over the tables eval_datasets, eval_cases,      *)
(* eval_runs, eval_gate_decisions and the status of versions.              *)
(*                                                                         *)
(* Every await of a call to the registry is a step of its own: between two *)
(* steps of one evaluation any other request may run.                      *)
(***************************************************************************)
EXTENDS Naturals, FiniteSets

CONSTANTS
  Candidate,   \* versions under evaluation, of one skill
  Dataset,     \* evaluation datasets that may be created
  TypeOf,      \* their dataset_type
  SplitOf,     \* their split, "dev" or "holdout"
  Shared,      \* those without a skill (skill_id is null)
  Evaluator,   \* concurrent evaluation requests
  Author,      \* concurrent requests that add a case
  Scores,      \* outcomes of a benchmark, <<candidate, baseline>> in tenths
  MaxRuns,     \* bound: rows of eval_runs
  MaxCases,    \* bound: cases of a dataset
  MaxFaults    \* bound: faults in one behaviour

ASSUME EvaluationAssumption ==
  /\ SplitOf \in [Dataset -> {"dev", "holdout"}]
  /\ TypeOf \in [Dataset -> {"functional", "personal", "regression",
                             "generalization", "trigger"}]
  /\ Shared \subseteq Dataset
  /\ Scores \subseteq (0..10) \X (0..10)
  /\ MaxRuns \in Nat /\ MaxCases \in Nat /\ MaxFaults \in Nat
  /\ Candidate # {}
  /\ Dataset # {} /\ IsFiniteSet(Dataset)

RunId == 1..MaxRuns

VARIABLES
  datasets,   \* eval_datasets, with the number of their eval_cases
  runs,       \* eval_runs
  decision,   \* the latest of eval_gate_decisions of each candidate
  status,     \* skill_versions.status
  evals,      \* what each evaluation request is doing
  authors,    \* what each request that adds a case is doing
  planned,    \* runs the requests so far may create, to respect MaxRuns
  faults,     \* faults so far
  cutShort    \* history: candidates whose last evaluation to reach an end was
              \* interrupted before its last write

vars == <<datasets, runs, decision, status, evals, authors, planned, faults,
          cutShort>>

DatasetRow == [exists : BOOLEAN, locked : BOOLEAN, cases : 0..MaxCases]

RunRow ==
  [status    : {"absent", "running", "succeeded", "failed"},
   candidate : Candidate,
   dataset   : Dataset,
   score     : (0..10) \X (0..10)]

EvalState ==
  [pc        : {"idle", "read", "lock", "list", "create", "benchmark",
                "failing", "collect", "survey", "decide", "mark",
                "answered", "lockRefused", "error"},
   candidate : Candidate,
   todo      : SUBSET Dataset,  \* datasets still to be evaluated
   dataset   : Dataset,         \* the one being evaluated
   run       : RunId \cup {0},
   seen      : SUBSET RunRow,   \* rows list_eval_runs_for_version returned
   verdict   : {"passed", "failed", "incomplete"}]

TypeOK ==
  /\ datasets \in [Dataset -> DatasetRow]
  /\ runs \in [RunId -> RunRow]
  /\ decision \in [Candidate -> {"none", "passed", "failed", "incomplete"}]
  /\ status \in [Candidate -> {"draft", "candidate", "passed", "failed"}]
  /\ evals \in [Evaluator -> EvalState]
  /\ authors \in [Author -> [pc : {"idle", "insert"}, dataset : Dataset]]
  /\ planned \in 0..MaxRuns
  /\ faults \in 0..MaxFaults
  /\ cutShort \in SUBSET Candidate

AnyDataset == CHOOSE d \in Dataset : TRUE
AnyCandidate == CHOOSE c \in Candidate : TRUE

Quiet(label) ==
  [pc |-> label, candidate |-> AnyCandidate, todo |-> {}, dataset |-> AnyDataset,
   run |-> 0, seen |-> {}, verdict |-> "incomplete"]

Init ==
  /\ datasets = [d \in Dataset |-> [exists |-> FALSE, locked |-> FALSE,
                                    cases |-> 0]]
  /\ runs = [r \in RunId |-> [status |-> "absent", candidate |-> AnyCandidate,
                              dataset |-> AnyDataset, score |-> <<0, 0>>]]
  /\ decision = [c \in Candidate |-> "none"]
  /\ status = [c \in Candidate |-> "draft"]
  /\ evals = [e \in Evaluator |-> Quiet("idle")]
  /\ authors = [a \in Author |-> [pc |-> "idle", dataset |-> AnyDataset]]
  /\ planned = 0
  /\ faults = 0
  /\ cutShort = {}

----------------------------------------------------------------------------
(* The gate: evaluate_gate, on the rows it is given.                       *)

PassThreshold == 8

\* Mutant: development datasets count.
EligibleAnySplit(rows) == {x \in rows : x.status = "succeeded"}

Eligible(rows) ==
  {x \in rows : x.status = "succeeded" /\ SplitOf[x.dataset] = "holdout"}
OfType(rows, type) == {x \in Eligible(rows) : TypeOf[x.dataset] = type}

Missing(rows, personalRequired) ==
  \/ OfType(rows, "functional") = {}
  \/ personalRequired /\ OfType(rows, "personal") = {}

Regresses(x) == x.score[1] < x.score[2]

FallsShort(x) ==
  /\ TypeOf[x.dataset] \in {"functional", "personal"}
  /\ x.score[1] < PassThreshold

\* Mutant: a run is not compared with its baseline.
EvaluateGateUncompared(rows, personalRequired) ==
  IF Missing(rows, personalRequired) THEN "incomplete"
  ELSE IF \E x \in Eligible(rows) : FallsShort(x) THEN "failed"
  ELSE "passed"

EvaluateGate(rows, personalRequired) ==
  IF Missing(rows, personalRequired) THEN "incomplete"
  ELSE IF \E x \in Eligible(rows) : FallsShort(x) \/ Regresses(x) THEN "failed"
  ELSE "passed"

----------------------------------------------------------------------------
(* Datasets and cases: create_dataset and create_eval_case.                *)

tables == <<datasets, runs, decision, status>>
others == <<authors, planned, faults, cutShort>>

CreateDataset(d) ==
  /\ ~datasets[d].exists
  /\ datasets' = [datasets EXCEPT ![d].exists = TRUE]
  /\ UNCHANGED <<runs, decision, status, evals, others>>

\* A locked dataset is refused here, and only here.
CheckCase(a, d) ==
  /\ authors[a].pc = "idle"
  /\ datasets[d].exists /\ ~datasets[d].locked
  /\ authors' = [authors EXCEPT ![a] = [pc |-> "insert", dataset |-> d]]
  /\ UNCHANGED <<tables, evals, planned, faults, cutShort>>

InsertCase(a) ==
  LET d == authors[a].dataset
  IN  /\ authors[a].pc = "insert"
      /\ datasets[d].cases < MaxCases
      /\ datasets' = [datasets EXCEPT ![d].cases = @ + 1]
      /\ authors' = [authors EXCEPT ![a].pc = "idle"]
      /\ UNCHANGED <<runs, decision, status, evals, planned, faults, cutShort>>

----------------------------------------------------------------------------
(* The statements of an evaluation.                                        *)

CandidateOf(e) == evals[e].candidate
DatasetOf(e) == evals[e].dataset
RunOf(e) == evals[e].run

\* lock_dataset: an update of a dataset that is not locked yet.
Lockable(e) == ~datasets[DatasetOf(e)].locked
LockRow(e) ==
  /\ evals[e].pc = "lock"
  /\ Lockable(e)
  /\ datasets' = [datasets EXCEPT ![DatasetOf(e)].locked = TRUE]
  /\ UNCHANGED <<runs, decision, status>>

NextRun(r) ==
  /\ runs[r].status = "absent"
  /\ \A q \in RunId : q < r => runs[q].status # "absent"

InsertRun(e, r) ==
  /\ evals[e].pc = "create"
  /\ NextRun(r)
  /\ runs' = [runs EXCEPT ![r] = [status |-> "running", candidate |-> CandidateOf(e),
                                  dataset |-> DatasetOf(e), score |-> <<0, 0>>]]
  /\ UNCHANGED <<datasets, decision, status>>

\* finish_eval_run: an update by id, whatever the row says.
FinishRun(e, outcome, score) ==
  /\ runs' = [runs EXCEPT ![RunOf(e)] =
                [@ EXCEPT !.status = outcome, !.score = score]]
  /\ UNCHANGED <<datasets, decision, status>>

RecordDecision(e) ==
  /\ evals[e].pc = "decide"
  /\ decision' = [decision EXCEPT ![CandidateOf(e)] = evals[e].verdict]
  /\ UNCHANGED <<datasets, runs, status>>

\* Mutant: a version that has passed stays so.
MarkVersionKept(e) ==
  /\ evals[e].pc = "mark"
  /\ status' = IF status[CandidateOf(e)] = "passed" THEN status
               ELSE [status EXCEPT ![CandidateOf(e)] = evals[e].verdict]
  /\ UNCHANGED <<datasets, runs, decision>>

MarkVersion(e) ==
  /\ evals[e].pc = "mark"
  /\ status' = [status EXCEPT ![CandidateOf(e)] =
       IF evals[e].verdict = "incomplete" THEN "candidate" ELSE evals[e].verdict]
  /\ UNCHANGED <<datasets, runs, decision>>

----------------------------------------------------------------------------
(* EvaluationService.run and run_holdouts, call by call.                   *)

Goto(e, label) == evals' = [evals EXCEPT ![e].pc = label]

Begin(e, c, todo) ==
  /\ evals[e].pc \in {"idle", "answered", "lockRefused", "error"}
  /\ planned + Cardinality(todo) <= MaxRuns
  /\ planned' = planned + Cardinality(todo)
  /\ evals' = [evals EXCEPT ![e] = [Quiet("read") EXCEPT !.candidate = c,
                                                         !.todo = todo]]
  /\ UNCHANGED <<tables, authors, faults, cutShort>>

\* POST /eval-runs: one dataset, of this skill or of none.
RunOne(e, c, d) == datasets[d].exists /\ Begin(e, c, {d})

\* POST /versions/{id}/evaluate-holdouts: the holdouts of the skill.
RunHoldouts(e, c) ==
  LET holdouts == {d \in Dataset \ Shared :
                     datasets[d].exists /\ SplitOf[d] = "holdout"}
  IN  holdouts # {} /\ Begin(e, c, holdouts)

\* Mutant: the dataset is not locked.
ReadDatasetOnly(e) ==
  /\ evals[e].pc = "read"
  /\ \E d \in evals[e].todo :
       evals' = [evals EXCEPT ![e] =
         [@ EXCEPT !.pc = "list", !.dataset = d, !.todo = evals[e].todo \ {d}]]
  /\ UNCHANGED <<tables, others>>

\* run: what is read of the dataset decides whether it will be locked.
ReadDataset(e) ==
  /\ evals[e].pc = "read"
  /\ \E d \in evals[e].todo :
       evals' = [evals EXCEPT ![e] =
         [@ EXCEPT !.pc = IF datasets[d].locked THEN "list" ELSE "lock",
                   !.dataset = d, !.todo = evals[e].todo \ {d}]]
  /\ UNCHANGED <<tables, others>>

Lock(e) ==
  \/ LockRow(e) /\ Goto(e, "list") /\ UNCHANGED others
  \/ /\ evals[e].pc = "lock"
     /\ ~Lockable(e)
     /\ evals' = [evals EXCEPT ![e] = Quiet("lockRefused")]
     /\ UNCHANGED <<tables, others>>

ListCases(e) ==
  /\ evals[e].pc = "list"
  /\ evals' = [evals EXCEPT ![e] =
       IF datasets[DatasetOf(e)].cases = 0 THEN Quiet("error")
       ELSE [@ EXCEPT !.pc = "create"]]
  /\ UNCHANGED <<tables, others>>

CreateRun(e) ==
  /\ \E r \in RunId :
       /\ InsertRun(e, r)
       /\ evals' = [evals EXCEPT ![e] = [@ EXCEPT !.pc = "benchmark", !.run = r]]
  /\ UNCHANGED others

\* Every case was executed and judged; the run is closed with its rates.
Succeed(e) ==
  /\ evals[e].pc = "benchmark"
  /\ \E score \in Scores : FinishRun(e, "succeeded", score)
  /\ Goto(e, "collect")
  /\ UNCHANGED others

\* Mutant: there is no except block.
BenchmarkEscapes(e) ==
  /\ evals[e].pc = "benchmark"
  /\ evals' = [evals EXCEPT ![e] = Quiet("error")]
  /\ UNCHANGED <<tables, others>>

\* An executor, a grader or a call raised inside the try block ...
BenchmarkRaises(e) ==
  /\ evals[e].pc = "benchmark"
  /\ Goto(e, "failing")
  /\ UNCHANGED <<tables, others>>

\* Mutant: the except block tries the benchmark again.
FinishFailedRetries(e) ==
  /\ evals[e].pc = "failing"
  /\ FinishRun(e, "failed", <<0, 0>>)
  /\ Goto(e, "benchmark")
  /\ UNCHANGED others

\* ... whose except block closes the run as failed and raises again.
FinishFailed(e) ==
  /\ evals[e].pc = "failing"
  /\ FinishRun(e, "failed", <<0, 0>>)
  /\ evals' = [evals EXCEPT ![e] = Quiet("error")]
  /\ UNCHANGED others

SucceededOf(c) ==
  {r \in RunId : runs[r].status = "succeeded" /\ runs[r].candidate = c}

\* Mutant: the run just closed is left out.
CollectOtherRuns(e) ==
  /\ evals[e].pc = "collect"
  /\ evals' = [evals EXCEPT ![e] = [@ EXCEPT !.pc = "survey",
        !.seen = {runs[r] : r \in SucceededOf(CandidateOf(e)) \ {RunOf(e)}}]]
  /\ UNCHANGED <<tables, others>>

\* list_eval_runs_for_version: rows as they are now, to be judged after the
\* next call.
CollectRuns(e) ==
  /\ evals[e].pc = "collect"
  /\ evals' = [evals EXCEPT ![e] = [@ EXCEPT !.pc = "survey",
        !.seen = {runs[r] : r \in SucceededOf(CandidateOf(e))}]]
  /\ UNCHANGED <<tables, others>>

PersonalHoldoutListed ==
  \E d \in Dataset \ Shared :
    datasets[d].exists /\ TypeOf[d] = "personal" /\ SplitOf[d] = "holdout"

\* list_datasets, then evaluate_gate on the rows collected before it.
SurveyDatasets(e) ==
  /\ evals[e].pc = "survey"
  /\ evals' = [evals EXCEPT ![e] = [@ EXCEPT !.pc = "decide",
        !.verdict = EvaluateGate(evals[e].seen, PersonalHoldoutListed),
        !.seen = {}]]
  /\ UNCHANGED <<tables, others>>

Decide(e) ==
  /\ RecordDecision(e)
  /\ Goto(e, "mark")
  /\ UNCHANGED others

\* run returns; run_holdouts goes on to its next dataset, if any.
Mark(e) ==
  /\ MarkVersion(e)
  /\ evals' = [evals EXCEPT ![e] =
       IF evals[e].todo = {} THEN Quiet("answered")
       ELSE [Quiet("read") EXCEPT !.candidate = CandidateOf(e),
                                  !.todo = evals[e].todo]]
  /\ cutShort' = cutShort \ {CandidateOf(e)}
  /\ UNCHANGED <<authors, planned, faults>>

\* The API process dies in a call, or a call outside the try block raises: its
\* write is done, or never is.
Interrupt(e) ==
  /\ faults < MaxFaults
  /\ faults' = faults + 1
  /\ evals[e].pc \notin {"idle", "answered", "lockRefused", "error"}
  /\ \/ LockRow(e)
     \/ \E r \in RunId : InsertRun(e, r)
     \/ evals[e].pc = "benchmark"
          /\ \E score \in Scores : FinishRun(e, "succeeded", score)
     \/ evals[e].pc = "failing" /\ FinishRun(e, "failed", <<0, 0>>)
     \/ RecordDecision(e)
     \/ MarkVersion(e)
     \/ UNCHANGED tables
  /\ evals' = [evals EXCEPT ![e] = Quiet("error")]
  /\ cutShort' = cutShort \cup {CandidateOf(e)}
  /\ UNCHANGED <<authors, planned>>

\* The reply to finish_eval_run is lost: the except block overwrites it.
FinishLost(e) ==
  /\ faults < MaxFaults
  /\ faults' = faults + 1
  /\ evals[e].pc = "benchmark"
  /\ \E score \in Scores : FinishRun(e, "succeeded", score)
  /\ Goto(e, "failing")
  /\ UNCHANGED <<authors, planned, cutShort>>

----------------------------------------------------------------------------
EvalStep(e) ==
  \/ ReadDataset(e) \/ Lock(e) \/ ListCases(e) \/ CreateRun(e)
  \/ Succeed(e) \/ BenchmarkRaises(e) \/ FinishFailed(e)
  \/ CollectRuns(e) \/ SurveyDatasets(e) \/ Decide(e) \/ Mark(e)

Next ==
  \/ \E d \in Dataset : CreateDataset(d)
  \/ \E a \in Author, d \in Dataset : CheckCase(a, d)
  \/ \E a \in Author : InsertCase(a)
  \/ \E e \in Evaluator, c \in Candidate, d \in Dataset : RunOne(e, c, d)
  \/ \E e \in Evaluator, c \in Candidate : RunHoldouts(e, c)
  \/ \E e \in Evaluator : EvalStep(e) \/ Interrupt(e) \/ FinishLost(e)

Spec == Init /\ [][Next]_vars

----------------------------------------------------------------------------
(* Properties.                                                             *)

Busy(e) == evals[e].pc \notin {"idle", "answered", "lockRefused", "error"}
Fails(r) ==
  /\ runs[r].status = "succeeded"
  /\ SplitOf[runs[r].dataset] = "holdout"
  /\ FallsShort(runs[r]) \/ Regresses(runs[r])

\* A run is only ever made of a dataset that is locked and has cases,
\* whichever evaluation locked it (README.md:78, services.py:172-176).
RunsOnLockedData ==
  \A r \in RunId : runs[r].status # "absent" =>
    /\ datasets[runs[r].dataset].locked
    /\ datasets[runs[r].dataset].cases > 0

Evidence(c) ==
  \E r \in RunId :
    /\ runs[r].status = "succeeded" /\ runs[r].candidate = c
    /\ TypeOf[runs[r].dataset] = "functional"
    /\ SplitOf[runs[r].dataset] = "holdout"
    /\ runs[r].score[1] >= PassThreshold
    /\ ~Regresses(runs[r])

\* A version is passed only on evidence in the tables: a functional holdout
\* run of this very version that reached the threshold without a regression
\* (README.md:79-81, gating.py:15-33).  Unless a call failed: the two ends of
\* a run whose first reply was lost (services.py:187-189) may fall between the
\* reads and the last write of another evaluation.
PassedHadEvidence ==
  faults = 0 => \A c \in Candidate : status[c] = "passed" => Evidence(c)

\* An evaluation never passes a version whose holdout it has just seen fail,
\* whatever others do to the tables meanwhile (services.py:183-198).
OwnFailureCounts ==
  \A e \in Evaluator :
    evals[e].pc \in {"decide", "mark"} /\ Fails(RunOf(e))
      => evals[e].verdict # "passed"

\* Once its evaluations are over, a passed version has no failing holdout run
\* (prd.md:1876, "A failing candidate cannot be promoted normally"), lost
\* replies and failed benchmarks included.  Only an evaluation that was cut
\* short between its run and its last write (services.py:187-200) leaves a
\* run the gate has not judged, until the next one reaches its end.
PassedMeansPassing ==
  \A c \in Candidate \ cutShort :
    status[c] = "passed" /\ (\A e \in Evaluator : Busy(e) => CandidateOf(e) # c)
      => \A r \in RunId : runs[r].candidate = c => ~Fails(r)

\* The latest decision (GET /versions/{id}/eval-summary) and the status, which
\* two calls write, agree again when no evaluation is between the two.  Only
\* an evaluation that was cut short leaves the decision without its status.
DecisionMatchesStatus ==
  \A c \in Candidate \ cutShort :
    (\A e \in Evaluator : evals[e].pc = "mark" => CandidateOf(e) # c) =>
      status[c] = CASE decision[c] = "none"       -> "draft"
                    [] decision[c] = "incomplete" -> "candidate"
                    [] OTHER                      -> decision[c]

\* "Locked evaluation datasets are immutable." (main.py:326), and "Running an
\* evaluation locks its dataset permanently" (README.md:78): the cases of a
\* locked dataset stay as they are.
LockedCasesFrozen ==
  [][\A d \in Dataset :
       datasets[d].locked => datasets'[d].cases = datasets[d].cases]_vars

\* No evaluation leaves a run running behind: it is closed, with its rates or
\* as failed, unless a fault took its request (services.py:183-188).
RunsEndClosed ==
  faults = 0 /\ (\A e \in Evaluator : ~Busy(e)) =>
    \A r \in RunId : runs[r].status # "running"

----------------------------------------------------------------------------
(* The inductive invariant.                                                *)

\* An evaluation past the lock has a locked dataset, past its cases a case.
DatasetsSecured ==
  \A e \in Evaluator :
    /\ evals[e].pc \in {"list", "create"} => datasets[DatasetOf(e)].locked
    /\ evals[e].pc = "create" => datasets[DatasetOf(e)].cases > 0

Closed == {"collect", "survey", "decide", "mark"}
Owning == {"benchmark", "failing"} \cup Closed

\* A run is the business of the evaluation that created it alone.
RunsOwned ==
  \A e \in Evaluator : evals[e].pc \in Owning =>
    /\ RunOf(e) \in RunId
    /\ runs[RunOf(e)].status # "absent"
    /\ runs[RunOf(e)].candidate = CandidateOf(e)
    /\ evals[e].pc = "benchmark" => runs[RunOf(e)].status = "running"
    /\ evals[e].pc \in Closed => runs[RunOf(e)].status = "succeeded"
    /\ \A d \in Evaluator \ {e} :
         evals[d].pc \in Owning => RunOf(d) # RunOf(e)

\* What an evaluation collected includes its own run.
OwnRunSeen ==
  \A e \in Evaluator : evals[e].pc = "survey" => runs[RunOf(e)] \in evals[e].seen

\* While no reply is lost, what was collected and concluded stays true.
ViewsStayTrue ==
  faults = 0 =>
    \A e \in Evaluator :
      /\ evals[e].pc = "failing" => runs[RunOf(e)].status = "running"
      /\ \A x \in evals[e].seen :
           /\ x.status = "succeeded" /\ x.candidate = CandidateOf(e)
           /\ \E r \in RunId : x = runs[r]
      /\ evals[e].pc \in {"decide", "mark"} /\ evals[e].verdict = "passed"
           => Evidence(CandidateOf(e))

IInv ==
  /\ TypeOK
  /\ DatasetsSecured
  /\ RunsOnLockedData
  /\ RunsOwned
  /\ OwnRunSeen
  /\ OwnFailureCounts
  /\ ViewsStayTrue
  /\ PassedHadEvidence

\* A run that runs is in the hands of an evaluation, until the first fault.
RunningOwned ==
  faults = 0 => \A r \in RunId : runs[r].status = "running" =>
    \E e \in Evaluator : evals[e].pc \in {"benchmark", "failing"} /\ RunOf(e) = r

----------------------------------------------------------------------------
(* One evaluation of a version at a time: what it adds to IInv.            *)

\* Other versions may be evaluated meanwhile.  Nothing in the code enforces
\* this: it is what its callers have to see to.
OneAtATime ==
  \A d, e \in Evaluator :
    Busy(d) /\ Busy(e) /\ CandidateOf(d) = CandidateOf(e) => d = e

\* A run that succeeded and that no except block is about to overwrite.
Settled(r) ==
  /\ runs[r].status = "succeeded"
  /\ \A e \in Evaluator : evals[e].pc = "failing" => RunOf(e) # r

SettledEvidence(c) ==
  \E r \in RunId :
    /\ Settled(r) /\ runs[r].candidate = c
    /\ TypeOf[runs[r].dataset] = "functional"
    /\ SplitOf[runs[r].dataset] = "holdout"
    /\ runs[r].score[1] >= PassThreshold
    /\ ~Regresses(runs[r])

\* Faults included, a passed version has evidence that stays.
PassedIsSettled ==
  \A c \in Candidate : status[c] = "passed" => SettledEvidence(c)

Clean(c) == \A r \in RunId : runs[r].candidate = c => ~Fails(r)

\* What the evaluation collected and concluded is what the tables say.
GateSawAll ==
  \A e \in Evaluator :
    /\ evals[e].pc = "survey" =>
         evals[e].seen = {runs[r] : r \in SucceededOf(CandidateOf(e))}
    /\ evals[e].pc \in {"decide", "mark"} /\ evals[e].verdict = "passed" =>
         SettledEvidence(CandidateOf(e)) /\ Clean(CandidateOf(e))
    /\ evals[e].pc = "mark" => decision[CandidateOf(e)] = evals[e].verdict

\* Only an evaluation between its run and its last write may know better.
PassedUnlessPending ==
  \A c \in Candidate \ cutShort :
    status[c] = "passed"
      /\ (\A e \in Evaluator : evals[e].pc \in Closed => CandidateOf(e) # c)
      => \A r \in RunId : runs[r].candidate = c /\ Settled(r) => ~Fails(r)

SoleInv ==
  /\ PassedIsSettled
  /\ GateSawAll
  /\ PassedUnlessPending
  /\ DecisionMatchesStatus

=============================================================================
