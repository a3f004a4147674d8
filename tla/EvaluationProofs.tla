-------------------------- MODULE EvaluationProofs --------------------------
(***************************************************************************)
(* Theorems about Evaluation, for any number of evaluations, authors,      *)
(* versions, datasets and runs.                                            *)
(*                                                                         *)
(* The invariant is split by who can disturb it: what one evaluation knows *)
(* (Local), and what only the tables say (TablesSound).  A step changes one     *)
(* evaluation, and of the runs at most its own (Kept), so that the others  *)
(* keep what they know (OthersKept).                                       *)
(***************************************************************************)
EXTENDS Evaluation, TLAPS, FiniteSetTheorems

Local(e) ==
  /\ evals[e] \in EvalState
  /\ evals[e].pc \in {"list", "create"} => datasets[DatasetOf(e)].locked
  /\ evals[e].pc = "create" => datasets[DatasetOf(e)].cases > 0
  /\ evals[e].pc \in Owning =>
       /\ RunOf(e) \in RunId
       /\ runs[RunOf(e)].status # "absent"
       /\ runs[RunOf(e)].candidate = CandidateOf(e)
       /\ evals[e].pc = "benchmark" => runs[RunOf(e)].status = "running"
       /\ evals[e].pc \in Closed => runs[RunOf(e)].status = "succeeded"
  /\ evals[e].pc = "survey" => runs[RunOf(e)] \in evals[e].seen
  /\ evals[e].pc \in {"decide", "mark"} /\ Fails(RunOf(e))
       => evals[e].verdict # "passed"
  /\ faults = 0 =>
       /\ evals[e].pc = "failing" => runs[RunOf(e)].status = "running"
       /\ \A x \in evals[e].seen :
            /\ x.status = "succeeded" /\ x.candidate = CandidateOf(e)
            /\ \E r \in RunId : x = runs[r]
       /\ evals[e].pc \in {"decide", "mark"} /\ evals[e].verdict = "passed"
            => Evidence(CandidateOf(e))

Apart ==
  \A d, e \in Evaluator :
    d # e /\ evals[d].pc \in Owning /\ evals[e].pc \in Owning
      => RunOf(d) # RunOf(e)

TablesTyped ==
  /\ datasets \in [Dataset -> DatasetRow]
  /\ runs \in [RunId -> RunRow]
  /\ decision \in [Candidate -> {"none", "passed", "failed", "incomplete"}]
  /\ status \in [Candidate -> {"draft", "candidate", "passed", "failed"}]

CountersTyped ==
  /\ authors \in [Author -> [pc : {"idle", "insert"}, dataset : Dataset]]
  /\ planned \in 0..MaxRuns
  /\ faults \in 0..MaxFaults
  /\ cutShort \in SUBSET Candidate

TablesSound ==
  /\ TablesTyped
  /\ RunsOnLockedData
  /\ PassedHadEvidence

Parts ==
  /\ evals \in [Evaluator -> EvalState]
  /\ CountersTyped
  /\ TablesSound
  /\ Apart
  /\ \A e \in Evaluator : Local(e)

LEMMA Split == IInv <=> Parts
<1>1. ASSUME IInv PROVE Parts
  <2>1. evals \in [Evaluator -> EvalState] /\ CountersTyped /\ TablesSound
    BY <1>1 DEF IInv, TypeOK, CountersTyped, TablesSound, TablesTyped, ViewsStayTrue
  <2>2. Apart
    BY <1>1 DEF IInv, RunsOwned, Apart
  <2>3. ASSUME NEW e \in Evaluator PROVE Local(e)
    BY <1>1, <2>1, <2>3
       DEF IInv, DatasetsSecured, RunsOwned, OwnRunSeen, OwnFailureCounts,
           ViewsStayTrue, Local
  <2>4. QED
    BY <2>1, <2>2, <2>3 DEF Parts
<1>2. ASSUME Parts PROVE IInv
  <2>1. TypeOK
    BY <1>2 DEF Parts, TypeOK, CountersTyped, TablesSound, TablesTyped
  <2>2. DatasetsSecured /\ RunsOwned /\ OwnRunSeen
    BY <1>2 DEF Parts, Local, Apart, DatasetsSecured, RunsOwned, OwnRunSeen
  <2>3. OwnFailureCounts
    BY <1>2 DEF Parts, Local, OwnFailureCounts
  <2>4. ViewsStayTrue
    BY <1>2 DEF Parts, Local, ViewsStayTrue, TablesSound
  <2>5. QED
    BY <1>2, <2>1, <2>2, <2>3, <2>4 DEF Parts, IInv, TablesSound
<1>3. QED
  BY <1>1, <1>2

LEMMA SplitNext == IInv' <=> Parts'
BY Split, PTL

----------------------------------------------------------------------------
(* What a step keeps of the tables: own is the run it may close.           *)

Kept(own) ==
  /\ TablesTyped'
  /\ \A d \in Dataset :
       /\ datasets[d].locked => datasets'[d].locked
       /\ datasets'[d].cases >= datasets[d].cases
  /\ \A r \in RunId :
       IF runs[r].status = "absent"
       THEN runs'[r].status # "absent" =>
              /\ datasets[runs'[r].dataset].locked
              /\ datasets[runs'[r].dataset].cases > 0
       ELSE /\ runs'[r].status # "absent"
            /\ runs'[r].candidate = runs[r].candidate
            /\ runs'[r].dataset = runs[r].dataset
            /\ r \notin own => runs'[r] = runs[r]
  /\ \A r \in own : faults' = 0 => runs[r].status = "running"
  /\ faults \in Nat /\ faults' \in Nat /\ faults <= faults'

\* An evaluation may close its own run only.
MayClose(e, own) ==
  \/ own = {}
  \/ evals[e].pc \in {"benchmark", "failing"} /\ own = {RunOf(e)}

LEMMA EvidenceKept ==
  ASSUME NEW c \in Candidate, Evidence(c),
         \A r \in RunId : runs[r].status = "succeeded" => runs'[r] = runs[r]
  PROVE  Evidence(c)'
BY DEF Evidence, Regresses

LEMMA RunsStayOnLockedData ==
  ASSUME TablesSound, NEW own, Kept(own)
  PROVE  RunsOnLockedData'
<1> SUFFICES ASSUME NEW r \in RunId, runs'[r].status # "absent"
             PROVE  /\ datasets'[runs'[r].dataset].locked
                    /\ datasets'[runs'[r].dataset].cases > 0
  BY DEF RunsOnLockedData
<1>1. /\ runs'[r].dataset \in Dataset
      /\ datasets[runs'[r].dataset].cases \in Nat
      /\ datasets'[runs'[r].dataset].cases \in Nat
  BY DEF TablesSound, Kept, TablesTyped, RunRow, DatasetRow
<1>2. /\ datasets[runs'[r].dataset].locked
      /\ datasets[runs'[r].dataset].cases > 0
  BY DEF TablesSound, RunsOnLockedData, Kept
<1>3. QED
  BY <1>1, <1>2 DEF Kept

\* While no reply is lost a closed run is never written again.
LEMMA ClosedRunsKept ==
  ASSUME NEW own, Kept(own), faults' = 0
  PROVE  \A r \in RunId : runs[r].status = "succeeded" => runs'[r] = runs[r]
BY DEF Kept

LEMMA PassedStaysFounded ==
  ASSUME TablesSound, NEW own, Kept(own),
         faults' = 0 => \A c \in Candidate :
           status'[c] = "passed" => status[c] = "passed" \/ Evidence(c)
  PROVE  PassedHadEvidence'
<1> SUFFICES ASSUME faults' = 0, NEW c \in Candidate, status'[c] = "passed"
             PROVE  Evidence(c)'
  BY DEF PassedHadEvidence
<1>1. faults = 0
  BY DEF Kept
<1>2. Evidence(c)
  BY <1>1 DEF TablesSound, PassedHadEvidence
<1>3. QED
  BY <1>2, ClosedRunsKept, EvidenceKept

LEMMA OthersKept ==
  ASSUME NEW d \in Evaluator, TablesSound, Local(d), evals'[d] = evals[d],
         NEW own, Kept(own), evals[d].pc \in Owning => RunOf(d) \notin own
  PROVE  Local(d)'
<1>0. evals[d] \in EvalState
  BY DEF Local
<1>1. evals[d].pc \in {"list", "create"} => datasets'[DatasetOf(d)].locked
  BY <1>0 DEF Local, Kept, EvalState, DatasetOf
<1>2. evals[d].pc = "create" => datasets'[DatasetOf(d)].cases > 0
  <2>1. /\ DatasetOf(d) \in Dataset
        /\ datasets[DatasetOf(d)].cases \in Nat
        /\ datasets'[DatasetOf(d)].cases \in Nat
    BY <1>0 DEF EvalState, DatasetOf, TablesSound, TablesTyped, DatasetRow, Kept
  <2>2. QED
    BY <2>1 DEF Local, Kept
<1>4. evals[d].pc \in Owning => runs'[RunOf(d)] = runs[RunOf(d)]
  BY DEF Local, Kept
<1>5. evals[d].pc \in {"decide", "mark"} /\ Fails(RunOf(d))'
        => evals[d].verdict # "passed"
  BY <1>4 DEF Local, Fails, FallsShort, Regresses, Owning, Closed, RunOf
<1>6. faults' = 0 =>
        /\ evals[d].pc = "failing" => runs'[RunOf(d)].status = "running"
        /\ \A x \in evals[d].seen :
             /\ x.status = "succeeded" /\ x.candidate = CandidateOf(d)
             /\ \E r \in RunId : x = runs'[r]
        /\ evals[d].pc \in {"decide", "mark"} /\ evals[d].verdict = "passed"
             => Evidence(CandidateOf(d))'
  <2> SUFFICES ASSUME faults' = 0
               PROVE  /\ evals[d].pc = "failing" =>
                           runs'[RunOf(d)].status = "running"
                      /\ \A x \in evals[d].seen :
                           /\ x.status = "succeeded"
                           /\ x.candidate = CandidateOf(d)
                           /\ \E r \in RunId : x = runs'[r]
                      /\ /\ evals[d].pc \in {"decide", "mark"}
                         /\ evals[d].verdict = "passed"
                         => Evidence(CandidateOf(d))'
    OBVIOUS
  <2>0. faults = 0
    BY DEF Kept
  <2>1. \A r \in RunId : runs[r].status = "succeeded" => runs'[r] = runs[r]
    BY ClosedRunsKept
  <2>2. evals[d].pc = "failing" => runs'[RunOf(d)].status = "running"
    BY <2>0, <1>4 DEF Local, Owning
  <2>3. \A x \in evals[d].seen :
          /\ x.status = "succeeded" /\ x.candidate = CandidateOf(d)
          /\ \E r \in RunId : x = runs'[r]
    BY <2>0, <2>1 DEF Local
  <2>4. evals[d].pc \in {"decide", "mark"} /\ evals[d].verdict = "passed"
          => Evidence(CandidateOf(d))'
    <3>1. CandidateOf(d) \in Candidate
      BY <1>0 DEF EvalState, CandidateOf
    <3>2. CandidateOf(d)' = CandidateOf(d)
      BY DEF CandidateOf
    <3>3. QED
      BY <2>0, <2>1, <3>1, EvidenceKept, <3>2 DEF Local, Evidence, Regresses
  <2>5. QED
    BY <2>2, <2>3, <2>4
<1>7. /\ DatasetOf(d)' = DatasetOf(d) /\ RunOf(d)' = RunOf(d)
      /\ CandidateOf(d)' = CandidateOf(d)
  BY DEF DatasetOf, RunOf, CandidateOf
<1>8. evals[d].pc \in Owning =>
       /\ RunOf(d) \in RunId
       /\ runs'[RunOf(d)].status # "absent"
       /\ runs'[RunOf(d)].candidate = CandidateOf(d)
       /\ evals[d].pc = "benchmark" => runs'[RunOf(d)].status = "running"
       /\ evals[d].pc \in Closed => runs'[RunOf(d)].status = "succeeded"
  BY <1>4 DEF Local
<1>9. evals[d].pc = "survey" => runs'[RunOf(d)] \in evals[d].seen
  BY <1>4 DEF Local, Owning, Closed
<1>10. QED
  BY <1>0, <1>1, <1>2, <1>5, <1>6, <1>7, <1>8, <1>9 DEF Local

\* A step of one evaluation, whose new state is v.
LEMMA OwnStep ==
  ASSUME IInv, NEW e \in Evaluator, NEW v \in EvalState,
         evals' = [evals EXCEPT ![e] = v],
         NEW own, MayClose(e, own), Kept(own), CountersTyped', Local(e)',
         v.pc \in Owning => \/ evals[e].pc \in Owning /\ v.run = RunOf(e)
                            \/ runs[v.run].status = "absent",
         PassedHadEvidence'
  PROVE  IInv'
<1>1. /\ evals \in [Evaluator -> EvalState]
      /\ CountersTyped /\ TablesSound /\ Apart
      /\ \A d \in Evaluator : Local(d)
  BY Split DEF Parts
<1>2. /\ evals'[e] = v
      /\ \A d \in Evaluator \ {e} : evals'[d] = evals[d]
      /\ evals' \in [Evaluator -> EvalState]
  BY <1>1
<1>3. \A d \in Evaluator \ {e} : evals[d].pc \in Owning => RunOf(d) \notin own
  BY <1>1 DEF MayClose, Apart, Owning
<1>4. \A d \in Evaluator : Local(d)'
  BY <1>1, <1>2, <1>3, OthersKept
<1>5. TablesSound'
  BY <1>1, RunsStayOnLockedData DEF Kept, TablesSound
<1>6. Apart'
  <2>1. ASSUME NEW d \in Evaluator \ {e}, evals'[d].pc \in Owning,
               v.pc \in Owning
        PROVE  evals[d].run # v.run
    <3>1. /\ evals[d].pc \in Owning
          /\ runs[RunOf(d)].status # "absent"
      BY <1>1, <1>2, <2>1 DEF Local
    <3>2. QED
      BY <1>1, <2>1, <3>1 DEF Apart, RunOf
  <2>2. QED
    BY <1>1, <1>2, <2>1 DEF Apart, RunOf
<1>7. QED
  BY <1>2, <1>4, <1>5, <1>6, SplitNext DEF Parts

\* A step of nobody's evaluation.
LEMMA TablesStep ==
  ASSUME IInv, evals' = evals, Kept({}), CountersTyped', status' = status
  PROVE  IInv'
<1>1. /\ evals \in [Evaluator -> EvalState]
      /\ CountersTyped /\ TablesSound /\ Apart
      /\ \A d \in Evaluator : Local(d)
  BY Split DEF Parts
<1>2. \A d \in Evaluator : Local(d)'
  BY <1>1, OthersKept
<1>3. PassedHadEvidence'
  BY <1>1, PassedStaysFounded
<1>4. TablesSound'
  <2>1. RunsOnLockedData'
    BY <1>1, RunsStayOnLockedData
  <2>2. QED
    BY <1>3, <2>1 DEF Kept, TablesSound
<1>5. Apart'
  BY <1>1 DEF Apart, RunOf
<1>6. QED
  BY <1>1, <1>2, <1>4, <1>5, SplitNext DEF Parts

----------------------------------------------------------------------------
(* What each statement keeps, in whatever step it is executed.             *)

\* The counter of faults never goes back.
FaultsGrow == faults \in Nat /\ faults' \in Nat /\ faults <= faults'

LEMMA UnchangedKept ==
  ASSUME TablesSound, UNCHANGED tables, FaultsGrow
  PROVE  Kept({})
<1>1. /\ datasets' = datasets /\ runs' = runs
      /\ decision' = decision /\ status' = status
  BY DEF tables
<1>2. TablesTyped'
  BY <1>1 DEF TablesSound, TablesTyped
<1>3. \A d \in Dataset : datasets[d].cases \in Nat
  BY DEF TablesSound, TablesTyped, DatasetRow
<1>4. QED
  BY <1>1, <1>2, <1>3 DEF Kept, FaultsGrow

LEMMA LockKept ==
  ASSUME TablesSound, NEW e \in Evaluator, evals[e] \in EvalState, LockRow(e),
         FaultsGrow
  PROVE  Kept({})
<1> DEFINE d == DatasetOf(e)
           row == [datasets[d] EXCEPT !.locked = TRUE]
<1>1. d \in Dataset
  BY DEF EvalState, DatasetOf
<1>2. /\ datasets \in [Dataset -> DatasetRow]
      /\ datasets[d] \in DatasetRow
  BY <1>1 DEF TablesSound, TablesTyped
<1>3. row \in DatasetRow /\ row.locked /\ row.cases = datasets[d].cases
  BY <1>2 DEF DatasetRow
<1>4. datasets' = [datasets EXCEPT ![d] = row]
  BY <1>1, <1>2 DEF LockRow
<1> HIDE DEF row, d
<1>5. /\ datasets' \in [Dataset -> DatasetRow]
      /\ \A x \in Dataset : datasets'[x] = IF x = d THEN row ELSE datasets[x]
  BY <1>1, <1>2, <1>3, <1>4
<1>6. /\ runs' = runs /\ decision' = decision /\ status' = status
  BY DEF LockRow
<1>7. TablesTyped'
  BY <1>5, <1>6 DEF TablesSound, TablesTyped
<1>8. \A x \in Dataset : datasets[x].cases \in Nat
  BY <1>2 DEF DatasetRow
<1>9. QED
  BY <1>3, <1>5, <1>6, <1>7, <1>8 DEF Kept, FaultsGrow

\* Of the runs, one row is replaced or added.
LEMMA RunWritten ==
  ASSUME TablesSound, NEW r \in RunId, NEW row \in RunRow, row.status # "absent",
         runs' = [runs EXCEPT ![r] = row], UNCHANGED <<datasets, decision, status>>,
         FaultsGrow, NEW own,
         IF runs[r].status = "absent"
         THEN /\ datasets[row.dataset].locked /\ datasets[row.dataset].cases > 0
              /\ own = {}
         ELSE /\ row.candidate = runs[r].candidate
              /\ row.dataset = runs[r].dataset
              /\ own = {r}
              /\ faults' = 0 => runs[r].status = "running"
  PROVE  Kept(own)
<1>1. runs \in [RunId -> RunRow]
  BY DEF TablesSound, TablesTyped
<1>2. /\ runs' \in [RunId -> RunRow]
      /\ \A q \in RunId : runs'[q] = IF q = r THEN row ELSE runs[q]
  BY <1>1
<1>3. TablesTyped'
  BY <1>2 DEF TablesSound, TablesTyped
<1>4. \A x \in Dataset : datasets[x].cases \in Nat
  BY DEF TablesSound, TablesTyped, DatasetRow
<1>5. \A q \in RunId :
        IF runs[q].status = "absent"
        THEN runs'[q].status # "absent" =>
               /\ datasets[runs'[q].dataset].locked
               /\ datasets[runs'[q].dataset].cases > 0
        ELSE /\ runs'[q].status # "absent"
             /\ runs'[q].candidate = runs[q].candidate
             /\ runs'[q].dataset = runs[q].dataset
             /\ q \notin own => runs'[q] = runs[q]
  BY <1>2
<1>6. QED
  BY <1>3, <1>4, <1>5 DEF Kept, FaultsGrow

LEMMA InsertKept ==
  ASSUME TablesSound, NEW e \in Evaluator, Local(e), NEW r \in RunId, InsertRun(e, r),
         FaultsGrow
  PROVE  /\ Kept({})
         /\ runs'[r].status = "running" /\ runs'[r].candidate = CandidateOf(e)
<1> DEFINE row == [status |-> "running", candidate |-> CandidateOf(e),
                   dataset |-> DatasetOf(e), score |-> <<0, 0>>]
<1>1. CandidateOf(e) \in Candidate /\ DatasetOf(e) \in Dataset
  BY DEF Local, EvalState, CandidateOf, DatasetOf
<1>2. /\ row \in RunRow /\ row.status = "running"
      /\ row.dataset = DatasetOf(e) /\ row.candidate = CandidateOf(e)
  BY <1>1 DEF RunRow
<1>3. /\ runs' = [runs EXCEPT ![r] = row]
      /\ UNCHANGED <<datasets, decision, status>>
      /\ runs[r].status = "absent"
  BY DEF InsertRun, NextRun
<1> HIDE DEF row
<1>4. datasets[DatasetOf(e)].locked /\ datasets[DatasetOf(e)].cases > 0
  BY DEF InsertRun, Local
<1>5. Kept({})
  BY <1>2, <1>3, <1>4, RunWritten
<1>6. runs \in [RunId -> RunRow]
  BY DEF TablesSound, TablesTyped
<1>7. QED
  BY <1>2, <1>3, <1>5, <1>6

LEMMA FinishKept ==
  ASSUME TablesSound, NEW e \in Evaluator, Local(e),
         evals[e].pc \in {"benchmark", "failing"},
         NEW outcome \in {"succeeded", "failed"}, NEW score \in (0..10) \X (0..10),
         FinishRun(e, outcome, score), FaultsGrow
  PROVE  /\ Kept({RunOf(e)})
         /\ RunOf(e) \in RunId
         /\ runs'[RunOf(e)].status = outcome
         /\ runs'[RunOf(e)].candidate = CandidateOf(e)
<1> DEFINE r == RunOf(e)
           row == [runs[r] EXCEPT !.status = outcome, !.score = score]
<1>1. /\ r \in RunId /\ runs[r].status # "absent"
      /\ runs[r].candidate = CandidateOf(e)
  BY DEF Local, Owning
<1>2. runs \in [RunId -> RunRow] /\ runs[r] \in RunRow
  BY <1>1 DEF TablesSound, TablesTyped
<1>3. /\ row \in RunRow /\ row.status = outcome
      /\ row.candidate = runs[r].candidate /\ row.dataset = runs[r].dataset
  BY <1>2 DEF RunRow
<1>4. /\ runs' = [runs EXCEPT ![r] = row]
      /\ UNCHANGED <<datasets, decision, status>>
  BY DEF FinishRun
<1>5. faults' = 0 => runs[r].status = "running"
  BY DEF Local, FaultsGrow, Owning
<1> HIDE DEF row, r
<1>6. Kept({r})
  BY <1>1, <1>3, <1>4, <1>5, RunWritten
<1>7. runs'[r] = row
  BY <1>1, <1>2, <1>4
<1>8. QED
  BY <1>1, <1>3, <1>6, <1>7 DEF r

\* A write that leaves the datasets and the runs alone.
LEMMA VerdictKept ==
  ASSUME TablesSound, TablesTyped', UNCHANGED <<datasets, runs>>, FaultsGrow
  PROVE  Kept({})
<1>1. \A d \in Dataset : datasets[d].cases \in Nat
  BY DEF TablesSound, TablesTyped, DatasetRow
<1>2. QED
  BY <1>1 DEF Kept, FaultsGrow

LEMMA DecisionKept ==
  ASSUME TablesSound, NEW e \in Evaluator, evals[e] \in EvalState, RecordDecision(e),
         FaultsGrow
  PROVE  Kept({})
<1>1. evals[e].verdict \in {"passed", "failed", "incomplete"}
  BY DEF EvalState
<1>2. TablesTyped'
  BY <1>1 DEF TablesSound, TablesTyped, RecordDecision
<1>3. QED
  BY <1>2, VerdictKept DEF RecordDecision

LEMMA MarkKept ==
  ASSUME TablesSound, NEW e \in Evaluator, evals[e] \in EvalState, MarkVersion(e),
         FaultsGrow
  PROVE  /\ Kept({})
         /\ \A c \in Candidate : status'[c] = "passed" =>
              \/ status[c] = "passed"
              \/ c = CandidateOf(e) /\ evals[e].verdict = "passed"
<1> DEFINE word == IF evals[e].verdict = "incomplete" THEN "candidate"
                   ELSE evals[e].verdict
<1>1. /\ word \in {"draft", "candidate", "passed", "failed"}
      /\ word = "passed" => evals[e].verdict = "passed"
  BY DEF EvalState
<1>2. /\ status' = [status EXCEPT ![CandidateOf(e)] = word]
      /\ UNCHANGED <<datasets, runs, decision>>
  BY DEF MarkVersion
<1> HIDE DEF word
<1>3. TablesTyped'
  BY <1>1, <1>2 DEF TablesSound, TablesTyped
<1>4. Kept({})
  BY <1>2, <1>3, VerdictKept
<1>5. QED
  BY <1>1, <1>2, <1>4 DEF TablesSound, TablesTyped

----------------------------------------------------------------------------
(* One lemma per group of actions.                                         *)

\* What an evaluation step is entitled to.
Given(e) ==
  /\ IInv /\ TablesSound /\ CountersTyped
  /\ evals \in [Evaluator -> EvalState] /\ evals[e] \in EvalState
  /\ Local(e)

LEMMA GivenHere == ASSUME IInv, NEW e \in Evaluator PROVE Given(e)
BY Split DEF Parts, Given

\* A step that is no fault leaves the counters.
LEMMA CountersKept ==
  ASSUME CountersTyped, UNCHANGED others
  PROVE  CountersTyped' /\ FaultsGrow
BY EvaluationAssumption DEF CountersTyped, others, FaultsGrow

\* An evaluation at rest, or about to read, knows nothing.
Restful == {"idle", "read", "answered", "lockRefused", "error"}

LEMMA QuietTyped ==
  ASSUME NEW label \in Restful
  PROVE  /\ Quiet(label) \in EvalState /\ Quiet(label).pc = label
         /\ Quiet(label).seen = {} /\ label \notin Owning
<1>1. AnyDataset \in Dataset /\ AnyCandidate \in Candidate
  BY EvaluationAssumption DEF AnyDataset, AnyCandidate
<1>2. QED
  BY <1>1 DEF Quiet, EvalState, Restful, Owning, Closed

LEMMA RestingKnowsNothing ==
  ASSUME NEW e \in Evaluator, NEW v \in EvalState, evals'[e] = v,
         v.pc \in Restful, v.seen = {}
  PROVE  Local(e)'
BY DEF Local, Restful, Owning, Closed

\* Any step to rest.
LEMMA ToRest ==
  ASSUME NEW e \in Evaluator, Given(e), NEW v \in EvalState,
         evals' = [evals EXCEPT ![e] = v], v.pc \in Restful, v.seen = {},
         NEW own, MayClose(e, own), Kept(own), CountersTyped',
         faults' = 0 => \A c \in Candidate :
           status'[c] = "passed" => status[c] = "passed" \/ Evidence(c)
  PROVE  IInv'
<1>1. evals'[e] = v /\ v.pc \notin Owning
  BY DEF Given, Restful, Owning, Closed
<1>2. Local(e)'
  BY <1>1, RestingKnowsNothing
<1>3. PassedHadEvidence'
  BY PassedStaysFounded DEF Given
<1>4. QED
  BY <1>1, <1>2, <1>3, OwnStep DEF Given

\* A step that only the evaluation itself notices.
LEMMA PrivateStep ==
  ASSUME NEW e \in Evaluator, Given(e), NEW v \in EvalState,
         evals' = [evals EXCEPT ![e] = v], UNCHANGED <<tables, others>>,
         Local(e)',
         v.pc \in Owning => evals[e].pc \in Owning /\ v.run = RunOf(e)
  PROVE  IInv'
<1>1. CountersTyped' /\ FaultsGrow
  BY CountersKept DEF Given
<1>2. Kept({})
  BY <1>1, UnchangedKept DEF Given
<1>3. PassedHadEvidence'
  BY <1>2, PassedStaysFounded DEF Given, tables
<1>4. QED
  BY <1>1, <1>2, <1>3, OwnStep DEF Given, MayClose

LEMMA BeginKeeps ==
  ASSUME IInv, NEW e \in Evaluator, NEW c \in Candidate,
         NEW todo \in SUBSET Dataset, Begin(e, c, todo)
  PROVE  IInv'
<1> DEFINE v == [Quiet("read") EXCEPT !.candidate = c, !.todo = todo]
<1>1. Given(e)
  BY GivenHere
<1>2. v \in EvalState /\ v.pc = "read" /\ v.seen = {}
  BY QuietTyped DEF EvalState, Restful
<1>3. /\ evals' = [evals EXCEPT ![e] = v]
      /\ UNCHANGED tables /\ UNCHANGED <<authors, faults, cutShort>>
  BY DEF Begin
<1> HIDE DEF v
<1>4. planned' \in 0..MaxRuns
  <2>1. IsFiniteSet(todo)
    BY EvaluationAssumption, FS_Subset
  <2>2. Cardinality(todo) \in Nat
    BY <2>1, FS_CardinalityType
  <2>3. QED
    BY <1>1, <2>2, EvaluationAssumption DEF Given, CountersTyped, Begin
<1>5. CountersTyped' /\ FaultsGrow
  BY <1>1, <1>3, <1>4, EvaluationAssumption DEF Given, CountersTyped, FaultsGrow
<1>6. Kept({})
  BY <1>1, <1>3, <1>5, UnchangedKept DEF Given
<1>7. QED
  BY <1>1, <1>2, <1>3, <1>5, <1>6, ToRest DEF tables, MayClose, Restful

LEMMA TablesStepsKeep ==
  ASSUME IInv,
         \/ \E d \in Dataset : CreateDataset(d)
         \/ \E a \in Author, d \in Dataset : CheckCase(a, d)
         \/ \E a \in Author : InsertCase(a)
  PROVE  IInv'
<1>1. TablesSound /\ CountersTyped
  BY Split DEF Parts
<1>2. ASSUME NEW d \in Dataset, CreateDataset(d) PROVE IInv'
  <2>1. CountersTyped' /\ FaultsGrow
    BY <1>1, <1>2, CountersKept DEF CreateDataset, others
  <2> DEFINE row == [datasets[d] EXCEPT !.exists = TRUE]
  <2>2. /\ datasets \in [Dataset -> DatasetRow]
        /\ datasets[d] \in DatasetRow
    BY <1>1 DEF TablesSound, TablesTyped
  <2>3. /\ row \in DatasetRow /\ row.locked = datasets[d].locked
        /\ row.cases = datasets[d].cases
    BY <2>2 DEF DatasetRow
  <2>4. datasets' = [datasets EXCEPT ![d] = row]
    BY <1>2 DEF CreateDataset
  <2> HIDE DEF row
  <2>5. /\ datasets' \in [Dataset -> DatasetRow]
        /\ \A x \in Dataset :
             /\ datasets[x].cases \in Nat
             /\ datasets'[x].locked = datasets[x].locked
             /\ datasets'[x].cases = datasets[x].cases
    BY <2>2, <2>3, <2>4 DEF DatasetRow
  <2>6. Kept({})
    BY <1>1, <1>2, <2>1, <2>5
       DEF CreateDataset, Kept, TablesSound, TablesTyped, FaultsGrow
  <2>7. QED
    BY <1>2, <2>1, <2>6, TablesStep DEF CreateDataset
<1>3. ASSUME NEW a \in Author, NEW d \in Dataset, CheckCase(a, d) PROVE IInv'
  <2>1. CountersTyped' /\ FaultsGrow
    BY <1>1, <1>3, EvaluationAssumption DEF CheckCase, CountersTyped, FaultsGrow
  <2>2. Kept({})
    BY <1>1, <1>3, <2>1, UnchangedKept DEF CheckCase, tables
  <2>3. QED
    BY <1>3, <2>1, <2>2, TablesStep DEF CheckCase, tables
<1>4. ASSUME NEW a \in Author, InsertCase(a) PROVE IInv'
  <2> DEFINE d == authors[a].dataset
             row == [datasets[d] EXCEPT !.cases = @ + 1]
  <2>1. d \in Dataset /\ datasets[d].cases < MaxCases
    BY <1>1, <1>4 DEF CountersTyped, InsertCase
  <2>2. CountersTyped' /\ FaultsGrow
    BY <1>1, <1>4, EvaluationAssumption DEF InsertCase, CountersTyped, FaultsGrow
  <2>3. /\ datasets \in [Dataset -> DatasetRow]
        /\ datasets[d] \in DatasetRow
    BY <1>1, <2>1 DEF TablesSound, TablesTyped
  <2>4. /\ row \in DatasetRow /\ row.locked = datasets[d].locked
        /\ row.cases = datasets[d].cases + 1 /\ datasets[d].cases \in Nat
    BY <2>1, <2>3, EvaluationAssumption DEF DatasetRow
  <2>5. datasets' = [datasets EXCEPT ![d] = row]
    BY <1>4 DEF InsertCase
  <2> HIDE DEF row, d
  <2>6. /\ datasets' \in [Dataset -> DatasetRow]
        /\ \A x \in Dataset :
             /\ datasets[x].cases \in Nat
             /\ datasets'[x].locked = datasets[x].locked
             /\ datasets'[x].cases >= datasets[x].cases
    BY <2>1, <2>3, <2>4, <2>5 DEF DatasetRow
  <2>7. Kept({})
    BY <1>1, <1>4, <2>2, <2>6
       DEF InsertCase, Kept, TablesSound, TablesTyped, FaultsGrow
  <2>8. QED
    BY <1>4, <2>2, <2>7, TablesStep DEF InsertCase
<1>5. QED
  BY <1>2, <1>3, <1>4

----------------------------------------------------------------------------
(* The gate.                                                               *)

LEMMA GateVerdicts ==
  ASSUME NEW seen, NEW required
  PROVE  EvaluateGate(seen, required) \in {"passed", "failed", "incomplete"}
BY DEF EvaluateGate

LEMMA GatePassed ==
  ASSUME NEW seen, NEW required, EvaluateGate(seen, required) = "passed"
  PROVE  /\ OfType(seen, "functional") # {}
         /\ \A x \in Eligible(seen) : ~FallsShort(x) /\ ~Regresses(x)
BY DEF EvaluateGate, Missing

----------------------------------------------------------------------------
(* The steps of an evaluation.                                             *)

LEMMA ReadDatasetKeeps ==
  ASSUME NEW e \in Evaluator, Given(e), ReadDataset(e)
  PROVE  IInv'
<1>1. PICK d \in evals[e].todo :
        evals' = [evals EXCEPT ![e] =
          [@ EXCEPT !.pc = IF datasets[d].locked THEN "list" ELSE "lock",
                    !.dataset = d, !.todo = evals[e].todo \ {d}]]
  BY DEF ReadDataset
<1> DEFINE v == [evals[e] EXCEPT
                   !.pc = IF datasets[d].locked THEN "list" ELSE "lock",
                   !.dataset = d, !.todo = evals[e].todo \ {d}]
<1>2. /\ v \in EvalState /\ v.dataset = d /\ v.seen = evals[e].seen
      /\ v.candidate = evals[e].candidate
      /\ v.pc = IF datasets[d].locked THEN "list" ELSE "lock"
  BY DEF Given, EvalState
<1>3. evals' = [evals EXCEPT ![e] = v]
  BY <1>1
<1> HIDE DEF v
<1>4. evals'[e] = v /\ UNCHANGED <<tables, others>>
  BY <1>3 DEF Given, ReadDataset
<1>5. Local(e)'
  BY <1>2, <1>4
     DEF Given, Local, Owning, Closed, DatasetOf, CandidateOf, tables, others
<1>6. QED
  BY <1>2, <1>3, <1>4, <1>5, PrivateStep DEF Owning, Closed

LEMMA LockKeeps ==
  ASSUME NEW e \in Evaluator, Given(e), Lock(e)
  PROVE  IInv'
<1>1. CASE LockRow(e) /\ Goto(e, "list") /\ UNCHANGED others
  <2> DEFINE v == [evals[e] EXCEPT !.pc = "list"]
  <2>1. /\ v \in EvalState /\ v.pc = "list" /\ v.dataset = evals[e].dataset
        /\ v.seen = evals[e].seen /\ v.candidate = evals[e].candidate
    BY DEF Given, EvalState
  <2>2. evals' = [evals EXCEPT ![e] = v]
    BY <1>1 DEF Goto
  <2> HIDE DEF v
  <2>3. evals'[e] = v
    BY <2>2 DEF Given
  <2>4. CountersTyped' /\ FaultsGrow
    BY <1>1, CountersKept DEF Given
  <2>5. Kept({})
    BY <1>1, <2>4, LockKept DEF Given
  <2>6. datasets'[evals[e].dataset].locked
    BY <1>1 DEF LockRow, DatasetOf, Given, EvalState, TablesSound, TablesTyped,
                DatasetRow
  <2>7. faults' = faults /\ runs' = runs /\ status' = status
    BY <1>1 DEF LockRow, others
  <2>8. Local(e)'
    BY <2>1, <2>3, <2>6, <2>7
       DEF Given, Local, Owning, Closed, DatasetOf, CandidateOf
  <2>9. PassedHadEvidence'
    BY <2>5, <2>7, PassedStaysFounded DEF Given
  <2>10. QED
    BY <2>1, <2>2, <2>4, <2>5, <2>8, <2>9, OwnStep
       DEF Given, MayClose, Owning, Closed
<1>2. CASE evals' = [evals EXCEPT ![e] = Quiet("lockRefused")]
             /\ UNCHANGED <<tables, others>>
  <2>1. CountersTyped' /\ FaultsGrow
    BY <1>2, CountersKept DEF Given
  <2>2. Kept({})
    BY <1>2, <2>1, UnchangedKept DEF Given
  <2>3. QED
    BY <1>2, <2>1, <2>2, QuietTyped, ToRest DEF MayClose, Restful, tables
<1>3. QED
  BY <1>1, <1>2 DEF Lock

LEMMA ListCasesKeeps ==
  ASSUME NEW e \in Evaluator, Given(e), ListCases(e)
  PROVE  IInv'
<1>0. UNCHANGED <<tables, others>>
  BY DEF ListCases
<1>1. CASE datasets[DatasetOf(e)].cases = 0
  <2>1. evals' = [evals EXCEPT ![e] = Quiet("error")]
    BY <1>1 DEF ListCases
  <2>2. CountersTyped' /\ FaultsGrow
    BY <1>0, CountersKept DEF Given
  <2>3. Kept({})
    BY <1>0, <2>2, UnchangedKept DEF Given
  <2>4. QED
    BY <1>0, <2>1, <2>2, <2>3, QuietTyped, ToRest DEF MayClose, Restful, tables
<1>2. CASE datasets[DatasetOf(e)].cases # 0
  <2> DEFINE v == [evals[e] EXCEPT !.pc = "create"]
  <2>1. /\ v \in EvalState /\ v.pc = "create" /\ v.dataset = evals[e].dataset
        /\ v.seen = evals[e].seen /\ v.candidate = evals[e].candidate
    BY DEF Given, EvalState
  <2>2. evals' = [evals EXCEPT ![e] = v]
    BY <1>2 DEF ListCases
  <2> HIDE DEF v
  <2>3. evals'[e] = v
    BY <2>2 DEF Given
  <2>4. datasets[evals[e].dataset].cases > 0
    BY <1>2 DEF DatasetOf, Given, EvalState, TablesSound, TablesTyped, DatasetRow
  <2>5. datasets[evals[e].dataset].locked
    BY DEF Given, Local, ListCases, DatasetOf
  <2>6. Local(e)'
    BY <1>0, <2>1, <2>3, <2>4, <2>5
       DEF Given, Local, Owning, Closed, DatasetOf, CandidateOf, tables, others
  <2>7. QED
    BY <1>0, <2>1, <2>2, <2>6, PrivateStep DEF Owning, Closed
<1>3. QED
  BY <1>1, <1>2

LEMMA CreateRunKeeps ==
  ASSUME NEW e \in Evaluator, Given(e), CreateRun(e)
  PROVE  IInv'
<1>1. PICK r \in RunId :
        /\ InsertRun(e, r)
        /\ evals' = [evals EXCEPT ![e] = [@ EXCEPT !.pc = "benchmark", !.run = r]]
  BY DEF CreateRun
<1> DEFINE v == [evals[e] EXCEPT !.pc = "benchmark", !.run = r]
<1>2. /\ v \in EvalState /\ v.pc = "benchmark" /\ v.run = r
      /\ v.seen = evals[e].seen /\ v.candidate = evals[e].candidate
  BY DEF Given, EvalState
<1>3. evals' = [evals EXCEPT ![e] = v]
  BY <1>1
<1> HIDE DEF v
<1>4. evals'[e] = v
  BY <1>3 DEF Given
<1>5. CountersTyped' /\ FaultsGrow
  BY CountersKept DEF Given, CreateRun
<1>6. /\ Kept({})
      /\ runs'[r].status = "running" /\ runs'[r].candidate = CandidateOf(e)
  BY <1>1, <1>5, InsertKept DEF Given
<1>7. faults' = 0 => faults = 0 /\ \A x \in evals[e].seen :
                       /\ x.status = "succeeded"
                       /\ x.candidate = CandidateOf(e)
                       /\ \E q \in RunId : x = runs'[q]
  <2>1. faults' = 0 => \A q \in RunId :
          runs[q].status = "succeeded" => runs'[q] = runs[q]
    BY <1>6, ClosedRunsKept
  <2>2. QED
    BY <1>6, <2>1 DEF Given, Local, Kept
<1>8. Local(e)'
  BY <1>2, <1>4, <1>6, <1>7 DEF Given, Local, Closed, RunOf, CandidateOf
<1>9. status' = status
  BY <1>1 DEF InsertRun
<1>10. PassedHadEvidence'
  BY <1>6, <1>9, PassedStaysFounded DEF Given
<1>11. runs[r].status = "absent"
  BY <1>1 DEF InsertRun, NextRun
<1>12. QED
  BY <1>2, <1>3, <1>5, <1>6, <1>8, <1>10, <1>11, OwnStep DEF Given, MayClose

LEMMA SucceedKeeps ==
  ASSUME NEW e \in Evaluator, Given(e), Succeed(e)
  PROVE  IInv'
<1>1. PICK score \in Scores : FinishRun(e, "succeeded", score)
  BY DEF Succeed
<1> DEFINE v == [evals[e] EXCEPT !.pc = "collect"]
<1>2. /\ v \in EvalState /\ v.pc = "collect" /\ v.run = evals[e].run
      /\ v.seen = evals[e].seen /\ v.candidate = evals[e].candidate
  BY DEF Given, EvalState
<1>3. evals' = [evals EXCEPT ![e] = v]
  BY DEF Succeed, Goto
<1> HIDE DEF v
<1>4. evals'[e] = v
  BY <1>3 DEF Given
<1>5. CountersTyped' /\ FaultsGrow
  BY CountersKept DEF Given, Succeed
<1>6. score \in (0..10) \X (0..10)
  BY EvaluationAssumption
<1>7. /\ Kept({RunOf(e)}) /\ RunOf(e) \in RunId
      /\ runs'[RunOf(e)].status = "succeeded"
      /\ runs'[RunOf(e)].candidate = CandidateOf(e)
  BY <1>1, <1>5, <1>6, FinishKept DEF Given, Succeed
<1>8. faults' = 0 => faults = 0 /\ \A x \in evals[e].seen :
                       /\ x.status = "succeeded"
                       /\ x.candidate = CandidateOf(e)
                       /\ \E q \in RunId : x = runs'[q]
  <2>1. faults' = 0 => \A q \in RunId :
          runs[q].status = "succeeded" => runs'[q] = runs[q]
    BY <1>7, ClosedRunsKept
  <2>2. QED
    BY <1>7, <2>1 DEF Given, Local, Kept
<1>9. Local(e)'
  BY <1>2, <1>4, <1>7, <1>8 DEF Given, Local, Closed, RunOf, CandidateOf
<1>10. status' = status
  BY <1>1 DEF FinishRun
<1>11. PassedHadEvidence'
  BY <1>7, <1>10, PassedStaysFounded DEF Given
<1>12. QED
  BY <1>2, <1>3, <1>5, <1>7, <1>9, <1>11, OwnStep
     DEF Given, MayClose, Succeed, Owning, RunOf

LEMMA RaisesKeeps ==
  ASSUME NEW e \in Evaluator, Given(e), BenchmarkRaises(e)
  PROVE  IInv'
<1> DEFINE v == [evals[e] EXCEPT !.pc = "failing"]
<1>1. /\ v \in EvalState /\ v.pc = "failing" /\ v.run = evals[e].run
      /\ v.seen = evals[e].seen /\ v.candidate = evals[e].candidate
  BY DEF Given, EvalState
<1>2. evals' = [evals EXCEPT ![e] = v] /\ UNCHANGED <<tables, others>>
  BY DEF BenchmarkRaises, Goto
<1> HIDE DEF v
<1>3. evals'[e] = v
  BY <1>2 DEF Given
<1>4. Local(e)'
  BY <1>1, <1>2, <1>3
     DEF Given, Local, BenchmarkRaises, Owning, Closed, RunOf, CandidateOf,
         tables, others
<1>5. QED
  BY <1>1, <1>2, <1>4, PrivateStep DEF BenchmarkRaises, Owning, RunOf

LEMMA FinishFailedKeeps ==
  ASSUME NEW e \in Evaluator, Given(e), FinishFailed(e)
  PROVE  IInv'
<1>1. CountersTyped' /\ FaultsGrow
  BY CountersKept DEF Given, FinishFailed
<1>2. Kept({RunOf(e)})
  BY <1>1, FinishKept DEF Given, FinishFailed
<1>3. status' = status
  BY DEF FinishFailed, FinishRun
<1>4. QED
  BY <1>1, <1>2, <1>3, QuietTyped, ToRest DEF FinishFailed, MayClose, Restful

LEMMA CollectKeeps ==
  ASSUME NEW e \in Evaluator, Given(e), CollectRuns(e)
  PROVE  IInv'
<1> DEFINE found == {runs[r] : r \in SucceededOf(CandidateOf(e))}
           v == [evals[e] EXCEPT !.pc = "survey", !.seen = found]
<1>0. /\ found \subseteq RunRow
      /\ \A x \in found :
           /\ x.status = "succeeded" /\ x.candidate = evals[e].candidate
           /\ \E r \in RunId : x = runs[r]
  BY DEF Given, TablesSound, TablesTyped, SucceededOf, CandidateOf
<1>00. evals[e].pc = "collect" /\ runs[evals[e].run] \in found
  BY DEF Given, Local, CollectRuns, Owning, Closed, RunOf, CandidateOf, SucceededOf
<1> HIDE DEF found
<1>1. /\ v \in EvalState /\ v.pc = "survey" /\ v.run = evals[e].run
      /\ v.seen = found /\ v.candidate = evals[e].candidate
  BY <1>0 DEF Given, EvalState
<1>2. evals' = [evals EXCEPT ![e] = v] /\ UNCHANGED <<tables, others>>
  BY DEF CollectRuns, found
<1> HIDE DEF v
<1>3. evals'[e] = v
  BY <1>2 DEF Given
<1>4. /\ runs'[evals[e].run] \in found
      /\ \A x \in found :
           /\ x.status = "succeeded" /\ x.candidate = evals[e].candidate
           /\ \E r \in RunId : x = runs'[r]
  BY <1>0, <1>00, <1>2 DEF tables
<1>5. Local(e)'
  BY <1>1, <1>2, <1>3, <1>4, <1>00
     DEF Given, Local, CollectRuns, Owning, Closed, RunOf, CandidateOf, tables,
         others
<1>6. QED
  BY <1>1, <1>2, <1>5, PrivateStep DEF CollectRuns, Owning, Closed, RunOf

LEMMA SurveyKeeps ==
  ASSUME NEW e \in Evaluator, Given(e), SurveyDatasets(e)
  PROVE  IInv'
<1> DEFINE gate == EvaluateGate(evals[e].seen, PersonalHoldoutListed)
           v == [evals[e] EXCEPT !.pc = "decide", !.verdict = gate, !.seen = {}]
<1>1. gate \in {"passed", "failed", "incomplete"}
  BY GateVerdicts
<1>2. gate = "passed" =>
        /\ OfType(evals[e].seen, "functional") # {}
        /\ \A x \in Eligible(evals[e].seen) : ~FallsShort(x) /\ ~Regresses(x)
  BY GatePassed
<1>3. evals' = [evals EXCEPT ![e] = v] /\ UNCHANGED <<tables, others>>
  BY DEF SurveyDatasets
<1> HIDE DEF gate
<1>4. /\ v \in EvalState /\ v.pc = "decide" /\ v.run = evals[e].run
      /\ v.seen = {} /\ v.candidate = evals[e].candidate
      /\ v.verdict = gate
  BY <1>1 DEF Given, EvalState
<1> HIDE DEF v
<1>5. evals'[e] = v
  BY <1>3 DEF Given
<1>6. Fails(evals[e].run) => gate # "passed"
  <2>1. runs[evals[e].run] \in evals[e].seen
    BY DEF Given, Local, SurveyDatasets, RunOf
  <2>2. QED
    BY <1>2, <2>1 DEF Fails, Eligible
<1>7. faults = 0 /\ gate = "passed" => Evidence(evals[e].candidate)
  <2> SUFFICES ASSUME faults = 0, gate = "passed"
               PROVE  Evidence(evals[e].candidate)
    OBVIOUS
  <2>1. PICK x \in evals[e].seen :
               x \in Eligible(evals[e].seen) /\ TypeOf[x.dataset] = "functional"
    BY <1>2 DEF OfType, Eligible
  <2>2. PICK r \in RunId : x = runs[r]
    BY DEF Given, Local
  <2>3. /\ runs[r].status = "succeeded"
        /\ runs[r].candidate = evals[e].candidate
        /\ SplitOf[runs[r].dataset] = "holdout"
    BY <2>1, <2>2 DEF Eligible, Given, Local, CandidateOf
  <2>4. runs[r].score[1] \in Nat
    BY DEF Given, TablesSound, TablesTyped, RunRow
  <2>5. runs[r].score[1] >= PassThreshold /\ ~Regresses(runs[r])
    BY <1>2, <2>1, <2>2, <2>4 DEF FallsShort, PassThreshold
  <2>6. QED
    BY <2>1, <2>2, <2>3, <2>5 DEF Evidence
<1>8. Local(e)'
  <2>1. /\ RunOf(e)' = evals[e].run /\ RunOf(e) = evals[e].run
        /\ CandidateOf(e)' = evals[e].candidate
        /\ CandidateOf(e) = evals[e].candidate
    BY <1>4, <1>5 DEF RunOf, CandidateOf
  <2>2. runs' = runs /\ faults' = faults
    BY <1>3 DEF tables, others
  <2>3. Fails(RunOf(e))' => gate # "passed"
    BY <1>6, <2>1, <2>2 DEF Fails, FallsShort, Regresses
  <2>4. faults = 0 /\ gate = "passed" => Evidence(CandidateOf(e))'
    BY <1>7, <2>1, <2>2 DEF Evidence, Regresses
  <2>5. QED
    BY <1>4, <1>5, <2>1, <2>2, <2>3, <2>4
       DEF Given, Local, SurveyDatasets, Owning, Closed
<1>9. QED
  BY <1>3, <1>4, <1>8, PrivateStep DEF Given, SurveyDatasets, Owning, Closed, RunOf

LEMMA DecideKeeps ==
  ASSUME NEW e \in Evaluator, Given(e), Decide(e)
  PROVE  IInv'
<1> DEFINE v == [evals[e] EXCEPT !.pc = "mark"]
<1>1. /\ v \in EvalState /\ v.pc = "mark" /\ v.run = evals[e].run
      /\ v.seen = evals[e].seen /\ v.candidate = evals[e].candidate
      /\ v.verdict = evals[e].verdict
  BY DEF Given, EvalState
<1>2. evals' = [evals EXCEPT ![e] = v]
  BY DEF Decide, Goto
<1> HIDE DEF v
<1>3. evals'[e] = v
  BY <1>2 DEF Given
<1>4. CountersTyped' /\ FaultsGrow
  BY CountersKept DEF Given, Decide
<1>5. Kept({})
  BY <1>4, DecisionKept DEF Given, Decide
<1>6. /\ evals[e].pc = "decide"
      /\ runs' = runs /\ status' = status /\ faults' = faults
  BY DEF Decide, RecordDecision, others
<1>7. Local(e)'
  <2>1. /\ RunOf(e)' = RunOf(e) /\ CandidateOf(e)' = CandidateOf(e)
    BY <1>1, <1>3 DEF RunOf, CandidateOf
  <2>2. Fails(RunOf(e))' => Fails(RunOf(e))
    BY <1>6, <2>1 DEF Fails, FallsShort, Regresses
  <2>3. Evidence(CandidateOf(e)) => Evidence(CandidateOf(e))'
    BY <1>6, <2>1 DEF Evidence, Regresses
  <2>4. QED
    BY <1>1, <1>3, <1>6, <2>1, <2>2, <2>3 DEF Given, Local, Owning, Closed
<1>8. PassedHadEvidence'
  BY <1>5, <1>6, PassedStaysFounded DEF Given
<1>9. QED
  BY <1>1, <1>2, <1>4, <1>5, <1>6, <1>7, <1>8, OwnStep
     DEF Given, MayClose, Owning, Closed, RunOf

LEMMA MarkKeeps ==
  ASSUME NEW e \in Evaluator, Given(e), Mark(e)
  PROVE  IInv'
<1> DEFINE next == [Quiet("read") EXCEPT !.candidate = CandidateOf(e),
                                         !.todo = evals[e].todo]
           v == IF evals[e].todo = {} THEN Quiet("answered") ELSE next
<1>1. /\ Quiet("answered") \in EvalState /\ Quiet("answered").pc = "answered"
      /\ Quiet("answered").seen = {}
  BY QuietTyped DEF Restful
<1>2. next \in EvalState /\ next.pc = "read" /\ next.seen = {}
  BY QuietTyped DEF Restful, Given, EvalState, CandidateOf
<1>3. evals' = [evals EXCEPT ![e] = v]
  BY DEF Mark
<1> HIDE DEF next
<1>4. v \in EvalState /\ v.pc \in Restful /\ v.seen = {}
  BY <1>1, <1>2 DEF Restful
<1> HIDE DEF v
<1>5. CountersTyped' /\ FaultsGrow
  BY EvaluationAssumption DEF Given, Mark, CountersTyped, FaultsGrow
<1>6. /\ Kept({})
      /\ \A c \in Candidate : status'[c] = "passed" =>
           \/ status[c] = "passed"
           \/ c = CandidateOf(e) /\ evals[e].verdict = "passed"
  BY <1>5, MarkKept DEF Given, Mark
<1>7. faults' = 0 => (evals[e].verdict = "passed" => Evidence(CandidateOf(e)))
  BY DEF Given, Local, Mark, MarkVersion, others
<1>8. QED
  BY <1>3, <1>4, <1>5, <1>6, <1>7, ToRest DEF MayClose

LEMMA FinishLostKeeps ==
  ASSUME NEW e \in Evaluator, Given(e), FinishLost(e)
  PROVE  IInv'
<1>1. PICK score \in Scores : FinishRun(e, "succeeded", score)
  BY DEF FinishLost
<1> DEFINE v == [evals[e] EXCEPT !.pc = "failing"]
<1>2. /\ v \in EvalState /\ v.pc = "failing" /\ v.run = evals[e].run
      /\ v.candidate = evals[e].candidate
  BY DEF Given, EvalState
<1>3. evals' = [evals EXCEPT ![e] = v]
  BY DEF FinishLost, Goto
<1> HIDE DEF v
<1>4. evals'[e] = v
  BY <1>3 DEF Given
<1>5. CountersTyped' /\ FaultsGrow /\ faults' # 0
  BY EvaluationAssumption DEF Given, FinishLost, CountersTyped, FaultsGrow
<1>6. score \in (0..10) \X (0..10)
  BY EvaluationAssumption
<1>7. /\ Kept({RunOf(e)}) /\ RunOf(e) \in RunId
      /\ runs'[RunOf(e)].status = "succeeded"
      /\ runs'[RunOf(e)].candidate = CandidateOf(e)
  BY <1>1, <1>5, <1>6, FinishKept DEF Given, FinishLost
<1>8. Local(e)'
  BY <1>2, <1>4, <1>5, <1>7 DEF Given, Local, Closed, RunOf, CandidateOf
<1>9. PassedHadEvidence'
  BY <1>5 DEF PassedHadEvidence
<1>10. QED
  BY <1>2, <1>3, <1>5, <1>7, <1>8, <1>9, OwnStep
     DEF Given, MayClose, FinishLost, Owning, RunOf

LEMMA InterruptKeeps ==
  ASSUME NEW e \in Evaluator, Given(e), Interrupt(e)
  PROVE  IInv'
<1>0. CandidateOf(e) \in Candidate
  BY DEF Given, EvalState, CandidateOf
<1>1. CountersTyped' /\ FaultsGrow /\ faults' # 0
  BY <1>0, EvaluationAssumption DEF Given, Interrupt, CountersTyped, FaultsGrow
<1>2. evals' = [evals EXCEPT ![e] = Quiet("error")]
  BY DEF Interrupt
<1>3. ASSUME NEW own, Kept(own), MayClose(e, own) PROVE IInv'
  BY <1>1, <1>2, <1>3, QuietTyped, ToRest DEF Restful
<1>4. CASE LockRow(e)
  BY <1>1, <1>3, <1>4, LockKept DEF Given, MayClose
<1>5. CASE \E r \in RunId : InsertRun(e, r)
  BY <1>1, <1>3, <1>5, InsertKept DEF Given, MayClose
<1>6. CASE evals[e].pc = "benchmark"
             /\ \E score \in Scores : FinishRun(e, "succeeded", score)
  <2>1. PICK score \in Scores : FinishRun(e, "succeeded", score)
    BY <1>6
  <2>2. score \in (0..10) \X (0..10)
    BY EvaluationAssumption
  <2>3. Kept({RunOf(e)})
    BY <1>1, <1>6, <2>1, <2>2, FinishKept DEF Given
  <2>4. QED
    BY <1>3, <1>6, <2>3 DEF MayClose
<1>7. CASE evals[e].pc = "failing" /\ FinishRun(e, "failed", <<0, 0>>)
  <2>1. Kept({RunOf(e)})
    BY <1>1, <1>7, FinishKept DEF Given
  <2>2. QED
    BY <1>3, <1>7, <2>1 DEF MayClose
<1>8. CASE RecordDecision(e)
  BY <1>1, <1>3, <1>8, DecisionKept DEF Given, MayClose
<1>9. CASE MarkVersion(e)
  BY <1>1, <1>3, <1>9, MarkKept DEF Given, MayClose
<1>10. CASE UNCHANGED tables
  BY <1>1, <1>3, <1>10, UnchangedKept DEF Given, MayClose
<1>11. QED
  BY <1>4, <1>5, <1>6, <1>7, <1>8, <1>9, <1>10 DEF Interrupt

----------------------------------------------------------------------------
(* The invariant and what follows from it.                                 *)

LEMMA InitInv == Init => IInv
<1> SUFFICES ASSUME Init PROVE Parts
  BY Split
<1>1. AnyDataset \in Dataset /\ AnyCandidate \in Candidate
  BY EvaluationAssumption DEF AnyDataset, AnyCandidate
<1>2. /\ evals \in [Evaluator -> EvalState]
      /\ \A e \in Evaluator : evals[e].pc = "idle" /\ evals[e].seen = {}
  BY QuietTyped DEF Init, Restful
<1>3. CountersTyped
  BY <1>1, EvaluationAssumption DEF Init, CountersTyped
<1>4. TablesTyped
  <2>1. datasets \in [Dataset -> DatasetRow]
    BY EvaluationAssumption DEF Init, DatasetRow
  <2>2. runs \in [RunId -> RunRow]
    BY <1>1 DEF Init, RunRow
  <2>3. QED
    BY <2>1, <2>2 DEF Init, TablesTyped
<1>5. RunsOnLockedData /\ PassedHadEvidence
  BY DEF Init, RunsOnLockedData, PassedHadEvidence
<1>6. Apart /\ \A e \in Evaluator : Local(e)
  BY <1>2 DEF Apart, Local, Owning, Closed
<1>7. QED
  BY <1>2, <1>3, <1>4, <1>5, <1>6 DEF Parts, TablesSound

LEMMA NextInv == IInv /\ [Next]_vars => IInv'
<1> SUFFICES ASSUME IInv, [Next]_vars PROVE IInv'
  OBVIOUS
<1>1. ASSUME NEW e \in Evaluator, EvalStep(e) \/ Interrupt(e) \/ FinishLost(e)
      PROVE  IInv'
  BY <1>1, GivenHere, ReadDatasetKeeps, LockKeeps, ListCasesKeeps,
     CreateRunKeeps, SucceedKeeps, RaisesKeeps, FinishFailedKeeps, CollectKeeps,
     SurveyKeeps, DecideKeeps, MarkKeeps, InterruptKeeps, FinishLostKeeps
     DEF EvalStep
<1>2. ASSUME NEW e \in Evaluator, NEW c \in Candidate, NEW d \in Dataset,
             RunOne(e, c, d)
      PROVE  IInv'
  BY <1>2, BeginKeeps DEF RunOne
<1>3. ASSUME NEW e \in Evaluator, NEW c \in Candidate, RunHoldouts(e, c)
      PROVE  IInv'
  BY <1>3, BeginKeeps DEF RunHoldouts
<1>4. CASE UNCHANGED vars
  BY <1>4 DEF vars, IInv, TypeOK, DatasetsSecured, RunsOnLockedData, RunsOwned,
              OwnRunSeen, OwnFailureCounts, ViewsStayTrue, PassedHadEvidence,
              Evidence, Fails, FallsShort, Regresses, RunOf, DatasetOf,
              CandidateOf
<1>5. QED
  BY <1>1, <1>2, <1>3, <1>4, TablesStepsKeep DEF Next

\* The invariant holds of every behaviour, whatever the interleaving of the
\* evaluations, the authors of cases and the faults.
THEOREM Invariance == Spec => []IInv
<1>1. QED
  BY InitInv, NextInv, PTL DEF Spec

\* Every variable keeps its type.
THEOREM TypeCorrect == Spec => []TypeOK
<1>1. IInv => TypeOK
  BY DEF IInv
<1>2. QED
  BY <1>1, Invariance, PTL

\* No run is ever made of a dataset that is not locked or has no case: the lock
\* of services.py:172 comes before the run, and nothing unlocks a dataset.
THEOREM LockedBeforeRun == Spec => []RunsOnLockedData
<1>1. IInv => RunsOnLockedData
  BY DEF IInv
<1>2. QED
  BY <1>1, Invariance, PTL

\* An evaluation reads the run it has just closed back from the registry, so
\* that it never passes a version on a holdout it saw fail
\* (services.py:183-198).
THEOREM OwnFailureHeeded == Spec => []OwnFailureCounts
<1>1. IInv => OwnFailureCounts
  BY DEF IInv
<1>2. QED
  BY <1>1, Invariance, PTL

\* While no call fails, a version is passed only on a run in the tables that
\* deserves it: closed runs are never rewritten, so the evidence that the gate
\* saw (gating.py:15-33) is still there when the status is written
\* (services.py:200).
THEOREM PassedOnEvidence == Spec => []PassedHadEvidence
<1>1. IInv => PassedHadEvidence
  BY DEF IInv
<1>2. QED
  BY <1>1, Invariance, PTL

----------------------------------------------------------------------------
(* What Delivery, which composes Evaluation with Releases, needs to know.  *)

\* A fault elsewhere, counted with those of the evaluations.
LEMMA FaultElsewhere ==
  ASSUME IInv, UNCHANGED <<datasets, runs, decision, status, evals, authors, planned,
                           cutShort>>,
         faults < MaxFaults, faults' = faults + 1
  PROVE  IInv'
<1>1. TablesSound /\ CountersTyped
  BY Split DEF Parts
<1>2. CountersTyped' /\ FaultsGrow
  BY <1>1, EvaluationAssumption DEF CountersTyped, FaultsGrow
<1>3. Kept({})
  BY <1>1, <1>2, UnchangedKept DEF tables
<1>4. QED
  BY <1>2, <1>3, TablesStep

LEMMA FaultsStay ==
  ASSUME IInv, [Next]_vars, faults' = 0
  PROVE  faults = 0
<1>1. faults \in Nat
  BY EvaluationAssumption DEF IInv, TypeOK
<1>2. ASSUME NEW e \in Evaluator, EvalStep(e) PROVE faults' = faults
  BY <1>2 DEF EvalStep, ReadDataset, Lock, ListCases, CreateRun, Succeed,
     BenchmarkRaises, FinishFailed, CollectRuns, SurveyDatasets, Decide, Mark,
     others
<1>3. ASSUME NEW e \in Evaluator, Interrupt(e) \/ FinishLost(e) PROVE FALSE
  BY <1>1, <1>3 DEF Interrupt, FinishLost
<1>4. ASSUME NEW e \in Evaluator, NEW c \in Candidate, NEW todo, Begin(e, c, todo)
      PROVE  faults' = faults
  BY <1>4 DEF Begin
<1>5. ASSUME NEW a \in Author, NEW d \in Dataset,
             CreateDataset(d) \/ CheckCase(a, d) \/ InsertCase(a)
      PROVE  faults' = faults
  BY <1>5 DEF CreateDataset, CheckCase, InsertCase, others
<1>6. ASSUME NEW d \in Dataset, CreateDataset(d) PROVE faults' = faults
  BY <1>6 DEF CreateDataset, others
<1>7. ASSUME NEW a \in Author, InsertCase(a) PROVE faults' = faults
  BY <1>7 DEF InsertCase
<1>8. CASE UNCHANGED vars
  BY <1>8 DEF vars
<1>9. QED
  BY <1>2, <1>3, <1>4, <1>5, <1>6, <1>7, <1>8 DEF Next, RunOne, RunHoldouts

\* While no call fails, a run that has succeeded is never written again.
LEMMA SucceededRunsStand ==
  ASSUME IInv, [Next]_vars, faults' = 0, NEW r \in RunId,
         runs[r].status = "succeeded"
  PROVE  runs'[r] = runs[r]
<1>1. runs \in [RunId -> RunRow] /\ faults \in Nat
  BY EvaluationAssumption DEF IInv, TypeOK
<1>2. ASSUME NEW e \in Evaluator, InsertRun(e, r) PROVE FALSE
  BY <1>2 DEF InsertRun, NextRun
<1>3. ASSUME NEW e \in Evaluator, RunOf(e) # r, NEW outcome, NEW score,
             FinishRun(e, outcome, score)
      PROVE  runs'[r] = runs[r]
  BY <1>1, <1>3 DEF FinishRun
<1>4. ASSUME NEW e \in Evaluator, CreateRun(e) PROVE runs'[r] = runs[r]
  BY <1>1, <1>2, <1>4 DEF CreateRun, InsertRun
<1>5. ASSUME NEW e \in Evaluator, Succeed(e) PROVE runs'[r] = runs[r]
  <2>1. RunOf(e) # r
    BY <1>5, GivenHere DEF Succeed, Given, Local, Owning
  <2>2. QED
    BY <1>3, <1>5, <2>1 DEF Succeed
<1>6. ASSUME NEW e \in Evaluator, FinishFailed(e) PROVE runs'[r] = runs[r]
  <2>1. faults = 0
    BY <1>6 DEF FinishFailed, others
  <2>2. RunOf(e) # r
    BY <1>6, <2>1, GivenHere DEF FinishFailed, Given, Local
  <2>3. QED
    BY <1>3, <1>6, <2>2 DEF FinishFailed
<1>7. ASSUME NEW e \in Evaluator, EvalStep(e) PROVE runs'[r] = runs[r]
  BY <1>4, <1>5, <1>6, <1>7
     DEF EvalStep, ReadDataset, Lock, LockRow, ListCases, BenchmarkRaises,
         CollectRuns, SurveyDatasets, Decide, RecordDecision, Mark, MarkVersion,
         tables
<1>8. ASSUME NEW e \in Evaluator, Interrupt(e) \/ FinishLost(e) PROVE FALSE
  BY <1>1, <1>8 DEF Interrupt, FinishLost
<1>9. CASE UNCHANGED vars
  BY <1>9 DEF vars
<1>10. QED
  BY <1>7, <1>8, <1>9 DEF Next, CreateDataset, CheckCase, InsertCase, RunOne,
     RunHoldouts, Begin, tables

----------------------------------------------------------------------------
(* Where the steps of an evaluation lead.                                  *)

LEMMA WhereTo ==
  ASSUME IInv, NEW e \in Evaluator
  PROVE  /\ ReadDataset(e) => evals'[e].pc \in {"lock", "list"}
         /\ Lock(e) => evals'[e].pc \in {"list", "lockRefused"}
         /\ ListCases(e) => evals'[e].pc \in {"create", "error"}
         /\ CreateRun(e) => evals'[e].pc = "benchmark"
         /\ Succeed(e) => evals'[e].pc = "collect"
         /\ BenchmarkRaises(e) \/ FinishLost(e) => evals'[e].pc = "failing"
         /\ FinishFailed(e) \/ Interrupt(e) => evals'[e].pc = "error"
         /\ CollectRuns(e) => evals'[e].pc = "survey"
         /\ SurveyDatasets(e) => evals'[e].pc = "decide"
         /\ Decide(e) => evals'[e].pc = "mark"
         /\ Mark(e) => evals'[e].pc \in {"read", "answered"}
         /\ \A c, todo : Begin(e, c, todo) => evals'[e].pc = "read"
<1>0. evals \in [Evaluator -> EvalState] /\ evals[e] \in EvalState
  BY DEF IInv, TypeOK
<1>1. ReadDataset(e) => evals'[e].pc \in {"lock", "list"}
  BY <1>0 DEF ReadDataset, EvalState
<1>2. Lock(e) => evals'[e].pc \in {"list", "lockRefused"}
  BY <1>0, QuietTyped DEF Lock, Goto, EvalState, Restful
<1>3. ListCases(e) => evals'[e].pc \in {"create", "error"}
  BY <1>0, QuietTyped DEF ListCases, EvalState, Restful
<1>4. CreateRun(e) => evals'[e].pc = "benchmark"
  BY <1>0 DEF CreateRun, EvalState
<1>5. Succeed(e) => evals'[e].pc = "collect"
  BY <1>0 DEF Succeed, Goto
<1>6. BenchmarkRaises(e) \/ FinishLost(e) => evals'[e].pc = "failing"
  <2>1. ASSUME Goto(e, "failing") PROVE evals'[e].pc = "failing"
    BY <1>0, <2>1 DEF Goto, EvalState
  <2>2. BenchmarkRaises(e) => Goto(e, "failing")
    BY DEF BenchmarkRaises
  <2>3. FinishLost(e) => Goto(e, "failing")
    BY DEF FinishLost
  <2>4. QED
    BY <2>1, <2>2, <2>3
<1>7. FinishFailed(e) \/ Interrupt(e) => evals'[e].pc = "error"
  BY <1>0, QuietTyped DEF FinishFailed, Interrupt, Restful
<1>8. CollectRuns(e) => evals'[e].pc = "survey"
  BY <1>0 DEF CollectRuns, EvalState
<1>9. SurveyDatasets(e) => evals'[e].pc = "decide"
  BY <1>0 DEF SurveyDatasets, EvalState
<1>10. Decide(e) => evals'[e].pc = "mark"
  BY <1>0 DEF Decide, Goto
<1>11. ASSUME NEW c, NEW todo PROVE [Quiet("read") EXCEPT !.candidate = c,
                                               !.todo = todo].pc = "read"
  BY DEF Quiet
<1>12. Mark(e) => evals'[e].pc \in {"read", "answered"}
  BY <1>0, <1>11, QuietTyped DEF Mark, Restful
<1>13. \A c, todo : Begin(e, c, todo) => evals'[e].pc = "read"
  BY <1>0, <1>11 DEF Begin
<1>14. QED
  BY <1>1, <1>2, <1>3, <1>4, <1>5, <1>6, <1>7, <1>8, <1>9, <1>10, <1>12, <1>13

\* Only its own steps move an evaluation.
LEMMA OthersRest ==
  ASSUME IInv, NEW e \in Evaluator,
         \/ EvalStep(e) \/ Interrupt(e) \/ FinishLost(e)
         \/ \E c, todo : Begin(e, c, todo)
  PROVE  \A d \in Evaluator \ {e} : evals'[d] = evals[d]
BY DEF IInv, TypeOK, EvalStep, ReadDataset, Lock, ListCases, CreateRun, Succeed,
   Goto, BenchmarkRaises, FinishFailed, CollectRuns, SurveyDatasets, Decide, Mark,
   Interrupt, FinishLost, Begin

----------------------------------------------------------------------------
(* Runs are closed, for any number of evaluations.                         *)

LEMMA FaultsCounted == IInv => faults \in Nat
BY EvaluationAssumption DEF IInv, TypeOK

\* A step that touches no run and takes none out of its evaluation's hands.
LEMMA OwnersStay ==
  ASSUME RunningOwned, faults' = 0 => faults = 0, UNCHANGED runs,
         \A e \in Evaluator : evals[e].pc \in {"benchmark", "failing"} =>
           evals'[e].pc \in {"benchmark", "failing"} /\ RunOf(e)' = RunOf(e)
  PROVE  RunningOwned'
BY DEF RunningOwned

\* An evaluation writes its own run, and moves on with it or lets it go.
LEMMA RunHandedOn ==
  ASSUME IInv, RunningOwned, faults' = 0 => faults = 0, NEW e \in Evaluator,
         \A d \in Evaluator \ {e} : evals'[d] = evals[d],
         NEW r, r \in RunId,
         \A q \in RunId \ {r} : runs'[q] = runs[q],
         evals[e].pc \in {"benchmark", "failing"} => RunOf(e) = r,
         \/ runs'[r].status # "running"
         \/ evals'[e].pc \in {"benchmark", "failing"} /\ RunOf(e)' = r
  PROVE  RunningOwned'
<1> SUFFICES ASSUME faults' = 0, NEW q \in RunId, runs'[q].status = "running"
             PROVE  \E d \in Evaluator : /\ evals'[d].pc \in {"benchmark", "failing"}
                                         /\ RunOf(d)' = q
  BY DEF RunningOwned
<1>1. CASE q = r
  BY <1>1
<1>2. CASE q # r
  <2>1. PICK d \in Evaluator : /\ evals[d].pc \in {"benchmark", "failing"}
                               /\ RunOf(d) = q
    BY <1>2 DEF RunningOwned
  <2>2. d # e
    BY <1>2, <2>1
  <2>3. evals'[d] = evals[d]
    BY <2>2
  <2>4. QED
    BY <2>1, <2>3 DEF RunOf
<1>3. QED
  BY <1>1, <1>2

LEMMA EvalStepOwns ==
  ASSUME IInv, RunningOwned, NEW e \in Evaluator, EvalStep(e)
  PROVE  RunningOwned'
<1>0. /\ evals \in [Evaluator -> EvalState] /\ runs \in [RunId -> RunRow]
      /\ faults' = faults
  <2>1. faults' = faults
    BY DEF EvalStep, ReadDataset, Lock, ListCases, CreateRun, Succeed,
       BenchmarkRaises, FinishFailed, CollectRuns, SurveyDatasets, Decide, Mark,
       others
  <2>2. QED
    BY <2>1 DEF IInv, TypeOK
<1>1. \A d \in Evaluator \ {e} : evals'[d] = evals[d]
  BY <1>0 DEF EvalStep, ReadDataset, Lock, ListCases, CreateRun, Succeed, Goto,
     BenchmarkRaises, FinishFailed, CollectRuns, SurveyDatasets, Decide, Mark
<1>2. evals[e].pc \in {"benchmark", "failing"} => RunOf(e) \in RunId
  BY DEF IInv, RunsOwned, Owning
<1>3. CASE CreateRun(e)
  <2>1. PICK r \in RunId :
       /\ InsertRun(e, r)
       /\ evals' = [evals EXCEPT ![e] = [@ EXCEPT !.pc = "benchmark", !.run = r]]
    BY <1>3 DEF CreateRun
  <2>2. /\ evals'[e].pc = "benchmark" /\ evals'[e].run = r
        /\ evals[e].pc = "create"
        /\ \A q \in RunId \ {r} : runs'[q] = runs[q]
    BY <1>0, <2>1 DEF InsertRun, EvalState
  <2>3. QED
    BY <1>0, <1>1, <2>2, RunHandedOn DEF RunOf
<1>4. CASE Succeed(e) \/ FinishFailed(e)
  <2>1. PICK r : r = RunOf(e)
    OBVIOUS
  <2>2. /\ evals[e].pc \in {"benchmark", "failing"}
        /\ \E score : FinishRun(e, "succeeded", score) \/ FinishRun(e, "failed", score)
    BY <1>4 DEF Succeed, FinishFailed
  <2>3. r \in RunId /\ runs'[r].status \in {"succeeded", "failed"}
        /\ \A q \in RunId \ {r} : runs'[q] = runs[q]
    BY <1>0, <1>2, <2>1, <2>2 DEF FinishRun, RunRow
  <2>4. QED
    BY <1>0, <1>1, <2>1, <2>3, RunHandedOn
<1>5. CASE BenchmarkRaises(e)
  <2>1. \A d \in Evaluator : /\ RunOf(d)' = RunOf(d)
                             /\ d # e => evals'[d].pc = evals[d].pc
    BY <1>0, <1>5 DEF BenchmarkRaises, Goto, RunOf, EvalState
  <2>2. evals'[e].pc = "failing" /\ UNCHANGED runs
    BY <1>0, <1>5 DEF BenchmarkRaises, Goto, tables
  <2>3. QED
    BY <1>0, <2>1, <2>2, OwnersStay
<1>6. CASE ReadDataset(e) \/ Lock(e) \/ ListCases(e) \/ CollectRuns(e)
             \/ SurveyDatasets(e) \/ Decide(e) \/ Mark(e)
  <2>1. /\ evals[e].pc \notin {"benchmark", "failing"} /\ UNCHANGED runs
    BY <1>6 DEF ReadDataset, Lock, LockRow, ListCases, CollectRuns,
       SurveyDatasets, Decide, RecordDecision, Mark, MarkVersion, tables
  <2>2. QED
    BY <1>0, <1>1, <2>1, OwnersStay DEF RunOf
<1>7. QED
  BY <1>3, <1>4, <1>5, <1>6 DEF EvalStep

LEMMA StepOwns ==
  ASSUME IInv, RunningOwned, [Next]_vars
  PROVE  RunningOwned'
<1>0. /\ evals \in [Evaluator -> EvalState] /\ faults \in Nat
  BY FaultsCounted DEF IInv, TypeOK
<1>1. ASSUME NEW e \in Evaluator, EvalStep(e) PROVE RunningOwned'
  BY <1>1, EvalStepOwns
<1>2. ASSUME NEW e \in Evaluator, Interrupt(e) \/ FinishLost(e)
      PROVE  RunningOwned'
  BY <1>0, <1>2 DEF Interrupt, FinishLost, RunningOwned
<1>3. ASSUME NEW e \in Evaluator, NEW c \in Candidate, NEW todo, Begin(e, c, todo)
      PROVE  RunningOwned'
  <2>1. /\ evals[e].pc \notin {"benchmark", "failing"}
        /\ UNCHANGED <<runs, faults>>
        /\ \A d \in Evaluator \ {e} : evals'[d] = evals[d]
    BY <1>0, <1>3 DEF Begin, tables
  <2>2. QED
    BY <2>1, OwnersStay DEF RunOf
<1>4. CASE UNCHANGED <<evals, runs, faults>>
  BY <1>4, OwnersStay DEF RunOf
<1>5. QED
  BY <1>1, <1>2, <1>3, <1>4 DEF Next, RunOne, RunHoldouts, CreateDataset,
     CheckCase, InsertCase, vars, tables, others

LEMMA InitOwns == Init => RunningOwned
BY DEF Init, RunningOwned

\* No evaluation leaves a run running behind, unless a call failed.
THEOREM RunsAreClosed == Spec => []RunsEndClosed
<1>1. IInv /\ RunningOwned /\ [Next]_vars => RunningOwned'
  BY StepOwns
<1>2. RunningOwned => RunsEndClosed
  BY DEF RunningOwned, RunsEndClosed, Busy
<1>3. QED
  BY InitOwns, Invariance, <1>1, <1>2, PTL DEF Spec

----------------------------------------------------------------------------
(* Settled evidence stays, for any number of evaluations.                  *)

\* Nobody writes a settled run again, and nobody is about to.
LEMMA SettledStays ==
  ASSUME IInv, [Next]_vars, NEW r \in RunId, Settled(r)
  PROVE  runs'[r] = runs[r] /\ Settled(r)'
<1>0. /\ evals \in [Evaluator -> EvalState] /\ runs \in [RunId -> RunRow]
      /\ runs[r].status = "succeeded"
  BY DEF IInv, TypeOK, Settled
<1>1. \A e \in Evaluator : evals[e].pc \in {"benchmark", "failing"} =>
        RunOf(e) # r
  BY DEF Settled, IInv, RunsOwned, Owning
<1>2. ASSUME NEW e \in Evaluator, NEW q, InsertRun(e, q)
      PROVE  runs'[r] = runs[r]
  BY <1>0, <1>2 DEF InsertRun, NextRun
<1>3. ASSUME NEW e \in Evaluator, evals[e].pc \in {"benchmark", "failing"},
             NEW outcome, NEW score, FinishRun(e, outcome, score)
      PROVE  runs'[r] = runs[r]
  BY <1>0, <1>1, <1>3 DEF FinishRun
<1>4. ASSUME NEW e \in Evaluator, EvalStep(e) \/ Interrupt(e) \/ FinishLost(e)
      PROVE  runs'[r] = runs[r]
  BY <1>2, <1>3, <1>4
     DEF EvalStep, ReadDataset, Lock, LockRow, ListCases, CreateRun, Succeed,
         BenchmarkRaises, FinishFailed, CollectRuns, SurveyDatasets, Decide,
         RecordDecision, Mark, MarkVersion, tables, Interrupt, FinishLost
<1>5. runs'[r] = runs[r]
  BY <1>4 DEF Next, RunOne, RunHoldouts, Begin, CreateDataset, CheckCase,
     InsertCase, vars, tables
<1>6. ASSUME NEW d \in Evaluator, evals'[d].pc = "failing"
      PROVE  evals'[d].run # r
  <2>1. CASE evals'[d] = evals[d]
    BY <1>1, <1>6, <2>1 DEF RunOf
  <2>2. ASSUME NEW e \in Evaluator, BenchmarkRaises(e) \/ FinishLost(e)
        PROVE  evals'[d].run # r
    <3>1. /\ evals[e].pc = "benchmark" /\ evals'[e].run = evals[e].run
          /\ d # e => evals'[d] = evals[d]
      BY <1>0, <2>2 DEF BenchmarkRaises, FinishLost, Goto, EvalState
    <3>2. QED
      BY <1>1, <2>1, <3>1 DEF RunOf
  <2>3. ASSUME NEW e \in Evaluator,
               \/ EvalStep(e) /\ ~BenchmarkRaises(e)
               \/ Interrupt(e)
               \/ \E c, todo : Begin(e, c, todo)
        PROVE  evals'[d].run # r
    <3>1. d # e => evals'[d] = evals[d]
      BY <2>3, OthersRest
    <3>2. evals'[e].pc # "failing"
      BY <2>3, WhereTo DEF EvalStep
    <3>3. QED
      BY <1>6, <2>1, <3>1, <3>2
  <2>4. QED
    BY <2>1, <2>2, <2>3 DEF Next, EvalStep, RunOne, RunHoldouts, CreateDataset,
       CheckCase, InsertCase, vars
<1>7. QED
  BY <1>0, <1>5, <1>6 DEF Settled, RunOf

LEMMA SettledEvidenceStays ==
  ASSUME IInv, [Next]_vars, NEW c \in Candidate, SettledEvidence(c)
  PROVE  SettledEvidence(c)'
BY SettledStays DEF SettledEvidence, Regresses

----------------------------------------------------------------------------
(* One evaluation at a time.                                               *)

\* The status of a version changes by the last write of an evaluation.
LEMMA StatusWritten ==
  ASSUME IInv, [Next]_vars, NEW c \in Candidate, status'[c] # status[c]
  PROVE  \E e \in Evaluator :
           /\ evals[e].pc = "mark" /\ CandidateOf(e) = c
           /\ status'[c] = "passed" => evals[e].verdict = "passed"
<1>1. ASSUME NEW e \in Evaluator, MarkVersion(e)
      PROVE  /\ evals[e].pc = "mark" /\ CandidateOf(e) = c
             /\ status'[c] = "passed" => evals[e].verdict = "passed"
  BY <1>1 DEF MarkVersion, IInv, TypeOK
<1>2. ASSUME NEW e \in Evaluator, EvalStep(e) \/ Interrupt(e) \/ FinishLost(e)
      PROVE  MarkVersion(e)
  BY <1>2 DEF EvalStep, ReadDataset, Lock, LockRow, ListCases, CreateRun,
     InsertRun, Succeed, FinishRun, BenchmarkRaises, FinishFailed, CollectRuns,
     SurveyDatasets, Decide, RecordDecision, Mark, tables, Interrupt, FinishLost
<1>3. QED
  BY <1>1, <1>2 DEF Next, RunOne, RunHoldouts, Begin, CreateDataset, CheckCase,
     InsertCase, vars, tables

LEMMA PassedStaysSettled ==
  ASSUME IInv, PassedIsSettled, GateSawAll, [Next]_vars
  PROVE  PassedIsSettled'
<1> SUFFICES ASSUME NEW c \in Candidate, status'[c] = "passed"
             PROVE  SettledEvidence(c)'
  BY DEF PassedIsSettled
<1>1. SettledEvidence(c)
  <2>1. CASE status[c] = "passed"
    BY <2>1 DEF PassedIsSettled
  <2>2. CASE status[c] # "passed"
    <3>1. PICK e \in Evaluator : /\ evals[e].pc = "mark" /\ CandidateOf(e) = c
                                 /\ evals[e].verdict = "passed"
      BY <2>2, StatusWritten
    <3>2. QED
      BY <3>1 DEF GateSawAll
  <2>3. QED
    BY <2>1, <2>2
<1>2. QED
  BY <1>1, SettledEvidenceStays

\* SoleInv by candidate: what an evaluation of c knows ...
View(c) ==
  \A e \in Evaluator : evals[e].candidate = c =>
    /\ evals[e].pc = "survey" => evals[e].seen = {runs[r] : r \in SucceededOf(c)}
    /\ evals[e].pc \in {"decide", "mark"} /\ evals[e].verdict = "passed" =>
         SettledEvidence(c) /\ Clean(c)
    /\ evals[e].pc = "mark" => decision[c] = evals[e].verdict

Agree(c) == status[c] = CASE decision[c] = "none"       -> "draft"
                          [] decision[c] = "incomplete" -> "candidate"
                          [] OTHER                      -> decision[c]

\* ... and what the tables say of c while no evaluation of it is under way.
Grade(c) ==
  c \notin cutShort =>
    /\ status[c] = "passed"
         /\ (\A e \in Evaluator : evals[e].pc \in Closed => evals[e].candidate # c)
         => \A r \in RunId : runs[r].candidate = c /\ Settled(r) => ~Fails(r)
    /\ (\A e \in Evaluator : evals[e].pc = "mark" => evals[e].candidate # c)
         => Agree(c)

Views == \A c \in Candidate : View(c) /\ Grade(c)

LEMMA SoleSplit == IInv => (SoleInv <=> PassedIsSettled /\ Views)
<1> SUFFICES ASSUME IInv PROVE SoleInv <=> PassedIsSettled /\ Views
  OBVIOUS
<1>0. \A e \in Evaluator : CandidateOf(e) = evals[e].candidate
                             /\ evals[e].candidate \in Candidate
  BY DEF IInv, TypeOK, EvalState, CandidateOf
<1>1. GateSawAll <=> \A c \in Candidate : View(c)
  BY <1>0 DEF GateSawAll, View
<1>2. PassedUnlessPending /\ DecisionMatchesStatus
        <=> \A c \in Candidate : Grade(c)
  BY <1>0 DEF PassedUnlessPending, DecisionMatchesStatus, Grade, Agree
<1>3. QED
  BY <1>1, <1>2 DEF SoleInv, Views

LEMMA SoleSplitNext == IInv' => (SoleInv' <=> PassedIsSettled' /\ Views')
BY SoleSplit, PTL

\* No other evaluation of its candidate is under way.
LEMMA Alone ==
  ASSUME IInv, OneAtATime, NEW e \in Evaluator, Busy(e),
         NEW d \in Evaluator \ {e},
         evals[d].pc \in Owning
  PROVE  evals[d].candidate # evals[e].candidate
BY DEF OneAtATime, Busy, Owning, Closed, CandidateOf

----------------------------------------------------------------------------
(* A step of another candidate.                                            *)

\* What a step of e that leaves the runs and the grade of b alone keeps.
LEMMA AsideKept ==
  ASSUME NEW b \in Candidate, View(b), Grade(b), NEW e \in Evaluator,
         \A d \in Evaluator \ {e} : evals'[d] = evals[d],
         evals[e].pc \in Closed => evals[e].candidate # b,
         evals'[e].pc \in Closed => evals'[e].candidate # b,
         \A r \in RunId : runs[r].status = "succeeded" /\ runs[r].candidate = b
           => runs'[r] = runs[r],
         \A r \in RunId : runs'[r].status = "succeeded" /\ runs'[r].candidate = b
           => runs'[r] = runs[r],
         \A r \in RunId : runs'[r].candidate = b /\ Settled(r)' => Settled(r),
         SettledEvidence(b) => SettledEvidence(b)',
         status'[b] = status[b], decision'[b] = decision[b],
         b \in cutShort => b \in cutShort'
  PROVE  View(b)' /\ Grade(b)'
<1>1. \A r \in RunId : Fails(r)' /\ runs'[r].candidate = b
                         => Fails(r) /\ runs[r].candidate = b
  BY DEF Fails, FallsShort, Regresses
<1>2. Clean(b) => Clean(b)'
  BY <1>1 DEF Clean
<1>3. {runs'[r] : r \in SucceededOf(b)'} = {runs[r] : r \in SucceededOf(b)}
  BY DEF SucceededOf
<1>4. View(b)'
  <2> SUFFICES ASSUME NEW d \in Evaluator, evals'[d].candidate = b,
                      evals'[d].pc \in {"survey", "decide", "mark"}
               PROVE  /\ evals'[d].pc = "survey" =>
                           evals'[d].seen = {runs'[r] : r \in SucceededOf(b)'}
                      /\ evals'[d].pc \in {"decide", "mark"}
                           /\ evals'[d].verdict = "passed" =>
                           SettledEvidence(b)' /\ Clean(b)'
                      /\ evals'[d].pc = "mark" => decision'[b] = evals'[d].verdict
    BY DEF View
  <2>1. evals'[d] = evals[d]
    BY DEF Closed
  <2>2. QED
    BY <1>2, <1>3, <2>1 DEF View
<1>5. Grade(b)'
  <2> SUFFICES ASSUME b \notin cutShort
               PROVE  /\ status[b] = "passed"
                           /\ (\A d \in Evaluator : evals'[d].pc \in Closed =>
                                 evals'[d].candidate # b)
                           => \A r \in RunId : runs'[r].candidate = b /\ Settled(r)'
                                => ~Fails(r)'
                      /\ (\A d \in Evaluator : evals'[d].pc = "mark" =>
                            evals'[d].candidate # b) => Agree(b)
    BY DEF Grade, Agree
  <2>1. ASSUME \A d \in Evaluator : evals'[d].pc \in Closed => evals'[d].candidate # b
        PROVE  \A d \in Evaluator : evals[d].pc \in Closed => evals[d].candidate # b
    BY <2>1
  <2>2. ASSUME \A d \in Evaluator : evals'[d].pc = "mark" => evals'[d].candidate # b
        PROVE  \A d \in Evaluator : evals[d].pc = "mark" => evals[d].candidate # b
    BY <2>2 DEF Closed
  <2>3. QED
    BY <1>1, <2>1, <2>2 DEF Grade
<1>6. QED
  BY <1>4, <1>5

\* What an evaluation may do to the tables: to its own run, or a new one, and
\* to what is said of its own candidate.
LEMMA OwnWrites ==
  ASSUME IInv, NEW e \in Evaluator, EvalStep(e) \/ Interrupt(e) \/ FinishLost(e),
         NEW c, c = evals[e].candidate
  PROVE  /\ \A r \in RunId : runs'[r] # runs[r] =>
              /\ runs'[r].candidate = c
              /\ runs[r].status = "absent" \/ runs[r].candidate = c
         /\ \A b \in Candidate \ {c} : /\ status'[b] = status[b]
                                       /\ decision'[b] = decision[b]
                                       /\ b \in cutShort' <=> b \in cutShort
<1>0. /\ evals[e] \in EvalState /\ runs \in [RunId -> RunRow]
      /\ c = CandidateOf(e) /\ c \in Candidate
      /\ evals[e].pc \in {"benchmark", "failing"} =>
           RunOf(e) \in RunId /\ runs[RunOf(e)].candidate = c
  BY DEF IInv, TypeOK, EvalState, CandidateOf, RunsOwned, Owning
<1>1. ASSUME NEW r \in RunId, InsertRun(e, r)
      PROVE  /\ \A q \in RunId : runs'[q] # runs[q] =>
                  runs'[q].candidate = c /\ runs[q].status = "absent"
             /\ UNCHANGED <<status, decision>>
  BY <1>0, <1>1 DEF InsertRun, NextRun
<1>2. ASSUME NEW outcome, NEW score, evals[e].pc \in {"benchmark", "failing"},
             FinishRun(e, outcome, score)
      PROVE  /\ \A q \in RunId : runs'[q] # runs[q] =>
                  runs'[q].candidate = c /\ runs[q].candidate = c
             /\ UNCHANGED <<status, decision>>
  <2>1. PICK own : own = RunOf(e)
    OBVIOUS
  <2>2. /\ own \in RunId /\ runs[own] \in RunRow /\ runs[own].candidate = c
        /\ runs' = [runs EXCEPT ![own] =
                      [@ EXCEPT !.status = outcome, !.score = score]]
        /\ UNCHANGED <<status, decision>>
    BY <1>0, <1>2, <2>1 DEF FinishRun
  <2>3. runs'[own].candidate = c
    BY <1>0, <2>2 DEF RunRow
  <2>4. QED
    BY <1>0, <2>2, <2>3
<1>3. RecordDecision(e) => /\ UNCHANGED <<runs, status>>
                           /\ \A b \in Candidate \ {c} : decision'[b] = decision[b]
  BY <1>0 DEF RecordDecision, IInv, TypeOK
<1>4. MarkVersion(e) => /\ UNCHANGED <<runs, decision>>
                        /\ \A b \in Candidate \ {c} : status'[b] = status[b]
  BY <1>0 DEF MarkVersion, IInv, TypeOK
<1>5. LockRow(e) \/ UNCHANGED tables => UNCHANGED <<runs, status, decision>>
  BY DEF LockRow, tables
<1>6. \/ LockRow(e) \/ UNCHANGED tables
      \/ RecordDecision(e) \/ MarkVersion(e)
      \/ \E r \in RunId : InsertRun(e, r)
      \/ /\ evals[e].pc \in {"benchmark", "failing"}
         /\ \E outcome, score : FinishRun(e, outcome, score)
  BY DEF EvalStep, ReadDataset, Lock, ListCases, CreateRun, Succeed,
     BenchmarkRaises, FinishFailed, CollectRuns, SurveyDatasets, Decide, Mark,
     Interrupt, FinishLost
<1>7. \A b \in Candidate \ {c} : b \in cutShort' <=> b \in cutShort
  BY <1>0 DEF EvalStep, ReadDataset, Lock, ListCases, CreateRun, Succeed,
     BenchmarkRaises, FinishFailed, CollectRuns, SurveyDatasets, Decide, Mark,
     Interrupt, FinishLost, others
<1>8. QED
  BY <1>1, <1>2, <1>3, <1>4, <1>5, <1>6, <1>7

\* An evaluation does not change its candidate.
LEMMA CandidateStays ==
  ASSUME IInv, NEW e \in Evaluator, EvalStep(e) \/ Interrupt(e) \/ FinishLost(e),
         evals'[e].pc \in Owning
  PROVE  evals'[e].candidate = evals[e].candidate
<1>0. evals \in [Evaluator -> EvalState] /\ evals[e] \in EvalState
  BY DEF IInv, TypeOK
<1>1. ~(ReadDataset(e) \/ Lock(e) \/ ListCases(e) \/ FinishFailed(e) \/ Mark(e)
         \/ Interrupt(e))
  BY WhereTo DEF Owning, Closed
<1>2. CreateRun(e) => evals'[e].candidate = evals[e].candidate
  BY <1>0 DEF CreateRun, EvalState
<1>3. ASSUME NEW label, Goto(e, label) PROVE evals'[e].candidate = evals[e].candidate
  BY <1>0, <1>3 DEF Goto, EvalState
<1>4. Succeed(e) \/ BenchmarkRaises(e) \/ Decide(e) \/ FinishLost(e)
        => evals'[e].candidate = evals[e].candidate
  BY <1>3 DEF Succeed, BenchmarkRaises, Decide, FinishLost
<1>5. CollectRuns(e) \/ SurveyDatasets(e)
        => evals'[e].candidate = evals[e].candidate
  BY <1>0 DEF CollectRuns, SurveyDatasets, EvalState
<1>6. QED
  BY <1>1, <1>2, <1>4, <1>5 DEF EvalStep

LEMMA Bystander ==
  ASSUME IInv, [Next]_vars, NEW e \in Evaluator,
         EvalStep(e) \/ Interrupt(e) \/ FinishLost(e),
         NEW b \in Candidate, b # evals[e].candidate, View(b), Grade(b)
  PROVE  View(b)' /\ Grade(b)'
<1>1. PICK c : c = evals[e].candidate
  OBVIOUS
<1>2. \A d \in Evaluator \ {e} : evals'[d] = evals[d]
  BY OthersRest
<1>3. /\ \A r \in RunId : runs'[r] # runs[r] =>
           /\ runs'[r].candidate = c
           /\ runs[r].status = "absent" \/ runs[r].candidate = c
      /\ status'[b] = status[b] /\ decision'[b] = decision[b]
      /\ b \in cutShort' <=> b \in cutShort
  BY <1>1, OwnWrites
<1>4. evals'[e].pc \in Closed => evals'[e].candidate # b
  BY CandidateStays DEF Owning
<1>5. SettledEvidence(b) => SettledEvidence(b)'
  BY SettledEvidenceStays
<1>6. ASSUME NEW r \in RunId, runs'[r].candidate = b, Settled(r)' PROVE Settled(r)
  <2>1. runs'[r] = runs[r] /\ runs[r].status = "succeeded"
    BY <1>1, <1>3, <1>6 DEF Settled
  <2>2. evals[e].pc = "failing" => RunOf(e) # r
    BY <1>1, <1>6, <2>1 DEF IInv, RunsOwned, Owning, CandidateOf
  <2>3. ASSUME NEW d \in Evaluator \ {e}, evals[d].pc = "failing"
        PROVE  RunOf(d) # r
    BY <1>2, <1>6, <2>3 DEF Settled, RunOf
  <2>4. QED
    BY <2>1, <2>2, <2>3 DEF Settled
<1>7. QED
  BY <1>1, <1>2, <1>3, <1>4, <1>5, <1>6, AsideKept

\* A new call begins, knowing nothing yet.
LEMMA BeginViews ==
  ASSUME IInv, [Next]_vars, NEW e \in Evaluator, NEW c, NEW todo, Begin(e, c, todo),
         NEW b \in Candidate, View(b), Grade(b)
  PROVE  View(b)' /\ Grade(b)'
<1>1. /\ evals[e].pc \notin Closed /\ evals[e].pc # "failing"
      /\ UNCHANGED <<runs, status, decision, cutShort>>
  BY DEF Begin, tables, Closed
<1>2. evals'[e].pc = "read" /\ \A d \in Evaluator \ {e} : evals'[d] = evals[d]
  BY WhereTo, OthersRest
<1>3. \A r \in RunId : Settled(r)' => Settled(r)
  BY <1>1, <1>2 DEF Settled, RunOf
<1>4. SettledEvidence(b) => SettledEvidence(b)'
  BY SettledEvidenceStays
<1>5. QED
  BY <1>1, <1>2, <1>3, <1>4, AsideKept DEF Closed

\* What others do to the tables is neither a run nor a verdict.
LEMMA ViewsBesides ==
  ASSUME Views, UNCHANGED <<evals, runs, status, decision, cutShort>>
  PROVE  Views'
<1> SUFFICES ASSUME NEW b \in Candidate PROVE View(b)' /\ Grade(b)'
  BY DEF Views
<1>1. View(b) /\ Grade(b)
  BY DEF Views
<1>2. View(b)'
  BY <1>1 DEF View, SettledEvidence, Settled, Clean, Fails, FallsShort, Regresses,
              RunOf, SucceededOf
<1>3. Grade(b)'
  BY <1>1 DEF Grade, Agree, Settled, Fails, FallsShort, Regresses, RunOf
<1>4. QED
  BY <1>2, <1>3
----------------------------------------------------------------------------
(* A step of the candidate's own evaluation, the only one under way.       *)

\* Only the evaluation itself may know more of its candidate afterwards.
Single(e, c) ==
  /\ c \in Candidate /\ c = evals[e].candidate
  /\ \A d \in Evaluator \ {e} :
       /\ evals'[d] = evals[d]
       /\ evals[d].pc \in Owning => evals[d].candidate # c

LEMMA SingleHere ==
  ASSUME IInv, OneAtATime, NEW e \in Evaluator, Busy(e),
         EvalStep(e) \/ Interrupt(e) \/ FinishLost(e),
         NEW c, c = evals[e].candidate
  PROVE  Single(e, c)
<1>1. c \in Candidate
  BY DEF IInv, TypeOK, EvalState
<1>2. QED
  BY <1>1, OthersRest, Alone DEF Single

\* The evaluation is not past its run, and stays so.
LEMMA EarlyStep ==
  ASSUME NEW e \in Evaluator, NEW c, Single(e, c), Grade(c),
         evals[e].pc \notin Closed, evals'[e].pc \notin Closed,
         UNCHANGED <<status, decision, cutShort>>,
         \A r \in RunId : Settled(r)' => runs'[r] = runs[r] /\ Settled(r)
  PROVE  View(c)' /\ Grade(c)'
<1>1. \A d \in Evaluator :
        /\ evals[d].pc \in Closed => evals[d].candidate # c
        /\ evals'[d].pc \in Closed => evals'[d].candidate # c
  BY DEF Single, Owning
<1>2. View(c)'
  BY <1>1 DEF View, Closed
<1>3. \A r \in RunId : Settled(r)' /\ Fails(r)' => Fails(r)
  BY DEF Fails, FallsShort, Regresses
<1>4. \A d \in Evaluator : evals[d].pc = "mark" => evals[d].candidate # c
  BY <1>1 DEF Closed
<1>5. Grade(c)'
  <2> SUFFICES ASSUME c \notin cutShort
               PROVE  /\ status[c] = "passed" =>
                           \A r \in RunId : runs'[r].candidate = c /\ Settled(r)'
                             => ~Fails(r)'
                      /\ Agree(c)
    BY DEF Grade, Agree
  <2>1. QED
    BY <1>1, <1>3, <1>4 DEF Grade
<1>6. QED
  BY <1>2, <1>5

LEMMA EarlySteps ==
  ASSUME IInv, NEW e \in Evaluator, NEW c, Single(e, c), Grade(c),
         \/ ReadDataset(e) \/ Lock(e) \/ ListCases(e) \/ CreateRun(e)
         \/ BenchmarkRaises(e) \/ FinishFailed(e) \/ FinishLost(e)
  PROVE  View(c)' /\ Grade(c)'
<1>0. /\ evals \in [Evaluator -> EvalState] /\ evals[e] \in EvalState
      /\ runs \in [RunId -> RunRow]
  BY DEF IInv, TypeOK
<1>1. \A r \in RunId : (\A d \in Evaluator \ {e} :
                          evals'[d].pc = "failing" => evals'[d].run # r)
        => \A d \in Evaluator \ {e} : evals[d].pc = "failing" => RunOf(d) # r
  BY DEF Single, RunOf
<1>2. CASE ReadDataset(e) \/ Lock(e) \/ ListCases(e) \/ BenchmarkRaises(e)
  <2>1. /\ evals[e].pc \in {"read", "lock", "list", "benchmark"}
        /\ UNCHANGED <<runs, status, decision, cutShort>>
    BY <1>2 DEF ReadDataset, Lock, LockRow, ListCases, BenchmarkRaises, tables,
                others
  <2>2. evals'[e].pc \in {"lock", "list", "lockRefused", "create", "error",
                          "failing"}
    BY <1>2, WhereTo
  <2>3. \A r \in RunId : Settled(r)' => runs'[r] = runs[r] /\ Settled(r)
    BY <1>1, <2>1 DEF Settled, RunOf
  <2>4. QED
    BY <2>1, <2>2, <2>3, EarlyStep DEF Closed
<1>3. CASE CreateRun(e)
  <2>1. PICK r \in RunId : InsertRun(e, r)
    BY <1>3 DEF CreateRun
  <2>2. /\ evals[e].pc = "create" /\ UNCHANGED <<status, decision, cutShort>>
        /\ runs'[r].status = "running"
        /\ \A q \in RunId \ {r} : runs'[q] = runs[q]
    BY <1>0, <1>3, <2>1 DEF InsertRun, CreateRun, others
  <2>3. evals'[e].pc = "benchmark"
    BY <1>3, WhereTo
  <2>4. \A q \in RunId : Settled(q)' => runs'[q] = runs[q] /\ Settled(q)
    BY <1>1, <2>2 DEF Settled, RunOf
  <2>5. QED
    BY <2>2, <2>3, <2>4, EarlyStep DEF Closed
<1>4. CASE FinishFailed(e)
  <2>1. PICK own : own = RunOf(e)
    OBVIOUS
  <2>2. /\ evals[e].pc = "failing" /\ UNCHANGED <<status, decision, cutShort>>
    BY <1>4 DEF FinishFailed, FinishRun, others
  <2>3. own \in RunId
    BY <2>1, <2>2 DEF IInv, RunsOwned, Owning
  <2>4. /\ runs'[own].status = "failed"
        /\ \A q \in RunId \ {own} : runs'[q] = runs[q]
    BY <1>0, <1>4, <2>1, <2>3 DEF FinishFailed, FinishRun, RunRow
  <2>5. \A q \in RunId : Settled(q)' => runs'[q] = runs[q] /\ Settled(q)
    BY <1>1, <2>1, <2>4 DEF Settled, RunOf
  <2>6. evals'[e].pc = "error"
    BY <1>4, WhereTo
  <2>7. QED
    BY <2>2, <2>5, <2>6, EarlyStep DEF Closed
<1>5. CASE FinishLost(e)
  <2>1. PICK own : own = RunOf(e)
    OBVIOUS
  <2>2. /\ evals[e].pc = "benchmark" /\ UNCHANGED <<status, decision, cutShort>>
    BY <1>5 DEF FinishLost, FinishRun
  <2>3. own \in RunId
    BY <2>1, <2>2 DEF IInv, RunsOwned, Owning
  <2>4. \A q \in RunId \ {own} : runs'[q] = runs[q]
    BY <1>0, <1>5, <2>1, <2>3 DEF FinishLost, FinishRun, RunRow
  <2>5. evals'[e].pc = "failing" /\ evals'[e].run = own
    BY <1>0, <1>5, <2>1 DEF FinishLost, Goto, RunOf, EvalState
  <2>6. \A q \in RunId : Settled(q)' => runs'[q] = runs[q] /\ Settled(q)
    BY <1>1, <2>2, <2>4, <2>5 DEF Settled, RunOf
  <2>7. QED
    BY <2>2, <2>5, <2>6, EarlyStep DEF Closed
<1>6. QED
  BY <1>2, <1>3, <1>4, <1>5

LEMMA SucceedViews ==
  ASSUME IInv, NEW e \in Evaluator, NEW c, Single(e, c), Grade(c), Succeed(e)
  PROVE  View(c)' /\ Grade(c)'
<1>1. /\ evals[e].pc = "benchmark" /\ evals'[e].pc = "collect"
      /\ evals'[e].candidate = c
  BY WhereTo, CandidateStays DEF Succeed, Single, EvalStep, Owning, Closed
<1>2. UNCHANGED <<status, decision, cutShort>>
  BY DEF Succeed, FinishRun, others
<1>3. View(c)'
  BY <1>1 DEF View, Single, Owning, Closed
<1>4. Grade(c)'
  BY <1>1, <1>2 DEF Grade, Agree, Single, Closed
<1>5. QED
  BY <1>3, <1>4

LEMMA CollectViews ==
  ASSUME IInv, NEW e \in Evaluator, NEW c, Single(e, c), Grade(c), CollectRuns(e)
  PROVE  View(c)' /\ Grade(c)'
<1>1. evals \in [Evaluator -> EvalState] /\ evals[e].pc = "collect"
  BY DEF IInv, TypeOK, CollectRuns
<1>2. /\ evals'[e].pc = "survey" /\ evals'[e].candidate = c
      /\ evals'[e].seen = {runs[r] : r \in SucceededOf(c)}
      /\ UNCHANGED <<runs, status, decision, cutShort>>
  BY <1>1 DEF CollectRuns, CandidateOf, EvalState, tables, others, Single
<1>3. SucceededOf(c)' = SucceededOf(c)
  BY <1>2 DEF SucceededOf
<1>4. View(c)'
  BY <1>2, <1>3 DEF View, Single, Owning, Closed
<1>5. Grade(c)'
  BY <1>1, <1>2 DEF Grade, Agree, Single, Closed
<1>6. QED
  BY <1>4, <1>5

\* With everything in view, the gate passes a version only if it is clean.
LEMMA GateIsSound ==
  ASSUME IInv, NEW e \in Evaluator, NEW c, Single(e, c), View(c),
         evals[e].pc = "survey",
         NEW required, EvaluateGate(evals[e].seen, required) = "passed"
  PROVE  SettledEvidence(c) /\ Clean(c)
<1>1. evals[e].seen = {runs[r] : r \in SucceededOf(c)}
  BY DEF View, Single
<1>2. /\ OfType(evals[e].seen, "functional") # {}
      /\ \A x \in Eligible(evals[e].seen) : ~FallsShort(x) /\ ~Regresses(x)
  BY GatePassed
<1>3. PICK r \in RunId : /\ runs[r] \in Eligible(evals[e].seen)
                         /\ runs[r].candidate = c
                         /\ TypeOf[runs[r].dataset] = "functional"
  BY <1>1, <1>2 DEF OfType, Eligible, SucceededOf
<1>4. /\ runs[r].status = "succeeded" /\ SplitOf[runs[r].dataset] = "holdout"
      /\ ~FallsShort(runs[r]) /\ ~Regresses(runs[r])
  BY <1>2, <1>3 DEF Eligible
<1>5. runs[r].score[1] \in 0..10
  BY DEF IInv, TypeOK, RunRow
<1>6. runs[r].score[1] >= PassThreshold
  BY <1>3, <1>4, <1>5 DEF FallsShort, PassThreshold
<1>7. Settled(r)
  <2>1. ASSUME NEW d \in Evaluator, evals[d].pc = "failing" PROVE RunOf(d) # r
    BY <1>3, <2>1 DEF IInv, RunsOwned, Single, Owning, CandidateOf
  <2>2. QED
    BY <1>4, <2>1 DEF Settled
<1>8. SettledEvidence(c)
  BY <1>3, <1>4, <1>6, <1>7 DEF SettledEvidence
<1>9. Clean(c)
  BY <1>1, <1>2 DEF Clean, Fails, Eligible, SucceededOf
<1>10. QED
  BY <1>8, <1>9

LEMMA SurveyViews ==
  ASSUME IInv, [Next]_vars, NEW e \in Evaluator, NEW c, Single(e, c), View(c),
         Grade(c), SurveyDatasets(e)
  PROVE  View(c)' /\ Grade(c)'
<1>1. evals \in [Evaluator -> EvalState] /\ evals[e].pc = "survey"
  BY DEF IInv, TypeOK, SurveyDatasets
<1>2. /\ evals'[e].pc = "decide" /\ evals'[e].candidate = c
      /\ evals'[e].verdict = EvaluateGate(evals[e].seen, PersonalHoldoutListed)
      /\ UNCHANGED <<runs, status, decision, cutShort>>
  BY <1>1 DEF SurveyDatasets, EvalState, tables, others, Single
<1>3. c \in Candidate
  BY DEF Single
<1>4. ASSUME evals'[e].verdict = "passed" PROVE SettledEvidence(c)' /\ Clean(c)'
  <2>1. SettledEvidence(c) /\ Clean(c)
    BY <1>1, <1>2, <1>4, GateIsSound
  <2>2. Clean(c)'
    BY <1>2, <2>1 DEF Clean, Fails, FallsShort, Regresses
  <2>3. QED
    BY <1>3, <2>1, <2>2, SettledEvidenceStays
<1>5. View(c)'
  BY <1>2, <1>4 DEF View, Single, Owning, Closed
<1>6. Grade(c)'
  BY <1>1, <1>2 DEF Grade, Agree, Single, Closed
<1>7. QED
  BY <1>5, <1>6

LEMMA DecideViews ==
  ASSUME IInv, [Next]_vars, NEW e \in Evaluator, NEW c, Single(e, c), View(c),
         Grade(c), Decide(e)
  PROVE  View(c)' /\ Grade(c)'
<1>1. evals \in [Evaluator -> EvalState] /\ evals[e].pc = "decide"
      /\ c \in Candidate /\ CandidateOf(e) = c
  BY DEF IInv, TypeOK, Decide, RecordDecision, Single, CandidateOf
<1>2. /\ evals'[e].pc = "mark" /\ evals'[e].candidate = c
      /\ evals'[e].verdict = evals[e].verdict
      /\ UNCHANGED <<runs, status, cutShort>>
      /\ decision' = [decision EXCEPT ![c] = evals[e].verdict]
  BY <1>1 DEF Decide, RecordDecision, Goto, EvalState, others, CandidateOf
<1>3. decision'[c] = evals[e].verdict
  BY <1>1, <1>2 DEF IInv, TypeOK
<1>4. ASSUME evals'[e].verdict = "passed" PROVE SettledEvidence(c)' /\ Clean(c)'
  <2>1. SettledEvidence(c) /\ Clean(c)
    BY <1>1, <1>2, <1>4 DEF View, Single
  <2>2. Clean(c)'
    BY <1>2, <2>1 DEF Clean, Fails, FallsShort, Regresses
  <2>3. QED
    BY <1>1, <2>1, <2>2, SettledEvidenceStays
<1>5. View(c)'
  BY <1>2, <1>3, <1>4 DEF View, Single, Owning, Closed
<1>6. Grade(c)'
  BY <1>1, <1>2 DEF Grade, Single, Closed
<1>7. QED
  BY <1>5, <1>6

\* Its last write makes good whatever an interruption had left.
LEMMA MarkViews ==
  ASSUME IInv, NEW e \in Evaluator, NEW c, Single(e, c), View(c), Mark(e)
  PROVE  View(c)' /\ Grade(c)'
<1>1. /\ evals[e].pc = "mark" /\ c \in Candidate /\ CandidateOf(e) = c
      /\ evals[e].verdict \in {"passed", "failed", "incomplete"}
  BY DEF IInv, TypeOK, EvalState, Mark, MarkVersion, Single, CandidateOf
<1>2. /\ status' = [status EXCEPT ![c] = IF evals[e].verdict = "incomplete"
                                         THEN "candidate" ELSE evals[e].verdict]
      /\ UNCHANGED <<runs, decision>>
  BY <1>1 DEF Mark, MarkVersion
<1>3. /\ status'[c] = IF evals[e].verdict = "incomplete" THEN "candidate"
                      ELSE evals[e].verdict
  BY <1>1, <1>2 DEF IInv, TypeOK
<1>4. evals'[e].pc \in {"read", "answered"}
  BY WhereTo
<1>5. View(c)'
  BY <1>4 DEF View, Single, Owning, Closed
<1>6. decision[c] = evals[e].verdict
  BY <1>1 DEF View, Single
<1>7. status'[c] = "passed" => \A r \in RunId : runs[r].candidate = c => ~Fails(r)
  BY <1>1, <1>3 DEF View, Single, Clean
<1>8. status'[c] = "passed" => \A r \in RunId : runs'[r].candidate = c => ~Fails(r)'
  BY <1>2, <1>7 DEF Fails, FallsShort, Regresses
<1>9. Agree(c)'
  BY <1>1, <1>2, <1>3, <1>6 DEF Agree
<1>10. Grade(c)'
  BY <1>8, <1>9 DEF Grade
<1>11. QED
  BY <1>5, <1>10

\* An interruption leaves nothing known, and says so.
LEMMA InterruptViews ==
  ASSUME IInv, NEW e \in Evaluator, NEW c, Single(e, c), Interrupt(e)
  PROVE  View(c)' /\ Grade(c)'
<1>1. evals'[e].pc = "error"
  BY WhereTo
<1>2. c \in cutShort'
  BY DEF Interrupt, Single, CandidateOf
<1>3. View(c)'
  BY <1>1 DEF View, Single, Owning, Closed
<1>4. QED
  BY <1>2, <1>3 DEF Grade

LEMMA OwnViews ==
  ASSUME IInv, OneAtATime, [Next]_vars, NEW e \in Evaluator,
         EvalStep(e) \/ Interrupt(e) \/ FinishLost(e),
         NEW c \in Candidate, c = evals[e].candidate, View(c), Grade(c)
  PROVE  View(c)' /\ Grade(c)'
<1>1. Busy(e)
  BY DEF EvalStep, ReadDataset, Lock, LockRow, ListCases, CreateRun, InsertRun,
     Succeed, BenchmarkRaises, FinishFailed, CollectRuns, SurveyDatasets, Decide,
     RecordDecision, Mark, MarkVersion, Interrupt, FinishLost, Busy
<1>2. Single(e, c)
  BY <1>1, SingleHere
<1>3. QED
  BY <1>2, EarlySteps, SucceedViews, CollectViews, SurveyViews, DecideViews,
     MarkViews, InterruptViews DEF EvalStep

LEMMA SoleStep ==
  ASSUME IInv, OneAtATime, SoleInv, [Next]_vars
  PROVE  SoleInv'
<1>0. IInv' /\ PassedIsSettled /\ Views
  BY NextInv, SoleSplit
<1>1. ASSUME NEW e \in Evaluator, EvalStep(e) \/ Interrupt(e) \/ FinishLost(e)
      PROVE  Views'
  <2>1. ASSUME NEW b \in Candidate PROVE View(b)' /\ Grade(b)'
    BY <1>0, <1>1, <2>1, Bystander, OwnViews DEF Views
  <2>2. QED
    BY <2>1 DEF Views
<1>2. ASSUME NEW e \in Evaluator, NEW c, NEW todo, Begin(e, c, todo)
      PROVE  Views'
  <2>1. ASSUME NEW b \in Candidate PROVE View(b)' /\ Grade(b)'
    BY <1>0, <1>2, <2>1, BeginViews DEF Views
  <2>2. QED
    BY <2>1 DEF Views
<1>3. ASSUME UNCHANGED <<evals, runs, status, decision, cutShort>> PROVE Views'
  BY <1>0, <1>3, ViewsBesides
<1>4. Views'
  BY <1>1, <1>2, <1>3
     DEF Next, RunOne, RunHoldouts, CreateDataset, CheckCase, InsertCase, vars,
         tables, others
<1>5. PassedIsSettled'
  BY PassedStaysSettled DEF SoleInv
<1>6. QED
  BY <1>0, <1>4, <1>5, SoleSplitNext

LEMMA SoleInit == Init => SoleInv
BY DEF Init, Quiet, SoleInv, PassedIsSettled, GateSawAll, PassedUnlessPending,
       DecisionMatchesStatus

\* A fault beside an evaluation leaves what is known of it as it is.
LEMMA SoleBesides ==
  ASSUME IInv, IInv', SoleInv, UNCHANGED <<evals, runs, status, decision, cutShort>>
  PROVE  SoleInv'
<1>1. PassedIsSettled /\ Views
  BY SoleSplit
<1>2. PassedIsSettled'
  BY <1>1 DEF PassedIsSettled, SettledEvidence, Settled, Regresses, RunOf
<1>3. QED
  BY <1>1, <1>2, ViewsBesides, SoleSplitNext

LEMMA OwnedBesides ==
  ASSUME RunningOwned, UNCHANGED <<evals, runs>>, faults' = 0 => faults = 0
  PROVE  RunningOwned'
BY OwnersStay DEF RunOf

LEMMA SoleMeans ==
  ASSUME IInv, SoleInv
  PROVE  PassedMeansPassing /\ DecisionMatchesStatus
<1>1. ASSUME NEW c \in Candidate \ cutShort, status[c] = "passed",
             \A e \in Evaluator : Busy(e) => CandidateOf(e) # c,
             NEW r \in RunId, runs[r].candidate = c, Fails(r)
      PROVE  FALSE
  <2>1. \A e \in Evaluator : evals[e].pc \in Closed => CandidateOf(e) # c
    BY <1>1 DEF Busy, Closed
  <2>2. ASSUME NEW e \in Evaluator, evals[e].pc = "failing" PROVE RunOf(e) # r
    BY <1>1, <2>2 DEF Busy, IInv, RunsOwned, Owning
  <2>3. Settled(r)
    BY <1>1, <2>2 DEF Settled, Fails
  <2>4. QED
    BY <1>1, <2>1, <2>3 DEF SoleInv, PassedUnlessPending
<1>2. PassedMeansPassing
  BY <1>1 DEF PassedMeansPassing
<1>3. QED
  BY <1>2 DEF SoleInv

LEMMA OwnedMeans == RunningOwned => RunsEndClosed
BY DEF RunningOwned, RunsEndClosed, Busy

\* As long as the evaluations of a version come one at a time, its status, its
\* decision and its runs stay in step, whatever else goes on or fails.
THEOREM SoleInvariant == Spec => ([]OneAtATime => []SoleInv)
<1>1. IInv /\ OneAtATime /\ SoleInv /\ [Next]_vars => SoleInv'
  BY SoleStep
<1>2. QED
  BY SoleInit, Invariance, <1>1, PTL DEF Spec

\* A version that passed, and is not being evaluated, has no failing run, after
\* lost replies and failed benchmarks too, unless its last evaluation was cut
\* short (services.py:187-200).
THEOREM PassedHasNoFailure == Spec => ([]OneAtATime => []PassedMeansPassing)
<1>1. IInv /\ SoleInv => PassedMeansPassing
  BY SoleMeans
<1>2. QED
  BY <1>1, Invariance, SoleInvariant, PTL

\* The latest decision and the status of a version agree, with the same
\* exception.
THEOREM DecisionIsTheStatus == Spec => ([]OneAtATime => []DecisionMatchesStatus)
<1>1. IInv /\ SoleInv => DecisionMatchesStatus
  BY SoleMeans
<1>2. QED
  BY <1>1, Invariance, SoleInvariant, PTL
=============================================================================
