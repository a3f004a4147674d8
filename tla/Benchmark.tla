------------------------------ MODULE Benchmark ------------------------------
(***************************************************************************)
(* Benchmarks: EvaluationService._run_codex (apps/api/app/services.py) and *)
(* CodexBenchmarkRunner with CodexCliClient (apps/api/app/benchmark.py).   *)
(*                                                                         *)
(* A run executes the candidate and the baseline on each of its cases, has *)
(* a blind grader judge what the checks do not decide, keeps the evidence  *)
(* of a case on disk, and only then writes rows and its summary.  Each     *)
(* role is a process of its own in a temporary root of its own.  Several   *)
(* runs share the disk and the table.                                      *)
(*                                                                         *)
(* A score travels with the pass decision of its label and is left out.    *)
(***************************************************************************)
EXTENDS Naturals, FiniteSets

CONSTANTS
  Run,        \* rows of eval_runs, a request each
  Case,       \* rows of eval_cases
  CasesOf,    \* what list_eval_cases returned to each run
  Checked,    \* cases with deterministic checks
  Gradable,   \* cases with a rubric or an expected output
  Judgments,  \* valid answers of a grader, in its labels
  Unjudged,   \* no result yet
  MaxFaults   \* bound: failing calls and deaths in one behaviour

Side == {"candidate", "baseline"}
Label == {"A", "B"}
Role == Side \cup {"grader"}
Judgment == [winner : Label \cup {"tie"}, pass : [Label -> BOOLEAN]]

ASSUME BenchmarkAssumption ==
  /\ CasesOf \in [Run -> (SUBSET Case) \ {{}}]
  /\ Checked \subseteq Case /\ Gradable \subseteq Case
  /\ Judgments \subseteq Judgment
  /\ \A r \in Run : IsFiniteSet(CasesOf[r])
  /\ MaxFaults \in Nat

VARIABLES
  runs,    \* eval_runs: status and summary
  rows,    \* eval_case_results: the cases of each run with a row
  work,    \* what the request of each run is doing, and its results
  roots,   \* the temporary root of each role of a case, and its processes
  disk,    \* what is kept of each case, by directory
  faults   \* faults so far

vars == <<runs, rows, work, roots, disk, faults>>

Verdict == [winner : Side \cup {"tie"}, pass : [Side -> BOOLEAN]]
Checks == [Side -> BOOLEAN]   \* does a side pass all checks of the case?

\* shown is a history: whose output the prompt of the grader had as A and B.
Result ==
  [checks : Checks, graded : BOOLEAN, judgment : Judgment,
   shown : [Label -> Side], verdict : Verdict, path : Run \X Case]

Work ==
  [pc       : {"idle", "fetch", "next", "launch", "wait", "drain", "weigh",
               "keep", "insert", "failing", "ended", "gone"},
   todo     : SUBSET Case,       \* cases to execute, then rows to insert
   case     : Case,
   role     : Role,
   result   : Result,            \* of this case, as far as it is known
   results  : [Case -> Result \cup {Unjudged}]]

Counts == [candidate : Nat, baseline : Nat, candidateWins : Nat,
           baselineWins : Nat, ties : Nat]

TypeOK ==
  /\ runs \in [Run -> [status : {"absent", "running", "succeeded", "failed"},
                       summary : Counts]]
  /\ rows \in [Run -> SUBSET Case]
  /\ work \in [Run -> Work]
  /\ roots \in [Run -> [Case -> [Role -> {"none", "live", "killed", "held"}]]]
  /\ disk \in [Run \X Case -> [by : SUBSET Run, roles : SUBSET Role]]
  /\ faults \in 0..MaxFaults

NoSummary == [candidate |-> 0, baseline |-> 0, candidateWins |-> 0,
              baselineWins |-> 0, ties |-> 0]
NoResult(r, c) ==
  [checks |-> [s \in Side |-> TRUE], graded |-> FALSE,
   judgment |-> [winner |-> "tie", pass |-> [l \in Label |-> FALSE]],
   shown |-> [l \in Label |-> "candidate"],
   verdict |-> [winner |-> "tie", pass |-> [s \in Side |-> FALSE]],
   path |-> <<r, c>>]
NoEvidence == [by |-> {}, roles |-> {}]

Init ==
  /\ runs = [r \in Run |-> [status |-> "absent", summary |-> NoSummary]]
  /\ rows = [r \in Run |-> {}]
  /\ work = [r \in Run |->
       LET c == CHOOSE c \in CasesOf[r] : TRUE
       IN  [pc |-> "idle", todo |-> {}, case |-> c, role |-> "candidate",
            result |-> NoResult(r, c), results |-> [d \in Case |-> Unjudged]]]
  /\ roots = [r \in Run |-> [c \in Case |-> [role \in Role |-> "none"]]]
  /\ disk = [p \in Run \X Case |-> NoEvidence]
  /\ faults = 0

----------------------------------------------------------------------------
(* Verdicts.                                                               *)

\* What the checks of a case may say of two outputs; without checks, both
\* sides pass them.
ChecksOf(c) ==
  IF c \in Checked THEN Checks ELSE {[s \in Side |-> TRUE]}

Undecided(checks) == \A s \in Side : checks[s]

DeterministicVerdict(checks) ==
  [winner |-> IF checks["candidate"] THEN "candidate"
              ELSE IF checks["baseline"] THEN "baseline" ELSE "tie",
   pass |-> checks]

\* The two outputs as the prompt shows them, and the order kept beside them.
OutputsShown(candidateIsA) ==
  IF candidateIsA THEN [l \in Label |-> IF l = "A" THEN "candidate" ELSE "baseline"]
                  ELSE [l \in Label |-> IF l = "A" THEN "baseline" ELSE "candidate"]

Order(candidateIsA) ==
  [candidate |-> IF candidateIsA THEN "A" ELSE "B",
   baseline |-> IF candidateIsA THEN "B" ELSE "A"]

\* Mutant: the winner is read as if the candidate always came first.
NormalizeFirst(judgment, order) ==
  [winner |-> IF judgment.winner = "tie" THEN "tie"
              ELSE IF judgment.winner = "A" THEN "candidate" ELSE "baseline",
   pass |-> [s \in Side |-> judgment.pass[order[s]]]]

NormalizeBlindVerdict(judgment, order) ==
  [winner |-> IF judgment.winner = "tie" THEN "tie"
              ELSE IF judgment.winner = order["candidate"] THEN "candidate"
              ELSE "baseline",
   pass |-> [s \in Side |-> judgment.pass[order[s]]]]

\* The rates of the summary, as counts of a known number of cases.
Summary(results, cases) ==
  LET Passes(side) == Cardinality({c \in cases : results[c].verdict.pass[side]})
      Wins(winner) == Cardinality({c \in cases : results[c].verdict.winner = winner})
  IN  [candidate |-> Passes("candidate"), baseline |-> Passes("baseline"),
       candidateWins |-> Wins("candidate"), baselineWins |-> Wins("baseline"),
       ties |-> Wins("tie")]

----------------------------------------------------------------------------
(* The request of a run, await by await.                                   *)

At(r, label) == work[r].pc = label
CaseOf(r) == work[r].case
RootOf(r) == roots[r][CaseOf(r)][work[r].role]
SetRoot(r, state) == roots' = [roots EXCEPT ![r][CaseOf(r)][work[r].role] = state]
Goto(r, label) == work' = [work EXCEPT ![r].pc = label]
Continue(r, label, role, result) ==
  work' = [work EXCEPT ![r] =
    [work[r] EXCEPT !.pc = label, !.role = role, !.result = result]]

\* create_eval_run was answered: _run_codex begins.
Start(r) ==
  /\ At(r, "idle")
  /\ runs' = [runs EXCEPT ![r].status = "running"]
  /\ Goto(r, "fetch")
  /\ UNCHANGED <<rows, roots, disk, faults>>

\* Both packages are downloaded once for all cases.
Fetch(r) ==
  /\ At(r, "fetch")
  /\ work' = [work EXCEPT ![r].pc = "next", ![r].todo = CasesOf[r]]
  /\ UNCHANGED <<runs, rows, roots, disk, faults>>

\* run_case: the candidate first.
NextCase(r) ==
  /\ At(r, "next")
  /\ \E c \in work[r].todo :
       work' = [work EXCEPT ![r] =
         [@ EXCEPT !.pc = "launch", !.case = c, !.role = "candidate",
                   !.todo = work[r].todo \ {c}, !.result = NoResult(r, c)]]
  /\ UNCHANGED <<runs, rows, roots, disk, faults>>

\* A temporary root with one package, and one process in it.
Launch(r) ==
  /\ At(r, "launch")
  /\ SetRoot(r, "live")
  /\ Goto(r, "wait")
  /\ UNCHANGED <<runs, rows, disk, faults>>

\* An executor answered and its root is removed.
Answers(r) ==
  /\ At(r, "wait") /\ work[r].role \in Side
  /\ SetRoot(r, "none")
  /\ work' = [work EXCEPT ![r] =
       IF work[r].role = "candidate"
       THEN [@ EXCEPT !.pc = "launch", !.role = "baseline"]
       ELSE [@ EXCEPT !.pc = "weigh"]]
  /\ UNCHANGED <<runs, rows, disk, faults>>

\* A package that is no Skill, a missing executable, an exit code, no
\* response, or a judgment that is not one: the role raises.
Breaks(r) ==
  /\ At(r, "launch") \/ At(r, "wait")
  /\ SetRoot(r, "none")
  /\ Goto(r, "failing")
  /\ UNCHANGED <<runs, rows, disk, faults>>

\* Mutant: nobody waits for what is left of the process.
TimesOutUnwaited(r) ==
  /\ At(r, "wait")
  /\ \E left \in {"killed", "held"} : SetRoot(r, left)
  /\ Goto(r, "failing")
  /\ UNCHANGED <<runs, rows, disk, faults>>

\* Mutant: the grader has no timeout.
TimesOutExecutor(r) ==
  /\ At(r, "wait") /\ work[r].role # "grader"
  /\ \E left \in {"killed", "held"} : SetRoot(r, left)
  /\ Goto(r, "drain")
  /\ UNCHANGED <<runs, rows, disk, faults>>

\* The process is killed; what it started may survive and hold its output.
TimesOut(r) ==
  /\ At(r, "wait")
  /\ \E left \in {"killed", "held"} : SetRoot(r, left)
  /\ Goto(r, "drain")
  /\ UNCHANGED <<runs, rows, disk, faults>>

\* communicate() returns once nobody holds the output any more.
Drain(r) ==
  /\ At(r, "drain") /\ RootOf(r) = "killed"
  /\ SetRoot(r, "none")
  /\ Goto(r, "failing")
  /\ UNCHANGED <<runs, rows, disk, faults>>

Release(r) ==
  /\ At(r, "drain") /\ RootOf(r) = "held"
  /\ SetRoot(r, "killed")
  /\ UNCHANGED <<runs, rows, work, disk, faults>>

Weigh(r, checks) ==
  /\ At(r, "weigh") /\ checks \in ChecksOf(CaseOf(r))
  /\ UNCHANGED <<runs, rows, roots, disk, faults>>

DecideByChecks(r) ==
  \E checks \in ChecksOf(CaseOf(r)) :
    /\ Weigh(r, checks) /\ ~Undecided(checks)
    /\ Continue(r, "keep", "baseline",
         [work[r].result EXCEPT !.checks = checks,
                                !.verdict = DeterministicVerdict(checks)])

\* Nothing to grade by; checks that are malformed end the same way.
RefuseCase(r) ==
  \E checks \in ChecksOf(CaseOf(r)) :
    /\ Weigh(r, checks) /\ Undecided(checks) /\ CaseOf(r) \notin Gradable
    /\ Goto(r, "failing")

DrawOrder(r) ==
  \E checks \in ChecksOf(CaseOf(r)), candidateIsA \in BOOLEAN :
    /\ Weigh(r, checks) /\ Undecided(checks) /\ CaseOf(r) \in Gradable
    /\ Continue(r, "launch", "grader",
         [work[r].result EXCEPT !.checks = checks,
                                !.shown = OutputsShown(candidateIsA)])

\* The grader answered with a valid judgment, which is put in sides.
Grade(r) ==
  /\ At(r, "wait") /\ work[r].role = "grader"
  /\ SetRoot(r, "none")
  /\ \E judgment \in Judgments, candidateIsA \in BOOLEAN :
       /\ OutputsShown(candidateIsA) = work[r].result.shown
       /\ Continue(r, "keep", "grader",
            [work[r].result EXCEPT
               !.graded = TRUE, !.judgment = judgment,
               !.verdict = NormalizeBlindVerdict(judgment, Order(candidateIsA))])
  /\ UNCHANGED <<runs, rows, disk, faults>>

RolesUsed(result) == Side \cup (IF result.graded THEN {"grader"} ELSE {})

Kept(r, path, parts) ==
  disk' = [disk EXCEPT ![path] = [by |-> disk[path].by \cup {r}, roles |-> parts]]

CaseDone(r, path) ==
  LET result == [work[r].result EXCEPT !.path = path]
  IN  work' = [work EXCEPT ![r] =
        [work[r] EXCEPT
           !.pc = IF work[r].todo = {} THEN "insert" ELSE "next",
           !.todo = IF work[r].todo = {} THEN CasesOf[r] ELSE work[r].todo,
           !.results = [work[r].results EXCEPT ![CaseOf(r)] = result]]]

\* Mutant: one directory per case, whatever the run.
KeepByCase(r) ==
  LET path == <<CHOOSE q \in Run : TRUE, CaseOf(r)>>
  IN  /\ At(r, "keep")
      /\ Kept(r, path, RolesUsed(work[r].result))
      /\ CaseDone(r, path)
      /\ UNCHANGED <<runs, rows, roots, faults>>

\* The directory of the case must be new.
Keep(r) ==
  LET path == <<r, CaseOf(r)>>
  IN  /\ At(r, "keep") /\ disk[path] = NoEvidence
      /\ Kept(r, path, RolesUsed(work[r].result))
      /\ CaseDone(r, path)
      /\ UNCHANGED <<runs, rows, roots, faults>>

InsertResult(r, c) == rows' = [rows EXCEPT ![r] = @ \cup {c}]

\* Mutant: the last row is forgotten.
InsertRowButLast(r) ==
  /\ At(r, "insert")
  /\ \E c \in work[r].todo :
       /\ InsertResult(r, c)
       /\ work' = [work EXCEPT ![r].todo =
            IF Cardinality(@) <= 2 THEN {} ELSE @ \ {c}]
  /\ UNCHANGED <<runs, roots, disk, faults>>

\* One row after the other, once every case has been judged.
InsertRow(r) ==
  /\ At(r, "insert")
  /\ \E c \in work[r].todo :
       /\ InsertResult(r, c)
       /\ work' = [work EXCEPT ![r].todo = @ \ {c}]
  /\ UNCHANGED <<runs, roots, disk, faults>>

CloseRun(r, status, summary) ==
  runs' = [runs EXCEPT ![r] = [status |-> status, summary |-> summary]]

FinishRun(r) ==
  /\ At(r, "insert") /\ work[r].todo = {}
  /\ CloseRun(r, "succeeded", Summary(work[r].results, CasesOf[r]))
  /\ UNCHANGED <<rows, disk>>

Finish(r) ==
  /\ FinishRun(r)
  /\ Goto(r, "ended")
  /\ UNCHANGED <<roots, faults>>

FailRun(r) ==
  /\ At(r, "failing")
  /\ CloseRun(r, "failed", NoSummary)
  /\ UNCHANGED <<rows, disk>>

\* The except block of EvaluationService.run.
FinishFailed(r) ==
  /\ FailRun(r)
  /\ Goto(r, "ended")
  /\ UNCHANGED <<roots, faults>>

\* A call that fails may have been executed.
PendingCall(r) ==
  \/ FinishRun(r)
  \/ /\ At(r, "insert")
     /\ \E c \in work[r].todo : InsertResult(r, c)
     /\ UNCHANGED <<runs, disk>>
  \/ UNCHANGED <<runs, rows, disk>>

CallFails(r) ==
  /\ faults < MaxFaults /\ faults' = faults + 1
  /\ At(r, "fetch") \/ At(r, "insert")
  /\ PendingCall(r)
  /\ Goto(r, "failing")
  /\ UNCHANGED roots

\* The process that serves the request dies, perhaps while it writes files,
\* or the call of the except block fails.
Die(r) ==
  /\ faults < MaxFaults /\ faults' = faults + 1
  /\ work[r].pc \notin {"idle", "ended", "gone"}
  /\ \/ PendingCall(r) \/ FailRun(r)
     \/ /\ At(r, "keep")
        /\ \E parts \in SUBSET RolesUsed(work[r].result) :
             Kept(r, <<r, CaseOf(r)>>, parts)
        /\ UNCHANGED <<runs, rows>>
  /\ Goto(r, "gone")
  /\ UNCHANGED roots

----------------------------------------------------------------------------
\* What the service does; when a role answers or breaks is up to the role.
Step(r) ==
  \/ Fetch(r) \/ NextCase(r) \/ Launch(r) \/ TimesOut(r) \/ Drain(r)
  \/ DecideByChecks(r) \/ RefuseCase(r) \/ DrawOrder(r) \/ Keep(r)
  \/ InsertRow(r) \/ Finish(r) \/ FinishFailed(r)

RoleStep(r) == Answers(r) \/ Grade(r) \/ Breaks(r) \/ Release(r)

Next == \E r \in Run : Start(r) \/ Step(r) \/ RoleStep(r) \/ CallFails(r) \/ Die(r)

Spec == Init /\ [][Next]_vars

FairSpec == Spec /\ \A r \in Run : WF_vars(Step(r))

----------------------------------------------------------------------------
(* Properties.                                                             *)

\* One role of a run at a time, in the only root there is: neither executor
\* can find the other, and nothing outlives its role unless the service dies
\* (benchmark.py:193-195).  A role is over before its transcript is kept
\* (README.md:85-86).
Isolated(r) ==
  \A c \in Case, role \in Role : roots[r][c][role] # "none" =>
    /\ work[r].pc \in {"wait", "drain", "gone"}
    /\ c = CaseOf(r) /\ role = work[r].role
    /\ disk[<<r, c>>] = NoEvidence

RolesIsolated == \A r \in Run : Isolated(r)

\* A row names the evidence of its own run: every role used, and nothing that
\* another run wrote (benchmark.py:212-225, services.py:207-208).
EvidenceIsOwn ==
  \A r \in Run : \A c \in rows[r] :
    LET result == work[r].results[c]
    IN  /\ result # Unjudged
        /\ disk[result.path] = [by |-> {r}, roles |-> RolesUsed(result)]

\* The summary the gate reads is the tally of the rows on record, one for each
\* case of the run, also when replies were lost (services.py:206-209).
SummaryMatches(r) ==
  runs[r].status = "succeeded" =>
    /\ rows[r] = CasesOf[r]
    /\ runs[r].summary = Summary(work[r].results, CasesOf[r])

SummaryIsItsRows == \A r \in Run : SummaryMatches(r)

\* An opinion on labels, as an opinion on what was shown under them.
Unblinded(judgment, shown) ==
  [winner |-> IF judgment.winner = "tie" THEN "tie" ELSE shown[judgment.winner],
   pass |-> [s \in Side |->
               \E l \in Label : shown[l] = s /\ judgment.pass[l]]]

\* A benchmark implements a comparison that was never blind.
Assessed(result) ==
  [checks |-> result.checks, opinion |-> Unblinded(result.judgment, result.shown),
   verdict |-> result.verdict]

Open == INSTANCE Comparison WITH
  assessed <- [r \in Run |-> [c \in Case |->
    IF work[r].results[c] = Unjudged THEN Unjudged
    ELSE Assessed(work[r].results[c])]]

ASSUME UnjudgedAssumption == Unjudged \notin Result /\ Unjudged \notin Open!Assessment

ImplementsComparison == Open!Spec

\* Every run is closed while its request lives and nothing that a killed role
\* left behind holds the output of its process (benchmark.py:119-124).
EveryRunEnds ==
  \A r \in Run :
    runs[r].status = "running" ~>
      \/ runs[r].status \in {"succeeded", "failed"}
      \/ At(r, "gone")
      \/ RootOf(r) = "held"

----------------------------------------------------------------------------
(* The inductive invariant, run by run.                                    *)

InCase == {"launch", "wait", "drain", "weigh", "keep"}
Judged(r) == {c \in Case : work[r].results[c] # Unjudged}

\* Before the first row, a case is still to come, in progress or judged.
CasesInOrder(r) ==
  /\ rows[r] \subseteq Judged(r) /\ Judged(r) \subseteq CasesOf[r]
  /\ work[r].todo \subseteq CasesOf[r]
  /\ work[r].pc \in {"idle", "fetch"} => Judged(r) = {}
  /\ At(r, "next") => Judged(r) = CasesOf[r] \ work[r].todo
  /\ work[r].pc \in InCase =>
       /\ CaseOf(r) \in CasesOf[r] \ work[r].todo
       /\ Judged(r) = CasesOf[r] \ (work[r].todo \cup {CaseOf(r)})
  /\ At(r, "insert") => /\ Judged(r) = CasesOf[r]
                        /\ rows[r] = CasesOf[r] \ work[r].todo
  /\ work[r].pc \in InCase \cup {"idle", "fetch", "next"} => rows[r] = {}

\* What is on disk is what the run has judged, unless it died meanwhile.
DiskIsKept(r) ==
  \A c \in Case :
    LET result == work[r].results[c]
    IN  IF result # Unjudged
        THEN /\ result.path = <<r, c>>
             /\ disk[<<r, c>>] = [by |-> {r}, roles |-> RolesUsed(result)]
        ELSE At(r, "gone") \/ disk[<<r, c>>] = NoEvidence

StatusFollows(r) ==
  /\ At(r, "idle") <=> runs[r].status = "absent"
  /\ work[r].pc \in InCase \cup {"fetch", "next", "insert"} =>
       runs[r].status = "running"
  /\ At(r, "failing") => runs[r].status \in {"running", "succeeded"}
  /\ runs[r].status = "succeeded" => Judged(r) = CasesOf[r]

\* What is known of a case justifies the verdict it will get.
VerdictJustified(r) ==
  LET result == work[r].result
  IN  /\ At(r, "weigh") => work[r].role # "grader"
      /\ work[r].role = "grader" /\ work[r].pc \in InCase \ {"keep"} =>
           /\ \E b \in BOOLEAN : result.shown = OutputsShown(b)
           /\ Undecided(result.checks)
      /\ At(r, "keep") => Open!Justified(Assessed(result))

IInv ==
  /\ TypeOK
  /\ \A r \in Run : /\ CasesInOrder(r) /\ DiskIsKept(r) /\ StatusFollows(r)
                    /\ VerdictJustified(r) /\ Isolated(r) /\ SummaryMatches(r)

=============================================================================
