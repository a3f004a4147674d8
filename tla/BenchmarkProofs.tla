--------------------------- MODULE BenchmarkProofs ---------------------------
(***************************************************************************)
(* Theorems about Benchmark, for any number of runs, cases and faults, any *)
(* judgments, and that Benchmark implements Comparison.                    *)
(*                                                                         *)
(* A step of one run leaves the others and their directories alone         *)
(* (Apart), so the invariant is kept run by run.                           *)
(***************************************************************************)
EXTENDS Benchmark, TLAPS, FiniteSetTheorems

RunInv(r) ==
  /\ CasesInOrder(r) /\ DiskIsKept(r) /\ StatusFollows(r)
  /\ VerdictJustified(r) /\ Isolated(r) /\ SummaryMatches(r)

\* Only what belongs to r changes, and the request of r goes on as w.
Apart(r, w) ==
  /\ w \in Work
  /\ work' = [work EXCEPT ![r] = w]
  /\ \A q \in Run \ {r} :
       /\ runs'[q] = runs[q] /\ rows'[q] = rows[q] /\ roots'[q] = roots[q]
       /\ \A c \in Case : disk'[<<q, c>>] = disk[<<q, c>>]

\* The disk and the table are left alone, the root of the role is as given.
RoleOnly(r, state) ==
  /\ runs' = runs /\ rows' = rows /\ disk' = disk
  /\ SetRoot(r, state) /\ state \in {"none", "live", "killed", "held"}

LEMMA OthersKept ==
  ASSUME IInv, NEW r \in Run, NEW w, Apart(r, w),
         NEW q \in Run, q # r
  PROVE  RunInv(q)'
<1>1. /\ work'[q] = work[q] /\ runs'[q] = runs[q] /\ rows'[q] = rows[q]
      /\ roots'[q] = roots[q] /\ \A c \in Case : disk'[<<q, c>>] = disk[<<q, c>>]
  BY DEF Apart, IInv, TypeOK
<1>2. RunInv(q)
  BY DEF IInv, RunInv
<1>3. Judged(q)' = Judged(q)
  BY <1>1 DEF Judged
<1>4. (CasesInOrder(q) /\ StatusFollows(q) /\ SummaryMatches(q))'
  BY <1>1, <1>2, <1>3
     DEF RunInv, CasesInOrder, StatusFollows, SummaryMatches, At, CaseOf, Summary
<1>5. (DiskIsKept(q) /\ VerdictJustified(q) /\ Isolated(q))'
  BY <1>1, <1>2 DEF RunInv, DiskIsKept, VerdictJustified, Isolated, At, CaseOf
<1>6. QED
  BY <1>4, <1>5 DEF RunInv

LEMMA ByRun ==
  ASSUME IInv, TypeOK', NEW r \in Run, NEW w, Apart(r, w), RunInv(r)'
  PROVE  IInv'
<1>1. ASSUME NEW q \in Run PROVE RunInv(q)'
  BY OthersKept
<1>2. QED
  BY <1>1 DEF IInv, RunInv

LEMMA Facts ==
  ASSUME IInv, NEW r \in Run
  PROVE  /\ work[r] \in Work /\ RunInv(r) /\ CaseOf(r) \in Case
         /\ CasesOf[r] \subseteq Case /\ CasesOf[r] # {}
<1>1. work[r] \in Work
  BY DEF IInv, TypeOK
<1>2. CaseOf(r) \in Case
  BY <1>1 DEF Work, CaseOf
<1>3. RunInv(r)
  BY DEF IInv, RunInv
<1>4. CasesOf[r] \subseteq Case /\ CasesOf[r] # {}
  BY BenchmarkAssumption
<1>5. QED
  BY <1>1, <1>2, <1>3, <1>4

LEMMA WorkMeans ==
  ASSUME NEW w, w \in Work
  PROVE  /\ w.pc \in {"idle", "fetch", "next", "launch", "wait", "drain", "weigh",
                      "keep", "insert", "failing", "ended", "gone"}
         /\ w.todo \subseteq Case /\ w.case \in Case /\ w.role \in Role
         /\ w.result \in Result /\ w.results \in [Case -> Result \cup {Unjudged}]
BY DEF Work

LEMMA Proceeds ==
  ASSUME IInv, NEW r \in Run, NEW w \in Work, work' = [work EXCEPT ![r] = w]
  PROVE  /\ work' \in [Run -> Work] /\ work'[r] = w
         /\ \A q \in Run \ {r} : work'[q] = work[q]
BY DEF IInv, TypeOK

\* A step within a case, or one that gives the case up.
LEMMA WithinCase ==
  ASSUME IInv, NEW r \in Run, NEW w \in Work, work' = [work EXCEPT ![r] = w],
         runs' = runs, rows' = rows, disk' = disk,
         w.results = work[r].results, w.todo = work[r].todo,
         w.case = work[r].case,
         work[r].pc \in InCase, w.pc \in InCase \cup {"failing"}
  PROVE  /\ CasesInOrder(r)' /\ DiskIsKept(r)'
         /\ StatusFollows(r)' /\ SummaryMatches(r)'
<1>1. /\ CasesInOrder(r) /\ DiskIsKept(r) /\ StatusFollows(r) /\ SummaryMatches(r)
  BY Facts DEF RunInv
<1>2. work'[r] = w
  BY Proceeds
<1>3. Judged(r)' = Judged(r)
  BY <1>2 DEF Judged
<1>4. CasesInOrder(r)'
  BY <1>1, <1>2, <1>3 DEF CasesInOrder, InCase, At, CaseOf
<1>5. DiskIsKept(r)'
  BY <1>1, <1>2 DEF DiskIsKept, InCase, At
<1>6. StatusFollows(r)'
  BY <1>1, <1>2, <1>3 DEF StatusFollows, InCase, At
<1>7. SummaryMatches(r)'
  BY <1>1, <1>2, <1>3 DEF SummaryMatches, Summary
<1>8. QED
  BY <1>4, <1>5, <1>6, <1>7

\* The case at hand has no evidence yet, and no other root than its role's.
LEMMA CaseIsFresh ==
  ASSUME IInv, NEW r \in Run, work[r].pc \in InCase
  PROVE  /\ disk[<<r, CaseOf(r)>>] = NoEvidence
         /\ work[r].results[CaseOf(r)] = Unjudged
<1>1. CaseOf(r) \notin Judged(r) /\ CaseOf(r) \in Case
  BY Facts DEF RunInv, CasesInOrder
<1>2. work[r].results[CaseOf(r)] = Unjudged
  BY <1>1 DEF Judged
<1>3. QED
  BY <1>1, <1>2, Facts DEF RunInv, DiskIsKept, At, InCase

LEMMA RoleStepKeeps ==
  ASSUME IInv, NEW r \in Run, NEW w \in Work, work' = [work EXCEPT ![r] = w],
         runs' = runs, rows' = rows, disk' = disk, faults' = faults,
         NEW state \in {"none", "live", "killed", "held"}, SetRoot(r, state),
         w.case = work[r].case, work[r].pc \in InCase,
         state # "none" => w.pc \in {"wait", "drain"} /\ w.role = work[r].role
  PROVE  TypeOK' /\ Apart(r, w) /\ Isolated(r)'
<1>1. /\ work' \in [Run -> Work] /\ work'[r] = w
      /\ \A q \in Run \ {r} : work'[q] = work[q]
  BY Proceeds
<1>2. CaseOf(r) \in Case /\ work[r].role \in Role
  BY Facts, WorkMeans
<1>3. /\ roots' \in [Run -> [Case -> [Role -> {"none", "live", "killed", "held"}]]]
      /\ \A q \in Run \ {r} : roots'[q] = roots[q]
      /\ \A c \in Case, role \in Role :
           roots'[r][c][role] = IF c = CaseOf(r) /\ role = work[r].role THEN state
                                ELSE roots[r][c][role]
  BY <1>2 DEF SetRoot, IInv, TypeOK
<1>4. TypeOK'
  BY <1>1, <1>3 DEF IInv, TypeOK
<1>5. Apart(r, w)
  BY <1>1, <1>3 DEF Apart
<1>6. Isolated(r)'
  <2>1. ASSUME NEW c \in Case, NEW role \in Role, roots'[r][c][role] # "none"
        PROVE  c = CaseOf(r) /\ role = work[r].role /\ state # "none"
    <3>1. Isolated(r)
      BY Facts DEF RunInv
    <3>2. CASE c = CaseOf(r) /\ role = work[r].role
      BY <1>3, <2>1, <3>2
    <3>3. CASE ~(c = CaseOf(r) /\ role = work[r].role)
      <4>1. roots[r][c][role] # "none"
        BY <1>3, <2>1, <3>3
      <4>2. QED
        BY <3>1, <3>3, <4>1 DEF Isolated
    <3>4. QED
      BY <3>2, <3>3
  <2>2. CaseOf(r)' = CaseOf(r)
    BY <1>1 DEF CaseOf
  <2>3. QED
    BY <1>1, <2>1, <2>2, CaseIsFresh DEF Isolated
<1>7. QED
  BY <1>4, <1>5, <1>6

----------------------------------------------------------------------------
(* The steps within a case.                                                *)

LEMMA LaunchKeeps ==
  ASSUME IInv, NEW r \in Run, Launch(r)
  PROVE  IInv'
<1> DEFINE w == [work[r] EXCEPT !.pc = "wait"]
<1>1. /\ w \in Work /\ w.pc = "wait" /\ w.results = work[r].results
      /\ w.todo = work[r].todo /\ w.case = work[r].case
      /\ w.role = work[r].role /\ w.result = work[r].result
  BY Facts DEF Work
<1>2. work' = [work EXCEPT ![r] = w] /\ work[r].pc = "launch"
  BY Facts DEF Launch, Goto, At, Work
<1>3. work[r].pc \in InCase /\ w.pc \in InCase \cup {"failing"}
  BY <1>1, <1>2 DEF InCase
<1> HIDE DEF w
<1>4. TypeOK' /\ Apart(r, w) /\ Isolated(r)'
  BY <1>1, <1>2, <1>3, RoleStepKeeps DEF Launch
<1>5. /\ CasesInOrder(r)' /\ DiskIsKept(r)'
      /\ StatusFollows(r)' /\ SummaryMatches(r)'
  BY <1>1, <1>2, <1>3, WithinCase DEF Launch
<1>6. VerdictJustified(r)'
  <2>1. work'[r] = w /\ VerdictJustified(r)
    BY <1>1, <1>2, Proceeds, Facts DEF RunInv
  <2>2. QED
    BY <1>1, <1>2, <2>1 DEF VerdictJustified, At, InCase
<1>7. QED
  BY <1>4, <1>5, <1>6, ByRun DEF RunInv

\* Steps that give the case up: the role raises, the drain ends, or the case
\* cannot be graded.
LEMMA FailingKeeps ==
  ASSUME IInv, NEW r \in Run, work[r].pc \in InCase, Goto(r, "failing"),
         SetRoot(r, "none") \/ (work[r].pc = "weigh" /\ roots' = roots),
         runs' = runs, rows' = rows, disk' = disk, faults' = faults
  PROVE  IInv'
<1> DEFINE w == [work[r] EXCEPT !.pc = "failing"]
<1>1. /\ w \in Work /\ w.pc = "failing" /\ w.results = work[r].results
      /\ w.todo = work[r].todo /\ w.case = work[r].case
  BY Facts DEF Work
<1>2. work' = [work EXCEPT ![r] = w]
  BY Facts DEF Goto, Work
<1> HIDE DEF w
<1>3. work'[r] = w /\ work' \in [Run -> Work]
      /\ \A q \in Run \ {r} : work'[q] = work[q]
  BY <1>1, <1>2, Proceeds
<1>4. TypeOK' /\ Apart(r, w) /\ Isolated(r)'
  <2>1. CASE SetRoot(r, "none")
    BY <1>1, <1>2, <2>1, RoleStepKeeps
  <2>2. CASE work[r].pc = "weigh" /\ roots' = roots
    <3>1. Isolated(r)
      BY Facts DEF RunInv
    <3>2. Isolated(r)'
      BY <2>2, <3>1 DEF Isolated
    <3>3. TypeOK' /\ Apart(r, w)
      BY <1>1, <1>2, <1>3, <2>2 DEF IInv, TypeOK, Apart
    <3>4. QED
      BY <3>2, <3>3
  <2>3. QED
    BY <2>1, <2>2
<1>5. /\ CasesInOrder(r)' /\ DiskIsKept(r)'
      /\ StatusFollows(r)' /\ SummaryMatches(r)'
  BY <1>1, <1>2, WithinCase
<1>6. VerdictJustified(r)'
  BY <1>1, <1>3 DEF VerdictJustified, At, InCase
<1>7. QED
  BY <1>1, <1>4, <1>5, <1>6, ByRun DEF RunInv

LEMMA TimesOutKeeps ==
  ASSUME IInv, NEW r \in Run, TimesOut(r)
  PROVE  IInv'
<1> DEFINE w == [work[r] EXCEPT !.pc = "drain"]
<1>1. /\ w \in Work /\ w.pc = "drain" /\ w.results = work[r].results
      /\ w.todo = work[r].todo /\ w.case = work[r].case
      /\ w.role = work[r].role /\ w.result = work[r].result
  BY Facts DEF Work
<1>2. work' = [work EXCEPT ![r] = w] /\ work[r].pc = "wait"
  BY Facts DEF TimesOut, Goto, At, Work
<1>3. work[r].pc \in InCase /\ w.pc \in InCase \cup {"failing"}
  BY <1>1, <1>2 DEF InCase
<1> HIDE DEF w
<1>4. PICK left \in {"killed", "held"} : SetRoot(r, left)
  BY DEF TimesOut
<1>5. TypeOK' /\ Apart(r, w) /\ Isolated(r)'
  BY <1>1, <1>2, <1>3, <1>4, RoleStepKeeps DEF TimesOut
<1>6. /\ CasesInOrder(r)' /\ DiskIsKept(r)'
      /\ StatusFollows(r)' /\ SummaryMatches(r)'
  BY <1>1, <1>2, <1>3, WithinCase DEF TimesOut
<1>7. VerdictJustified(r)'
  <2>1. work'[r] = w /\ VerdictJustified(r)
    BY <1>1, <1>2, Proceeds, Facts DEF RunInv
  <2>2. QED
    BY <1>1, <1>2, <2>1 DEF VerdictJustified, At, InCase
<1>8. QED
  BY <1>5, <1>6, <1>7, ByRun DEF RunInv

LEMMA ReleaseKeeps ==
  ASSUME IInv, NEW r \in Run, Release(r)
  PROVE  IInv'
<1> DEFINE w == work[r]
<1>1. w \in Work /\ work' = [work EXCEPT ![r] = w] /\ work[r].pc = "drain"
  BY Facts DEF Release, At, IInv, TypeOK
<1>2. work[r].pc \in InCase
  BY <1>1 DEF InCase
<1>3. TypeOK' /\ Apart(r, w) /\ Isolated(r)'
  BY <1>1, <1>2, RoleStepKeeps DEF Release
<1>4. /\ CasesInOrder(r)' /\ DiskIsKept(r)'
      /\ StatusFollows(r)' /\ SummaryMatches(r)'
  BY <1>1, <1>2, WithinCase DEF Release
<1>5. VerdictJustified(r)'
  BY <1>1, Facts DEF Release, RunInv, VerdictJustified, At
<1>6. QED
  BY <1>1, <1>3, <1>4, <1>5, ByRun DEF RunInv

LEMMA AnswersKeeps ==
  ASSUME IInv, NEW r \in Run, Answers(r)
  PROVE  IInv'
<1>0. work[r].role \in Side /\ work[r].pc = "wait" /\ work[r] \in Work
  BY Facts DEF Answers, At
<1>1. PICK w \in Work :
        /\ work' = [work EXCEPT ![r] = w] /\ w.pc \in {"launch", "weigh"}
        /\ w.results = work[r].results /\ w.todo = work[r].todo
        /\ w.case = work[r].case /\ w.role = "baseline"
  <2>1. CASE work[r].role = "candidate"
    <3>1. [work[r] EXCEPT !.pc = "launch", !.role = "baseline"] \in Work
      BY <1>0 DEF Work, Role, Side
    <3>2. QED
      BY <1>0, <2>1, <3>1 DEF Answers, Work
  <2>2. CASE work[r].role = "baseline"
    <3>1. [work[r] EXCEPT !.pc = "weigh"] \in Work
      BY <1>0 DEF Work
    <3>2. QED
      BY <1>0, <2>2, <3>1 DEF Answers, Work
  <2>3. QED
    BY <1>0, <2>1, <2>2 DEF Side
<1>2. work[r].pc \in InCase /\ w.pc \in InCase \cup {"failing"}
  BY <1>0, <1>1 DEF InCase
<1>3. TypeOK' /\ Apart(r, w) /\ Isolated(r)'
  BY <1>1, <1>2, RoleStepKeeps DEF Answers
<1>4. /\ CasesInOrder(r)' /\ DiskIsKept(r)'
      /\ StatusFollows(r)' /\ SummaryMatches(r)'
  BY <1>1, <1>2, WithinCase DEF Answers
<1>5. VerdictJustified(r)'
  <2>1. work'[r] = w
    BY <1>1, Proceeds
  <2>2. QED
    BY <1>1, <2>1 DEF VerdictJustified, At, InCase
<1>6. QED
  BY <1>3, <1>4, <1>5, ByRun DEF RunInv

\* Steps that leave the roots alone.
LEMMA RootsKept ==
  ASSUME IInv, NEW r \in Run, NEW w \in Work, work' = [work EXCEPT ![r] = w],
         roots' = roots, work[r].pc \notin {"wait", "drain", "gone"}
  PROVE  Isolated(r)'
<1>1. Isolated(r)
  BY Facts DEF RunInv
<1>2. \A c \in Case, role \in Role : roots[r][c][role] = "none"
  BY <1>1 DEF Isolated, IInv, TypeOK
<1>3. QED
  BY <1>2 DEF Isolated

LEMMA Weighed ==
  ASSUME IInv, NEW r \in Run, NEW w \in Work, work' = [work EXCEPT ![r] = w],
         NEW checks, Weigh(r, checks), faults' = faults,
         w.results = work[r].results, w.todo = work[r].todo,
         w.case = work[r].case, w.pc \in {"keep", "launch"}
  PROVE  /\ TypeOK' /\ Apart(r, w) /\ Isolated(r)' /\ work'[r] = w
         /\ CasesInOrder(r)' /\ DiskIsKept(r)'
         /\ StatusFollows(r)' /\ SummaryMatches(r)'
<1>1. work'[r] = w /\ work' \in [Run -> Work]
      /\ \A q \in Run \ {r} : work'[q] = work[q]
  BY Proceeds
<1>2. TypeOK' /\ Apart(r, w)
  BY <1>1 DEF Weigh, IInv, TypeOK, Apart
<1>3. work[r].pc \in InCase /\ w.pc \in InCase \cup {"failing"}
  BY DEF Weigh, At, InCase
<1>4. Isolated(r)'
  BY RootsKept DEF Weigh, At
<1>5. QED
  BY <1>1, <1>2, <1>3, <1>4, WithinCase DEF Weigh

LEMMA ChecksTyped ==
  ASSUME NEW c, NEW checks \in ChecksOf(c)
  PROVE  checks \in Checks
BY DEF ChecksOf, Checks

LEMMA DeterministicVerdictTyped ==
  ASSUME NEW checks \in Checks
  PROVE  DeterministicVerdict(checks) \in Verdict
BY DEF DeterministicVerdict, Verdict, Checks, Side

\* Checks that tell the sides apart give the verdict the comparison asks for.
LEMMA ChecksJustify ==
  ASSUME NEW result \in Result, ~Undecided(result.checks),
         result.verdict = DeterministicVerdict(result.checks)
  PROVE  Open!Justified(Assessed(result))
<1> DEFINE ok == result.checks
<1>1. /\ ok \in [Side -> BOOLEAN] /\ ~(ok["candidate"] /\ ok["baseline"])
      /\ \E s \in Side : ~ok[s]
  BY DEF Result, Checks, Undecided, Side
<1>2. Side = {"candidate", "baseline"} /\ Open!Side = Side
  BY DEF Side, Open!Side
<1>3. {s \in Side : ok[s]} = {DeterministicVerdict(ok).winner} \cap Side
  BY <1>1, <1>2 DEF DeterministicVerdict
<1>4. /\ Assessed(result).checks = ok
      /\ Assessed(result).verdict = DeterministicVerdict(ok)
      /\ DeterministicVerdict(ok).pass = ok
  BY DEF Assessed, DeterministicVerdict
<1> HIDE DEF ok
<1>5. QED
  BY <1>1, <1>2, <1>3, <1>4 DEF Open!Justified, Open!Decisive

LEMMA DecideByChecksKeeps ==
  ASSUME IInv, NEW r \in Run, DecideByChecks(r)
  PROVE  IInv'
<1>1. PICK checks \in ChecksOf(CaseOf(r)) :
        /\ Weigh(r, checks) /\ ~Undecided(checks)
        /\ Continue(r, "keep", "baseline",
             [work[r].result EXCEPT !.checks = checks,
                                    !.verdict = DeterministicVerdict(checks)])
  BY DEF DecideByChecks
<1> DEFINE result == [work[r].result EXCEPT !.checks = checks,
                        !.verdict = DeterministicVerdict(checks)]
           w == [work[r] EXCEPT !.pc = "keep", !.role = "baseline", !.result = result]
<1>2. work[r] \in Work /\ work[r].result \in Result /\ work[r].pc = "weigh"
  BY <1>1, Facts, WorkMeans DEF Weigh, At
<1>3. /\ result \in Result /\ result.checks = checks
      /\ result.verdict = DeterministicVerdict(checks)
  BY <1>1, <1>2, ChecksTyped, DeterministicVerdictTyped DEF Result
<1>4. work' = [work EXCEPT ![r] = w]
  BY <1>1 DEF Continue
<1> HIDE DEF result
<1>5. /\ w \in Work /\ w.pc = "keep" /\ w.results = work[r].results
      /\ w.todo = work[r].todo /\ w.case = work[r].case /\ w.result = result
  BY <1>2, <1>3 DEF Work, Role, Side
<1> HIDE DEF w
<1>6. /\ TypeOK' /\ Apart(r, w) /\ Isolated(r)' /\ work'[r] = w
      /\ CasesInOrder(r)' /\ DiskIsKept(r)'
      /\ StatusFollows(r)' /\ SummaryMatches(r)'
  <2>1. faults' = faults
    BY <1>1 DEF Weigh
  <2>2. QED
    BY <1>1, <1>4, <1>5, <2>1, Weighed
<1>7. Open!Justified(Assessed(result))
  BY <1>1, <1>3, ChecksJustify
<1>8. VerdictJustified(r)'
  BY <1>5, <1>6, <1>7 DEF VerdictJustified, At, InCase
<1>9. QED
  BY <1>5, <1>6, <1>8, ByRun DEF RunInv

LEMMA ShownTyped ==
  ASSUME NEW b \in BOOLEAN
  PROVE  OutputsShown(b) \in [Label -> Side]
BY DEF OutputsShown, Label, Side

LEMMA DrawOrderKeeps ==
  ASSUME IInv, NEW r \in Run, DrawOrder(r)
  PROVE  IInv'
<1>1. PICK checks \in ChecksOf(CaseOf(r)), candidateIsA \in BOOLEAN :
        /\ Weigh(r, checks) /\ Undecided(checks)
        /\ Continue(r, "launch", "grader",
             [work[r].result EXCEPT !.checks = checks,
                                    !.shown = OutputsShown(candidateIsA)])
  BY DEF DrawOrder
<1> DEFINE result == [work[r].result EXCEPT !.checks = checks,
                        !.shown = OutputsShown(candidateIsA)]
           w == [work[r] EXCEPT !.pc = "launch", !.role = "grader",
                                !.result = result]
<1>2. work[r] \in Work /\ work[r].result \in Result /\ work[r].pc = "weigh"
  BY <1>1, Facts, WorkMeans DEF Weigh, At
<1>3. /\ result \in Result /\ result.checks = checks
      /\ result.shown = OutputsShown(candidateIsA)
  BY <1>1, <1>2, ChecksTyped, ShownTyped DEF Result
<1>4. work' = [work EXCEPT ![r] = w]
  BY <1>1 DEF Continue
<1> HIDE DEF result
<1>5. /\ w \in Work /\ w.pc = "launch" /\ w.results = work[r].results
      /\ w.todo = work[r].todo /\ w.case = work[r].case /\ w.result = result
  BY <1>2, <1>3 DEF Work, Role
<1> HIDE DEF w
<1>6. /\ TypeOK' /\ Apart(r, w) /\ Isolated(r)' /\ work'[r] = w
      /\ CasesInOrder(r)' /\ DiskIsKept(r)'
      /\ StatusFollows(r)' /\ SummaryMatches(r)'
  <2>1. faults' = faults
    BY <1>1 DEF Weigh
  <2>2. QED
    BY <1>1, <1>4, <1>5, <2>1, Weighed
<1>7. VerdictJustified(r)'
  BY <1>1, <1>3, <1>5, <1>6 DEF VerdictJustified, At, InCase
<1>8. QED
  BY <1>5, <1>6, <1>7, ByRun DEF RunInv

\* The blinding lemma: a judgment in labels, put in sides by the order kept
\* beside it, says what the grader said of the outputs it was shown.
LEMMA BlindingIsUndone ==
  ASSUME NEW b \in BOOLEAN, NEW judgment \in Judgment
  PROVE  /\ NormalizeBlindVerdict(judgment, Order(b)) =
              Unblinded(judgment, OutputsShown(b))
         /\ NormalizeBlindVerdict(judgment, Order(b)) \in Verdict
<1> DEFINE order == Order(b)
           shown == OutputsShown(b)
<1>1. /\ Side = {"candidate", "baseline"} /\ Label = {"A", "B"}
      /\ order["candidate"] = (IF b THEN "A" ELSE "B")
      /\ order["baseline"] = (IF b THEN "B" ELSE "A")
      /\ shown["A"] = (IF b THEN "candidate" ELSE "baseline")
      /\ shown["B"] = (IF b THEN "baseline" ELSE "candidate")
  BY DEF Side, Label, Order, OutputsShown
<1>2. judgment.winner \in {"A", "B", "tie"} /\ judgment.pass \in [Label -> BOOLEAN]
  BY <1>1 DEF Judgment
<1> HIDE DEF order, shown
<1>3. \A s \in Side :
        judgment.pass[order[s]] = (\E l \in Label : shown[l] = s /\ judgment.pass[l])
  BY <1>1, <1>2
<1>4. (IF judgment.winner = "tie" THEN "tie"
       ELSE IF judgment.winner = order["candidate"] THEN "candidate" ELSE "baseline")
        = (IF judgment.winner = "tie" THEN "tie" ELSE shown[judgment.winner])
  BY <1>1, <1>2
<1>5. NormalizeBlindVerdict(judgment, order) = Unblinded(judgment, shown)
  BY <1>3, <1>4 DEF NormalizeBlindVerdict, Unblinded
<1>6. NormalizeBlindVerdict(judgment, order) \in Verdict
  BY <1>1, <1>2 DEF NormalizeBlindVerdict, Verdict
<1>7. QED
  BY <1>5, <1>6 DEF order, shown

LEMMA GradeKeeps ==
  ASSUME IInv, NEW r \in Run, Grade(r)
  PROVE  IInv'
<1>1. PICK judgment \in Judgments, b \in BOOLEAN :
        /\ OutputsShown(b) = work[r].result.shown
        /\ Continue(r, "keep", "grader",
             [work[r].result EXCEPT
                !.graded = TRUE, !.judgment = judgment,
                !.verdict = NormalizeBlindVerdict(judgment, Order(b))])
  BY DEF Grade
<1> DEFINE result == [work[r].result EXCEPT
                        !.graded = TRUE, !.judgment = judgment,
                        !.verdict = NormalizeBlindVerdict(judgment, Order(b))]
           w == [work[r] EXCEPT !.pc = "keep", !.role = "grader", !.result = result]
<1>2. /\ work[r] \in Work /\ work[r].result \in Result /\ work[r].pc = "wait"
      /\ work[r].role = "grader" /\ judgment \in Judgment
  BY Facts, WorkMeans, BenchmarkAssumption DEF Grade, At
<1>3. Undecided(work[r].result.checks)
  <2>1. VerdictJustified(r)
    BY Facts DEF RunInv
  <2>2. QED
    BY <1>2, <2>1 DEF VerdictJustified, InCase
<1>4. /\ result \in Result /\ result.checks = work[r].result.checks
      /\ result.judgment = judgment /\ result.shown = OutputsShown(b)
      /\ result.verdict = NormalizeBlindVerdict(judgment, Order(b))
  <2>1. NormalizeBlindVerdict(judgment, Order(b)) \in Verdict
    BY <1>2, BlindingIsUndone
  <2>2. QED
    BY <1>1, <1>2, <2>1 DEF Result
<1>5. work' = [work EXCEPT ![r] = w]
  BY <1>1 DEF Continue
<1> HIDE DEF result
<1>6. /\ w \in Work /\ w.pc = "keep" /\ w.results = work[r].results
      /\ w.todo = work[r].todo /\ w.case = work[r].case /\ w.result = result
  BY <1>2, <1>4 DEF Work, Role
<1>7. work[r].pc \in InCase /\ w.pc \in InCase \cup {"failing"}
  BY <1>2, <1>6 DEF InCase
<1> HIDE DEF w
<1>8. TypeOK' /\ Apart(r, w) /\ Isolated(r)'
  BY <1>5, <1>6, <1>7, RoleStepKeeps DEF Grade
<1>9. /\ CasesInOrder(r)' /\ DiskIsKept(r)'
      /\ StatusFollows(r)' /\ SummaryMatches(r)'
  BY <1>5, <1>6, <1>7, WithinCase DEF Grade
<1>10. Open!Justified(Assessed(result))
  <2>1. result.verdict = Unblinded(result.judgment, result.shown)
    BY <1>2, <1>4, BlindingIsUndone
  <2>2. \A s \in Side : result.checks[s]
    BY <1>3, <1>4 DEF Undecided
  <2>3. QED
    BY <2>1, <2>2 DEF Open!Justified, Open!Decisive, Open!Side, Side, Assessed
<1>11. VerdictJustified(r)'
  <2>1. work'[r] = w
    BY <1>5, <1>6, Proceeds
  <2>2. QED
    BY <1>6, <1>10, <2>1 DEF VerdictJustified, At, InCase
<1>12. QED
  BY <1>6, <1>8, <1>9, <1>11, ByRun DEF RunInv

LEMMA KeepKeeps ==
  ASSUME IInv, NEW r \in Run, Keep(r)
  PROVE  IInv'
<1> DEFINE c == CaseOf(r)
           path == <<r, c>>
           kept == [work[r].result EXCEPT !.path = path]
           results == [work[r].results EXCEPT ![c] = kept]
           last == work[r].todo = {}
           w == [work[r] EXCEPT !.pc = IF last THEN "insert" ELSE "next",
                                !.todo = IF last THEN CasesOf[r] ELSE work[r].todo,
                                !.results = results]
           evidence == [by |-> disk[path].by \cup {r},
                        roles |-> RolesUsed(work[r].result)]
<1>1. /\ work[r] \in Work /\ work[r].result \in Result /\ c \in Case
      /\ work[r].pc = "keep" /\ work[r].todo \subseteq Case
      /\ work[r].results \in [Case -> Result \cup {Unjudged}]
      /\ CasesOf[r] \subseteq Case
  BY Facts, WorkMeans DEF Keep, At
<1>2. /\ kept \in Result /\ kept.path = path
      /\ RolesUsed(kept) = RolesUsed(work[r].result)
  BY <1>1 DEF Result, RolesUsed
<1>3. kept # Unjudged
  BY <1>2, UnjudgedAssumption
<1>4. work' = [work EXCEPT ![r] = w]
  BY DEF Keep, CaseDone
<1> HIDE DEF kept
<1>5. /\ results \in [Case -> Result \cup {Unjudged}]
      /\ results[c] = kept
      /\ \A d \in Case \ {c} : results[d] = work[r].results[d]
  BY <1>1, <1>2
<1> HIDE DEF results
<1>6. /\ w \in Work /\ w.results = results /\ w.case = work[r].case
      /\ w.pc = (IF last THEN "insert" ELSE "next")
      /\ w.todo = (IF last THEN CasesOf[r] ELSE work[r].todo)
  BY <1>1, <1>5 DEF Work
<1> HIDE DEF w
<1>7. /\ work' \in [Run -> Work] /\ work'[r] = w
      /\ \A q \in Run \ {r} : work'[q] = work[q]
  BY <1>4, <1>6, Proceeds
<1>8. disk[path] = NoEvidence /\ path \in Run \X Case
  BY <1>1 DEF Keep
<1>9. evidence = [by |-> {r}, roles |-> RolesUsed(kept)]
  BY <1>2, <1>8 DEF NoEvidence
<1>10. RolesUsed(kept) \subseteq Role
  BY DEF RolesUsed, Role
<1>11. disk' = [disk EXCEPT ![path] = evidence]
  BY DEF Keep, Kept
<1> HIDE DEF evidence
<1>12. /\ disk' \in [Run \X Case -> [by : SUBSET Run, roles : SUBSET Role]]
       /\ disk'[path] = evidence
       /\ \A q \in Run, d \in Case :
            q # r \/ d # c => disk'[<<q, d>>] = disk[<<q, d>>]
  BY <1>8, <1>9, <1>10, <1>11 DEF IInv, TypeOK
<1>13. TypeOK'
  BY <1>7, <1>12 DEF Keep, IInv, TypeOK
<1>14. Apart(r, w)
  BY <1>4, <1>6, <1>7, <1>12 DEF Keep, Apart
<1>15. /\ CasesInOrder(r) /\ DiskIsKept(r) /\ StatusFollows(r)
       /\ SummaryMatches(r) /\ Isolated(r)
  BY Facts DEF RunInv
<1>16. Judged(r)' = Judged(r) \cup {c}
  BY <1>1, <1>3, <1>5, <1>6, <1>7 DEF Judged
<1>17. Judged(r)' = CasesOf[r] \ work[r].todo /\ rows[r] = {}
  BY <1>1, <1>15, <1>16 DEF CasesInOrder, InCase, At
<1>18. CasesInOrder(r)'
  BY <1>1, <1>6, <1>7, <1>15, <1>17 DEF Keep, CasesInOrder, InCase, At
<1>19. DiskIsKept(r)'
  <2>1. ASSUME NEW d \in Case, d # c
        PROVE  work'[r].results[d] = work[r].results[d] /\ disk'[<<r, d>>] = disk[<<r, d>>]
    BY <1>5, <1>6, <1>7, <1>12, <2>1
  <2>2. work'[r].results[c] = kept /\ disk'[<<r, c>>] = evidence
    BY <1>5, <1>6, <1>7, <1>12
  <2>3. QED
    BY <1>1, <1>2, <1>3, <1>9, <1>15, <2>1, <2>2 DEF DiskIsKept, At
<1>20. StatusFollows(r)' /\ SummaryMatches(r)'
  BY <1>1, <1>6, <1>7, <1>15, <1>17 DEF Keep, StatusFollows, SummaryMatches, InCase, At
<1>21. VerdictJustified(r)'
  BY <1>6, <1>7 DEF VerdictJustified, InCase, At
<1>22. Isolated(r)'
  BY <1>1, <1>4, <1>6, RootsKept DEF Keep
<1>23. QED
  BY <1>6, <1>13, <1>14, <1>18, <1>19, <1>20, <1>21, <1>22, ByRun DEF RunInv

----------------------------------------------------------------------------
(* The steps before, between and after the cases.                          *)

LEMMA StartKeeps ==
  ASSUME IInv, NEW r \in Run, Start(r)
  PROVE  IInv'
<1> DEFINE w == [work[r] EXCEPT !.pc = "fetch"]
<1>1. /\ w \in Work /\ w.pc = "fetch" /\ w.results = work[r].results
      /\ w.todo = work[r].todo /\ work' = [work EXCEPT ![r] = w]
      /\ work[r].pc = "idle"
  BY Facts DEF Start, Goto, At, Work
<1> HIDE DEF w
<1>2. /\ work' \in [Run -> Work] /\ work'[r] = w
      /\ \A q \in Run \ {r} : work'[q] = work[q]
  BY <1>1, Proceeds
<1>3. /\ runs'[r].status = "running"
      /\ \A q \in Run \ {r} : runs'[q] = runs[q]
      /\ runs' \in [Run -> [status : {"absent", "running", "succeeded", "failed"},
                            summary : Counts]]
  BY DEF Start, IInv, TypeOK
<1>4. TypeOK' /\ Apart(r, w)
  BY <1>1, <1>2, <1>3 DEF Start, IInv, TypeOK, Apart
<1>5. Isolated(r)'
  BY <1>1, RootsKept DEF Start
<1>6. CasesInOrder(r) /\ DiskIsKept(r) /\ Judged(r)' = Judged(r)
  BY <1>1, <1>2, Facts DEF RunInv, Judged
<1>7. CasesInOrder(r)' /\ DiskIsKept(r)'
  BY <1>1, <1>2, <1>6 DEF Start, CasesInOrder, DiskIsKept, InCase, At
<1>8. StatusFollows(r)' /\ SummaryMatches(r)' /\ VerdictJustified(r)'
  BY <1>1, <1>2, <1>3 DEF StatusFollows, SummaryMatches, VerdictJustified, InCase, At
<1>9. QED
  BY <1>4, <1>5, <1>7, <1>8, ByRun DEF RunInv

LEMMA FetchKeeps ==
  ASSUME IInv, NEW r \in Run, Fetch(r)
  PROVE  IInv'
<1> DEFINE w == [work[r] EXCEPT !.pc = "next", !.todo = CasesOf[r]]
<1>1. /\ w \in Work /\ w.pc = "next" /\ w.results = work[r].results
      /\ w.todo = CasesOf[r] /\ work[r].pc = "fetch"
  BY Facts DEF Fetch, At, Work
<1>2. work' = [work EXCEPT ![r] = w]
  BY Facts DEF Fetch, IInv, TypeOK, Work
<1> HIDE DEF w
<1>3. /\ work' \in [Run -> Work] /\ work'[r] = w
      /\ \A q \in Run \ {r} : work'[q] = work[q]
  BY <1>1, <1>2, Proceeds
<1>4. TypeOK' /\ Apart(r, w)
  BY <1>1, <1>2, <1>3 DEF Fetch, IInv, TypeOK, Apart
<1>5. Isolated(r)'
  BY <1>1, <1>2, RootsKept DEF Fetch
<1>6. /\ RunInv(r) /\ Judged(r)' = Judged(r)
  BY <1>1, <1>3, Facts DEF Judged
<1>7. CasesInOrder(r)' /\ DiskIsKept(r)'
  BY <1>1, <1>3, <1>6 DEF Fetch, RunInv, CasesInOrder, DiskIsKept, InCase, At
<1>8. StatusFollows(r)' /\ SummaryMatches(r)' /\ VerdictJustified(r)'
  BY <1>1, <1>3, <1>6
     DEF Fetch, RunInv, StatusFollows, SummaryMatches, VerdictJustified, InCase, At
<1>9. QED
  BY <1>1, <1>4, <1>5, <1>7, <1>8, ByRun DEF RunInv

LEMMA NextCaseKeeps ==
  ASSUME IInv, NEW r \in Run, NextCase(r)
  PROVE  IInv'
<1>1. PICK c \in work[r].todo :
        work' = [work EXCEPT ![r] =
          [work[r] EXCEPT !.pc = "launch", !.case = c, !.role = "candidate",
                    !.todo = work[r].todo \ {c}, !.result = NoResult(r, c)]]
  BY DEF NextCase
<1> DEFINE w == [work[r] EXCEPT !.pc = "launch", !.case = c, !.role = "candidate",
                   !.todo = work[r].todo \ {c}, !.result = NoResult(r, c)]
<1>2. work[r] \in Work /\ work[r].pc = "next" /\ c \in Case /\ RunInv(r)
  BY Facts, WorkMeans DEF NextCase, At
<1>3. NoResult(r, c) \in Result
  BY <1>2 DEF NoResult, Result, Checks, Judgment, Verdict, Label, Side
<1>4. /\ w \in Work /\ w.pc = "launch" /\ w.results = work[r].results
      /\ w.todo = work[r].todo \ {c} /\ w.case = c /\ w.role = "candidate"
  BY <1>2, <1>3 DEF Work, Role, Side
<1>5. work' = [work EXCEPT ![r] = w]
  BY <1>1
<1> HIDE DEF w
<1>6. /\ work' \in [Run -> Work] /\ work'[r] = w
      /\ \A q \in Run \ {r} : work'[q] = work[q]
  BY <1>4, <1>5, Proceeds
<1>7. TypeOK' /\ Apart(r, w)
  BY <1>4, <1>5, <1>6 DEF NextCase, IInv, TypeOK, Apart
<1>8. Isolated(r)'
  BY <1>2, <1>4, <1>5, RootsKept DEF NextCase
<1>9. Judged(r)' = Judged(r)
  BY <1>4, <1>6 DEF Judged
<1>10. CasesInOrder(r)' /\ DiskIsKept(r)'
  <2>1. /\ Judged(r)' = CasesOf[r] \ work[r].todo /\ work[r].todo \subseteq CasesOf[r]
        /\ rows[r] = {}
    BY <1>2, <1>9 DEF RunInv, CasesInOrder, At
  <2>2. CasesInOrder(r)'
    BY <1>4, <1>6, <2>1 DEF NextCase, CasesInOrder, CaseOf, InCase, At
  <2>3. DiskIsKept(r)'
    BY <1>2, <1>4, <1>6 DEF NextCase, RunInv, DiskIsKept, At
  <2>4. QED
    BY <2>2, <2>3
<1>11. StatusFollows(r)' /\ SummaryMatches(r)' /\ VerdictJustified(r)'
  BY <1>2, <1>4, <1>6, <1>9
     DEF NextCase, RunInv, StatusFollows, SummaryMatches, VerdictJustified, InCase, At
<1>12. QED
  BY <1>4, <1>7, <1>8, <1>10, <1>11, ByRun DEF RunInv

LEMMA SummaryTyped ==
  ASSUME NEW r \in Run, NEW results
  PROVE  Summary(results, CasesOf[r]) \in Counts
<1>1. IsFiniteSet(CasesOf[r])
  BY BenchmarkAssumption
<1>2. ASSUME NEW S \in SUBSET CasesOf[r] PROVE Cardinality(S) \in Nat
  BY <1>1, FS_Subset, FS_CardinalityType
<1>3. QED
  BY <1>2 DEF Summary, Counts

LEMMA InsertRowKeeps ==
  ASSUME IInv, NEW r \in Run, InsertRow(r)
  PROVE  IInv'
<1>1. PICK c \in work[r].todo : /\ rows' = [rows EXCEPT ![r] = @ \cup {c}]
                               /\ work' = [work EXCEPT ![r].todo = @ \ {c}]
  BY DEF InsertRow, InsertResult
<1> DEFINE w == [work[r] EXCEPT !.todo = work[r].todo \ {c}]
<1>2. work[r] \in Work /\ work[r].pc = "insert" /\ c \in Case /\ RunInv(r)
  BY Facts, WorkMeans DEF InsertRow, At
<1>3. /\ w \in Work /\ w.pc = "insert" /\ w.results = work[r].results
      /\ w.todo = work[r].todo \ {c}
  BY <1>2 DEF Work
<1>4. work' = [work EXCEPT ![r] = w]
  BY <1>1
<1> HIDE DEF w
<1>5. /\ work' \in [Run -> Work] /\ work'[r] = w
      /\ \A q \in Run \ {r} : work'[q] = work[q]
  BY <1>3, <1>4, Proceeds
<1>6. /\ rows' \in [Run -> SUBSET Case] /\ rows'[r] = rows[r] \cup {c}
      /\ \A q \in Run \ {r} : rows'[q] = rows[q]
  BY <1>1, <1>2 DEF IInv, TypeOK
<1>7. TypeOK' /\ Apart(r, w)
  BY <1>3, <1>4, <1>5, <1>6 DEF InsertRow, IInv, TypeOK, Apart
<1>8. Isolated(r)'
  BY <1>2, <1>3, <1>4, RootsKept DEF InsertRow
<1>9. Judged(r)' = Judged(r)
  BY <1>3, <1>5 DEF Judged
<1>10. CasesInOrder(r)' /\ DiskIsKept(r)'
  <2>1. /\ Judged(r) = CasesOf[r] /\ rows[r] = CasesOf[r] \ work[r].todo
        /\ work[r].todo \subseteq CasesOf[r]
    BY <1>2 DEF RunInv, CasesInOrder, At
  <2>2. rows'[r] = CasesOf[r] \ w.todo
    BY <1>3, <1>6, <2>1
  <2>3. CasesInOrder(r)'
    BY <1>3, <1>5, <1>9, <2>1, <2>2 DEF CasesInOrder, InCase, At
  <2>4. DiskIsKept(r)'
    BY <1>2, <1>3, <1>5 DEF InsertRow, RunInv, DiskIsKept, At
  <2>5. QED
    BY <2>3, <2>4
<1>11. StatusFollows(r)' /\ SummaryMatches(r)' /\ VerdictJustified(r)'
  <2>1. runs[r].status = "running" /\ runs' = runs
    BY <1>2 DEF InsertRow, RunInv, StatusFollows, InCase, At
  <2>2. QED
    BY <1>3, <1>5, <2>1
       DEF StatusFollows, SummaryMatches, VerdictJustified, InCase, At
<1>12. QED
  BY <1>3, <1>7, <1>8, <1>10, <1>11, ByRun DEF RunInv

\* What a request may have done to the tables and the disk when it leaves.
Leaves(r) ==
  \/ PendingCall(r)
  \/ FailRun(r)
  \/ /\ At(r, "keep")
     /\ \E parts \in SUBSET RolesUsed(work[r].result) :
          Kept(r, <<r, CaseOf(r)>>, parts)
     /\ UNCHANGED <<runs, rows>>

LEMMA LeavesTables ==
  ASSUME IInv, NEW r \in Run, Leaves(r)
  PROVE  /\ runs' \in [Run -> [status : {"absent", "running", "succeeded", "failed"},
                              summary : Counts]]
         /\ rows' \in [Run -> SUBSET Case]
         /\ \A q \in Run \ {r} : runs'[q] = runs[q] /\ rows'[q] = rows[q]
         /\ rows[r] \subseteq rows'[r]
         /\ \/ runs'[r] = runs[r]
               /\ \/ rows'[r] = rows[r]
                  \/ At(r, "insert") /\ \E c \in work[r].todo : rows'[r] = rows[r] \cup {c}
            \/ /\ At(r, "insert") /\ work[r].todo = {} /\ rows'[r] = rows[r]
               /\ runs'[r] = [status |-> "succeeded",
                              summary |-> Summary(work[r].results, CasesOf[r])]
            \/ /\ At(r, "failing") /\ rows'[r] = rows[r]
               /\ runs'[r] = [status |-> "failed", summary |-> NoSummary]
<1>0. /\ runs \in [Run -> [status : {"absent", "running", "succeeded", "failed"},
                          summary : Counts]]
      /\ rows \in [Run -> SUBSET Case]
      /\ work[r].todo \subseteq Case
  BY Facts, WorkMeans DEF IInv, TypeOK
<1>1. CASE UNCHANGED <<runs, rows>>
  BY <1>0, <1>1
<1>2. CASE FinishRun(r)
  <2>1. Summary(work[r].results, CasesOf[r]) \in Counts
    BY SummaryTyped
  <2>2. QED
    BY <1>0, <1>2, <2>1 DEF FinishRun, CloseRun
<1>3. ASSUME NEW c \in work[r].todo, At(r, "insert"), InsertResult(r, c), runs' = runs
      PROVE  /\ rows' \in [Run -> SUBSET Case] /\ rows'[r] = rows[r] \cup {c}
             /\ \A q \in Run \ {r} : rows'[q] = rows[q]
  BY <1>0, <1>3 DEF InsertResult
<1>4. CASE FailRun(r)
  <2>1. NoSummary \in Counts
    BY DEF NoSummary, Counts
  <2>2. QED
    BY <1>0, <1>4, <2>1 DEF FailRun, CloseRun
<1>5. CASE At(r, "insert") /\ runs' = runs /\ \E c \in work[r].todo : InsertResult(r, c)
  BY <1>0, <1>3, <1>5
<1>6. QED
  BY <1>1, <1>2, <1>4, <1>5 DEF Leaves, PendingCall

LEMMA LeavesDisk ==
  ASSUME IInv, NEW r \in Run, Leaves(r)
  PROVE  /\ disk' \in [Run \X Case -> [by : SUBSET Run, roles : SUBSET Role]]
         /\ \A q \in Run \ {r}, c \in Case : disk'[<<q, c>>] = disk[<<q, c>>]
         /\ \A c \in Case : disk'[<<r, c>>] = disk[<<r, c>>]
                            \/ (At(r, "keep") /\ c = CaseOf(r))
<1>0. disk \in [Run \X Case -> [by : SUBSET Run, roles : SUBSET Role]]
  BY DEF IInv, TypeOK
<1>1. CASE disk' = disk
  <2>1. disk' \in [Run \X Case -> [by : SUBSET Run, roles : SUBSET Role]]
    BY <1>0, <1>1
  <2>2. \A q \in Run, c \in Case : disk'[<<q, c>>] = disk[<<q, c>>]
    BY <1>1
  <2> HIDE <1>1
  <2>3. QED
    BY <2>1, <2>2
<1>2. CASE At(r, "keep") /\ \E parts \in SUBSET RolesUsed(work[r].result) :
             Kept(r, <<r, CaseOf(r)>>, parts)
  <2>1. RolesUsed(work[r].result) \subseteq Role
    BY DEF RolesUsed, Role
  <2>2. <<r, CaseOf(r)>> \in Run \X Case
    BY Facts
  <2> DEFINE path == <<r, CaseOf(r)>>
  <2>3. PICK parts \in SUBSET Role :
          disk' = [disk EXCEPT ![path] = [by |-> disk[path].by \cup {r}, roles |-> parts]]
    BY <1>2, <2>1 DEF Kept
  <2>4. [by |-> disk[path].by \cup {r}, roles |-> parts] \in [by : SUBSET Run, roles : SUBSET Role]
    BY <1>0, <2>2
  <2>5. disk' \in [Run \X Case -> [by : SUBSET Run, roles : SUBSET Role]]
    BY <1>0, <2>2, <2>3, <2>4
  <2>6. ASSUME NEW q \in Run, NEW c \in Case, q # r \/ c # CaseOf(r)
        PROVE  disk'[<<q, c>>] = disk[<<q, c>>]
    <3>1. <<q, c>> # path /\ <<q, c>> \in Run \X Case
      BY <2>6
    <3>2. QED
      BY <1>0, <2>3, <3>1
  <2>7. /\ \A q \in Run \ {r}, c \in Case : disk'[<<q, c>>] = disk[<<q, c>>]
        /\ \A c \in Case \ {CaseOf(r)} : disk'[<<r, c>>] = disk[<<r, c>>]
    BY <2>6
  <2>8. QED
    BY <1>2, <2>5, <2>7
<1>3. QED
  BY <1>1, <1>2 DEF Leaves, PendingCall, FinishRun, FailRun

LEMMA LeavingKeeps ==
  ASSUME IInv, NEW r \in Run, NEW label \in {"failing", "ended", "gone"},
         Goto(r, label), roots' = roots, faults' \in 0..MaxFaults, Leaves(r),
         work[r].pc \notin {"idle", "ended", "gone"},
         label = "failing" => work[r].pc \in {"fetch", "insert"},
         label = "ended" => \/ FinishRun(r)
                            \/ FailRun(r)
  PROVE  IInv'
<1> DEFINE w == [work[r] EXCEPT !.pc = label]
<1>1. /\ w \in Work /\ w.pc = label /\ w.results = work[r].results
      /\ w.todo = work[r].todo /\ w.case = work[r].case /\ w.role = work[r].role
      /\ work' = [work EXCEPT ![r] = w]
  BY Facts DEF Goto, Work
<1> HIDE DEF w
<1>2. /\ work' \in [Run -> Work] /\ work'[r] = w
      /\ \A q \in Run \ {r} : work'[q] = work[q]
  BY <1>1, Proceeds
<1>3. TypeOK' /\ Apart(r, w)
  <2>1. /\ runs' \in [Run -> [status : {"absent", "running", "succeeded", "failed"},
                             summary : Counts]]
        /\ rows' \in [Run -> SUBSET Case]
        /\ \A q \in Run \ {r} : runs'[q] = runs[q] /\ rows'[q] = rows[q]
    BY LeavesTables
  <2>2. /\ disk' \in [Run \X Case -> [by : SUBSET Run, roles : SUBSET Role]]
        /\ \A q \in Run \ {r}, c \in Case : disk'[<<q, c>>] = disk[<<q, c>>]
    BY LeavesDisk
  <2>3. roots' \in [Run -> [Case -> [Role -> {"none", "live", "killed", "held"}]]]
    BY DEF IInv, TypeOK
  <2>4. TypeOK'
    BY <1>2, <2>1, <2>2, <2>3 DEF TypeOK
  <2>5. Apart(r, w)
    BY <1>1, <2>1, <2>2 DEF Apart
  <2>6. QED
    BY <2>4, <2>5
<1>4. RunInv(r) /\ Judged(r)' = Judged(r) /\ CaseOf(r)' = CaseOf(r)
  BY <1>1, <1>2, Facts DEF Judged, CaseOf
<1>5. CasesInOrder(r)'
  <2>1. rows'[r] \subseteq Judged(r) /\ work[r].todo \subseteq CasesOf[r]
        /\ Judged(r) \subseteq CasesOf[r]
    BY <1>4, LeavesTables DEF RunInv, CasesInOrder, At
  <2>2. QED
    BY <1>1, <1>2, <1>4, <2>1 DEF CasesInOrder, InCase, At
<1>6. DiskIsKept(r)'
  <2>1. ASSUME NEW c \in Case, At(r, "keep"), c = CaseOf(r)
        PROVE  work[r].results[c] = Unjudged /\ label = "gone"
    BY <2>1, CaseIsFresh DEF At, InCase, FinishRun, FailRun
  <2>2. DiskIsKept(r)
    BY <1>4 DEF RunInv
  <2>3. ASSUME NEW c \in Case, disk'[<<r, c>>] = disk[<<r, c>>]
        PROVE  IF work'[r].results[c] # Unjudged
               THEN /\ work'[r].results[c].path = <<r, c>>
                    /\ disk'[<<r, c>>] = [by |-> {r},
                                         roles |-> RolesUsed(work'[r].results[c])]
               ELSE At(r, "gone")' \/ disk'[<<r, c>>] = NoEvidence
    BY <1>1, <1>2, <2>2, <2>3 DEF DiskIsKept, At
  <2>4. ASSUME NEW c \in Case, At(r, "keep"), c = CaseOf(r)
        PROVE  work'[r].results[c] = Unjudged /\ At(r, "gone")'
    BY <1>1, <1>2, <2>1, <2>4 DEF At
  <2>5. QED
    BY <2>3, <2>4, LeavesDisk DEF DiskIsKept
<1>7. StatusFollows(r)'
  <2>1. StatusFollows(r) /\ CasesInOrder(r)
    BY <1>4 DEF RunInv
  <2>2. CASE runs'[r] = runs[r]
    <3>1. runs[r].status # "absent" /\ (label = "failing" => runs[r].status = "running")
      BY <2>1 DEF StatusFollows, At, InCase
    <3>2. QED
      BY <1>1, <1>2, <1>4, <2>1, <2>2, <3>1 DEF StatusFollows, InCase, At
  <2>3. CASE /\ At(r, "insert")
             /\ runs'[r] = [status |-> "succeeded",
                            summary |-> Summary(work[r].results, CasesOf[r])]
    BY <1>1, <1>2, <1>4, <2>1, <2>3 DEF StatusFollows, CasesInOrder, InCase, At
  <2>4. CASE At(r, "failing") /\ runs'[r] = [status |-> "failed", summary |-> NoSummary]
    BY <1>1, <1>2, <2>4 DEF StatusFollows, InCase, At
  <2>5. QED
    BY <2>2, <2>3, <2>4, LeavesTables
<1>8. SummaryMatches(r)'
  <2>1. CASE runs'[r] = runs[r] /\ rows'[r] = rows[r]
    BY <1>1, <1>2, <1>4, <2>1 DEF RunInv, SummaryMatches
  <2>2. CASE runs'[r] = runs[r] /\ At(r, "insert")
    BY <1>4, <2>2 DEF RunInv, StatusFollows, SummaryMatches, InCase, At
  <2>3. CASE At(r, "insert") /\ work[r].todo = {} /\ rows'[r] = rows[r]
             /\ runs'[r] = [status |-> "succeeded",
                            summary |-> Summary(work[r].results, CasesOf[r])]
    BY <1>1, <1>2, <1>4, <2>3 DEF RunInv, CasesInOrder, SummaryMatches
  <2>4. CASE runs'[r] = [status |-> "failed", summary |-> NoSummary]
    BY <2>4 DEF SummaryMatches
  <2>5. QED
    BY <2>1, <2>2, <2>3, <2>4, LeavesTables
<1>9. VerdictJustified(r)'
  BY <1>1, <1>2 DEF VerdictJustified, InCase, At
<1>10. Isolated(r)'
  <2>1. CASE work[r].pc \notin {"wait", "drain", "gone"}
    BY <1>1, <2>1, RootsKept
  <2>2. CASE work[r].pc \in {"wait", "drain", "gone"}
    <3>1. label = "gone" /\ \A c \in Case : disk'[<<r, c>>] = disk[<<r, c>>]
      BY <2>2, LeavesDisk DEF At, FinishRun, FailRun
    <3>2. QED
      BY <1>1, <1>2, <1>4, <3>1 DEF RunInv, Isolated
  <2>3. QED
    BY <2>1, <2>2
<1>11. QED
  BY <1>1, <1>3, <1>5, <1>6, <1>7, <1>8, <1>9, <1>10, ByRun DEF RunInv

----------------------------------------------------------------------------
(* The invariant.                                                          *)

LEMMA Initially == Init => IInv
<1> SUFFICES ASSUME Init PROVE IInv
  OBVIOUS
<1>1. ASSUME NEW r \in Run
      PROVE  /\ work[r].pc = "idle" /\ work[r].todo = {} /\ work[r].case \in Case
             /\ work[r].role = "candidate" /\ work[r] \in Work
             /\ work[r].results = [d \in Case |-> Unjudged]
  <2> DEFINE c == CHOOSE c \in CasesOf[r] : TRUE
  <2>1. c \in Case
    <3>1. CasesOf[r] # {} /\ CasesOf[r] \subseteq Case
      BY BenchmarkAssumption
    <3>2. QED
      BY <3>1
  <2>2. work[r] = [pc |-> "idle", todo |-> {}, case |-> c, role |-> "candidate",
                   result |-> NoResult(r, c), results |-> [d \in Case |-> Unjudged]]
    BY DEF Init
  <2> HIDE DEF c
  <2>3. NoResult(r, c) \in Result
    BY <2>1 DEF NoResult, Result, Judgment, Verdict, Checks, Side, Label
  <2>4. QED
    BY <2>1, <2>2, <2>3 DEF Work, Role, Side
<1>2. work \in [Run -> Work]
  BY <1>1 DEF Init
<1>3. TypeOK
  <2>1. NoSummary \in Counts
    BY DEF NoSummary, Counts
  <2>2. /\ runs \in [Run -> [status : {"absent", "running", "succeeded", "failed"},
                             summary : Counts]]
        /\ rows \in [Run -> SUBSET Case]
        /\ roots \in [Run -> [Case -> [Role -> {"none", "live", "killed", "held"}]]]
    BY <2>1 DEF Init
  <2>3. disk \in [Run \X Case -> [by : SUBSET Run, roles : SUBSET Role]]
    BY DEF Init, NoEvidence
  <2>4. faults \in 0..MaxFaults
    BY BenchmarkAssumption DEF Init
  <2>5. QED
    BY <1>2, <2>2, <2>3, <2>4 DEF TypeOK
<1>4. ASSUME NEW r \in Run PROVE RunInv(r)
  <2>1. /\ rows[r] = {} /\ runs[r].status = "absent" /\ Judged(r) = {}
        /\ \A c \in Case : disk[<<r, c>>] = NoEvidence
        /\ \A c \in Case, role \in Role : roots[r][c][role] = "none"
    BY <1>1 DEF Init, Judged
  <2>2. CasesInOrder(r) /\ StatusFollows(r)
    BY <1>1, <2>1 DEF CasesInOrder, StatusFollows, At, InCase
  <2>3. DiskIsKept(r) /\ SummaryMatches(r)
    BY <1>1, <2>1 DEF DiskIsKept, SummaryMatches
  <2>4. VerdictJustified(r) /\ Isolated(r)
    BY <1>1, <2>1 DEF VerdictJustified, Isolated, At, InCase, Side
  <2>5. QED
    BY <2>2, <2>3, <2>4 DEF RunInv
<1>5. QED
  BY <1>3, <1>4 DEF IInv, RunInv

LEMMA StepKeeps ==
  ASSUME IInv, NEW r \in Run, Step(r)
  PROVE  IInv'
<1>1. CASE Fetch(r)
  BY <1>1, FetchKeeps
<1>2. CASE NextCase(r)
  BY <1>2, NextCaseKeeps
<1>3. CASE Launch(r)
  BY <1>3, LaunchKeeps
<1>4. CASE TimesOut(r)
  BY <1>4, TimesOutKeeps
<1>5. CASE Drain(r)
  <2>1. work[r].pc \in InCase
    BY <1>5 DEF Drain, At, InCase
  <2>2. QED
    BY <1>5, <2>1, FailingKeeps DEF Drain
<1>6. CASE DecideByChecks(r)
  BY <1>6, DecideByChecksKeeps
<1>7. CASE RefuseCase(r)
  <2>1. /\ work[r].pc = "weigh" /\ Goto(r, "failing")
        /\ UNCHANGED <<runs, rows, roots, disk, faults>>
    BY <1>7 DEF RefuseCase, Weigh, At
  <2>2. QED
    BY <2>1, FailingKeeps DEF InCase
<1>8. CASE DrawOrder(r)
  BY <1>8, DrawOrderKeeps
<1>9. CASE Keep(r)
  BY <1>9, KeepKeeps
<1>10. CASE InsertRow(r)
  BY <1>10, InsertRowKeeps
<1>11. CASE Finish(r) \/ FinishFailed(r)
  <2>1. /\ FinishRun(r) \/ FailRun(r)
        /\ Goto(r, "ended") /\ UNCHANGED <<roots, faults>>
        /\ work[r].pc \notin {"idle", "ended", "gone"}
    BY <1>11 DEF Finish, FinishFailed, FinishRun, FailRun, At
  <2>2. Leaves(r) /\ faults' \in 0..MaxFaults
    BY <2>1 DEF Leaves, PendingCall, IInv, TypeOK
  <2>3. QED
    BY <2>1, <2>2, LeavingKeeps
<1>12. QED
  BY <1>1, <1>2, <1>3, <1>4, <1>5, <1>6, <1>7, <1>8, <1>9, <1>10, <1>11 DEF Step

LEMMA FaultKeeps ==
  ASSUME IInv, NEW r \in Run, CallFails(r) \/ Die(r)
  PROVE  IInv'
<1>1. faults' \in 0..MaxFaults
  BY BenchmarkAssumption DEF CallFails, Die, IInv, TypeOK
<1>2. CASE CallFails(r)
  BY <1>1, <1>2, LeavingKeeps DEF CallFails, Leaves, At
<1>3. CASE Die(r)
  BY <1>1, <1>3, LeavingKeeps DEF Die, Leaves
<1>4. QED
  BY <1>2, <1>3

LEMMA NextKeeps == IInv /\ [Next]_vars => IInv'
<1> SUFFICES ASSUME IInv, [Next]_vars PROVE IInv'
  OBVIOUS
<1>1. CASE UNCHANGED vars
  <2>1. TypeOK'
    BY <1>1 DEF vars, IInv, TypeOK
  <2>2. ASSUME NEW r \in Run PROVE RunInv(r)'
    <3>1. RunInv(r) /\ Judged(r)' = Judged(r)
      BY <1>1, Facts DEF vars, Judged
    <3>2. (CasesInOrder(r) /\ StatusFollows(r) /\ SummaryMatches(r))'
      BY <1>1, <3>1 DEF vars, RunInv, CasesInOrder, StatusFollows, SummaryMatches,
         At, CaseOf, Summary
    <3>3. (DiskIsKept(r) /\ VerdictJustified(r) /\ Isolated(r))'
      BY <1>1, <3>1 DEF vars, RunInv, DiskIsKept, VerdictJustified, Isolated, At, CaseOf
    <3>4. QED
      BY <3>2, <3>3 DEF RunInv
  <2>3. QED
    BY <2>1, <2>2 DEF IInv, RunInv
<1>2. ASSUME NEW r \in Run,
             Start(r) \/ Step(r) \/ RoleStep(r) \/ CallFails(r) \/ Die(r)
      PROVE  IInv'
  <2>1. CASE Start(r)
    BY <2>1, StartKeeps
  <2>2. CASE Step(r)
    BY <2>2, StepKeeps
  <2>3. CASE Answers(r)
    BY <2>3, AnswersKeeps
  <2>4. CASE Grade(r)
    BY <2>4, GradeKeeps
  <2>5. CASE Breaks(r)
    <3>1. work[r].pc \in InCase
      BY <2>5 DEF Breaks, At, InCase
    <3>2. QED
      BY <2>5, <3>1, FailingKeeps DEF Breaks
  <2>6. CASE Release(r)
    BY <2>6, ReleaseKeeps
  <2>7. CASE CallFails(r) \/ Die(r)
    BY <2>7, FaultKeeps
  <2>8. QED
    BY <1>2, <2>1, <2>2, <2>3, <2>4, <2>5, <2>6, <2>7 DEF RoleStep
<1>3. QED
  BY <1>1, <1>2 DEF Next

\* The inductive invariant of benchmarks: per run, cases are judged in order,
\* what is judged is on disk, the status follows the request, and a verdict is
\* the one its checks or its judgment call for (benchmark.py:181-259,
\* services.py:161-209).
THEOREM Invariance == Spec => []IInv
  BY Initially, NextKeeps, PTL DEF Spec

\* One role at a time has a root, and none has one beside kept evidence
\* (benchmark.py:193-195).
THEOREM RolesStayIsolated == Spec => []RolesIsolated
<1>1. IInv => RolesIsolated
  BY DEF IInv, RolesIsolated
<1>2. QED
  BY <1>1, Invariance, PTL

\* A row names evidence that its own run kept, complete (benchmark.py:212-225).
THEOREM EvidenceStaysOwn == Spec => []EvidenceIsOwn
<1>1. ASSUME IInv, NEW r \in Run, NEW c \in rows[r]
      PROVE  /\ work[r].results[c] # Unjudged
             /\ disk[work[r].results[c].path] =
                  [by |-> {r}, roles |-> RolesUsed(work[r].results[c])]
  <2>1. CasesInOrder(r) /\ DiskIsKept(r)
    BY <1>1 DEF IInv
  <2>2. c \in Case /\ work[r].results[c] # Unjudged
    BY <1>1, <2>1 DEF CasesInOrder, Judged
  <2>3. QED
    BY <2>1, <2>2 DEF DiskIsKept
<1>2. IInv => EvidenceIsOwn
  BY <1>1 DEF EvidenceIsOwn
<1>3. QED
  BY <1>2, Invariance, PTL

\* The summary of a run that succeeded is the tally of its rows
\* (services.py:206-209).
THEOREM SummaryStaysItsRows == Spec => []SummaryIsItsRows
<1>1. IInv => SummaryIsItsRows
  BY DEF IInv, SummaryIsItsRows
<1>2. QED
  BY <1>1, Invariance, PTL

----------------------------------------------------------------------------
(* Benchmark implements Comparison.                                        *)

Bar == [r \in Run |-> [c \in Case |->
          IF work[r].results[c] = Unjudged THEN Unjudged
          ELSE Assessed(work[r].results[c])]]

LEMMA BarKept ==
  ASSUME IInv, NEW r \in Run, NEW w, work' = [work EXCEPT ![r] = w],
         w.results = work[r].results
  PROVE  Bar' = Bar
<1>1. ASSUME NEW q \in Run PROVE work'[q].results = work[q].results
  BY DEF IInv, TypeOK
<1>2. QED
  BY <1>1 DEF Bar

LEMMA GotoKeepsBar ==
  ASSUME IInv, NEW r \in Run, NEW label, Goto(r, label)
  PROVE  Bar' = Bar
<1> DEFINE w == [work[r] EXCEPT !.pc = label]
<1>1. w.results = work[r].results /\ work' = [work EXCEPT ![r] = w]
  BY Facts DEF Goto, Work
<1> HIDE DEF w
<1>2. QED
  BY <1>1, BarKept

LEMMA ContinueKeepsBar ==
  ASSUME IInv, NEW r \in Run, NEW label, NEW role, NEW result,
         Continue(r, label, role, result)
  PROVE  Bar' = Bar
<1> DEFINE w == [work[r] EXCEPT !.pc = label, !.role = role, !.result = result]
<1>1. w.results = work[r].results /\ work' = [work EXCEPT ![r] = w]
  BY Facts DEF Continue, Work
<1> HIDE DEF w
<1>2. QED
  BY <1>1, BarKept

\* Only keeping the evidence of a case assesses it.
LEMMA OthersKeepBar ==
  ASSUME IInv, NEW r \in Run,
         \/ Fetch(r) \/ NextCase(r) \/ Launch(r) \/ TimesOut(r) \/ Drain(r)
         \/ DecideByChecks(r) \/ RefuseCase(r) \/ DrawOrder(r) \/ InsertRow(r)
         \/ RoleStep(r)
  PROVE  Bar' = Bar /\ runs' = runs
<1>1. work[r] \in Work
  BY Facts
<1>2. CASE Fetch(r)
  <2> DEFINE w == [work[r] EXCEPT !.pc = "next", !.todo = CasesOf[r]]
  <2>1. w.results = work[r].results /\ work' = [work EXCEPT ![r] = w] /\ runs' = runs
    BY <1>1, <1>2 DEF Fetch, Work
  <2> HIDE DEF w
  <2>2. QED
    BY <2>1, BarKept
<1>3. CASE NextCase(r)
  <2>1. PICK c \in work[r].todo :
          work' = [work EXCEPT ![r] =
            [work[r] EXCEPT !.pc = "launch", !.case = c, !.role = "candidate",
                      !.todo = work[r].todo \ {c}, !.result = NoResult(r, c)]]
    BY <1>3 DEF NextCase
  <2> DEFINE w == [work[r] EXCEPT !.pc = "launch", !.case = c, !.role = "candidate",
                      !.todo = work[r].todo \ {c}, !.result = NoResult(r, c)]
  <2>2. w.results = work[r].results /\ runs' = runs
    BY <1>1, <1>3 DEF NextCase, Work
  <2> HIDE DEF w
  <2>3. QED
    BY <2>1, <2>2, BarKept DEF w
<1>4. CASE Launch(r) \/ TimesOut(r) \/ Drain(r) \/ Breaks(r)
  BY <1>4, GotoKeepsBar DEF Launch, TimesOut, Drain, Breaks
<1>5. CASE RefuseCase(r)
  BY <1>5, GotoKeepsBar DEF RefuseCase, Weigh
<1>6. CASE DecideByChecks(r)
  BY <1>6, ContinueKeepsBar DEF DecideByChecks, Weigh
<1>7. CASE DrawOrder(r)
  BY <1>7, ContinueKeepsBar DEF DrawOrder, Weigh
<1>8. CASE Grade(r)
  BY <1>8, ContinueKeepsBar DEF Grade
<1>9. CASE InsertRow(r)
  <2>1. PICK c \in work[r].todo : work' = [work EXCEPT ![r].todo = @ \ {c}]
    BY <1>9 DEF InsertRow
  <2> DEFINE w == [work[r] EXCEPT !.todo = work[r].todo \ {c}]
  <2>2. w.results = work[r].results /\ work' = [work EXCEPT ![r] = w] /\ runs' = runs
    BY <1>1, <1>9, <2>1 DEF InsertRow, Work
  <2> HIDE DEF w
  <2>3. QED
    BY <2>2, BarKept
<1>10. CASE Answers(r)
  <2> DEFINE w == IF work[r].role = "candidate"
                  THEN [work[r] EXCEPT !.pc = "launch", !.role = "baseline"]
                  ELSE [work[r] EXCEPT !.pc = "weigh"]
  <2>1. work' = [work EXCEPT ![r] = w] /\ runs' = runs
    BY <1>10 DEF Answers
  <2>2. w.results = work[r].results
    BY <1>1 DEF Work
  <2> HIDE DEF w
  <2>3. QED
    BY <2>1, <2>2, BarKept
<1>11. CASE Release(r)
  BY <1>11 DEF Release, Bar
<1>12. QED
  BY <1>2, <1>3, <1>4, <1>5, <1>6, <1>7, <1>8, <1>9, <1>10, <1>11 DEF RoleStep

LEMMA AssessedTyped ==
  ASSUME NEW result \in Result
  PROVE  Assessed(result) \in Open!Assessment /\ Assessed(result) # Unjudged
<1>1. result.judgment \in Judgment /\ result.shown \in [Label -> Side]
      /\ result.checks \in Checks /\ result.verdict \in Verdict
  BY DEF Result
<1>2. Unblinded(result.judgment, result.shown) \in Verdict
  BY <1>1 DEF Unblinded, Judgment, Verdict
<1>3. Assessed(result) \in Open!Assessment
  BY <1>1, <1>2 DEF Assessed, Open!Assessment, Open!Checks, Open!Verdict, Open!Side,
     Checks, Verdict, Side
<1>4. QED
  BY <1>3, UnjudgedAssumption

\* Every verdict of a run that is done counts in its summary.
LEMMA SummaryIsTally ==
  ASSUME IInv, NEW r \in Run, Judged(r) = CasesOf[r]
  PROVE  /\ \A c \in CasesOf[r] : Bar[r][c] # Unjudged
         /\ Summary(work[r].results, CasesOf[r])
              = Open!Tally([c \in CasesOf[r] |-> Bar[r][c].verdict])
<1>1. ASSUME NEW c \in CasesOf[r]
      PROVE  Bar[r][c] # Unjudged /\ Bar[r][c].verdict = work[r].results[c].verdict
  <2>1. c \in Case /\ work[r].results[c] # Unjudged /\ work[r].results[c] \in Result
    BY Facts, WorkMeans DEF Judged
  <2>2. Bar[r][c] = Assessed(work[r].results[c])
    BY <2>1 DEF Bar
  <2>3. QED
    BY <2>1, <2>2, AssessedTyped DEF Assessed
<1> DEFINE verdicts == [c \in CasesOf[r] |-> Bar[r][c].verdict]
<1>2. DOMAIN verdicts = CasesOf[r]
      /\ \A c \in CasesOf[r] : verdicts[c] = work[r].results[c].verdict
  BY <1>1
<1> HIDE DEF verdicts
<1> DEFINE Passes(s) == Cardinality({c \in CasesOf[r] : work[r].results[c].verdict.pass[s]})
           Wins(s) == Cardinality({c \in CasesOf[r] : work[r].results[c].verdict.winner = s})
<1>3. ASSUME NEW s
      PROVE  /\ Passes(s) = Cardinality({c \in DOMAIN verdicts : verdicts[c].pass[s]})
             /\ Wins(s) = Cardinality({c \in DOMAIN verdicts : verdicts[c].winner = s})
  <2>1. /\ {c \in CasesOf[r] : work[r].results[c].verdict.pass[s]}
                  = {c \in DOMAIN verdicts : verdicts[c].pass[s]}
        /\ {c \in CasesOf[r] : work[r].results[c].verdict.winner = s}
                  = {c \in DOMAIN verdicts : verdicts[c].winner = s}
    BY <1>2
  <2>2. QED
    BY <2>1
<1> DEFINE counts == [candidate |-> Passes("candidate"), baseline |-> Passes("baseline"),
                      candidateWins |-> Wins("candidate"),
                      baselineWins |-> Wins("baseline"), ties |-> Wins("tie")]
<1>4. Summary(work[r].results, CasesOf[r]) = Open!Tally(verdicts)
  <2>1. Summary(work[r].results, CasesOf[r]) = counts
    BY DEF Summary
  <2>2. Open!Tally(verdicts) =
          [candidate |-> Cardinality({c \in DOMAIN verdicts : verdicts[c].pass["candidate"]}),
           baseline |-> Cardinality({c \in DOMAIN verdicts : verdicts[c].pass["baseline"]}),
           candidateWins |-> Cardinality({c \in DOMAIN verdicts : verdicts[c].winner = "candidate"}),
           baselineWins |-> Cardinality({c \in DOMAIN verdicts : verdicts[c].winner = "baseline"}),
           ties |-> Cardinality({c \in DOMAIN verdicts : verdicts[c].winner = "tie"})]
    BY DEF Open!Tally, Open!Cardinality, Cardinality
  <2> HIDE DEF Passes, Wins
  <2>3. Open!Tally(verdicts) = counts
    BY <1>3, <2>2
  <2>4. QED
    BY <2>1, <2>3
<1>5. QED
  BY <1>1, <1>4 DEF verdicts

\* The abstract steps of a report and of a failure, whatever the request does
\* next.
LEMMA ClosesAbstractly ==
  ASSUME IInv, NEW r \in Run, NEW label, Goto(r, label), FinishRun(r) \/ FailRun(r)
  PROVE  Open!Report(r) \/ Open!Fail(r)
<1>1. Bar' = Bar
  BY GotoKeepsBar
<1>2. RunInv(r)
  BY Facts
<1>3. CASE FinishRun(r)
  <2>1. Judged(r) = CasesOf[r] /\ runs[r].status = "running"
    BY <1>2, <1>3 DEF FinishRun, RunInv, CasesInOrder, StatusFollows, At, InCase
  <2>2. Open!Report(r)
    BY <1>1, <1>3, <2>1, SummaryIsTally DEF FinishRun, CloseRun, Open!Report, Bar
  <2>3. QED
    BY <2>2
<1>4. CASE FailRun(r)
  BY <1>1, <1>2, <1>4
     DEF FailRun, CloseRun, RunInv, StatusFollows, At, Open!Fail, Bar,
         NoSummary, Open!NoSummary
<1>5. QED
  BY <1>3, <1>4

LEMMA KeepAssesses ==
  ASSUME IInv, NEW r \in Run, Keep(r), NEW c \in Case, c = CaseOf(r)
  PROVE  Open!Assess(r, c)
<1> DEFINE kept == [work[r].result EXCEPT !.path = <<r, c>>]
           results == [work[r].results EXCEPT ![c] = kept]
<1>1. /\ work[r] \in Work /\ work[r].result \in Result
      /\ work[r].results \in [Case -> Result \cup {Unjudged}] /\ RunInv(r)
      /\ work[r].pc = "keep"
  BY Facts, WorkMeans DEF Keep, At
<1>2. /\ kept \in Result /\ Assessed(kept) = Assessed(work[r].result)
  BY <1>1 DEF Result, Assessed
<1>3. work'[r].results = results /\ \A q \in Run \ {r} : work'[q] = work[q]
  BY <1>1 DEF Keep, CaseDone, IInv, TypeOK, Work
<1> HIDE DEF kept
<1>4. results[c] = kept /\ \A d \in Case \ {c} : results[d] = work[r].results[d]
  BY <1>1
<1> HIDE DEF results
<1>5. Assessed(kept) \in Open!Assessment /\ kept # Unjudged
  BY <1>2, AssessedTyped, UnjudgedAssumption
<1>6. Open!Justified(Assessed(kept))
  BY <1>1, <1>2 DEF RunInv, VerdictJustified, At
<1>7. Bar[r][c] = Unjudged /\ c \in CasesOf[r] /\ runs[r].status = "running"
  BY <1>1, CaseIsFresh DEF Bar, RunInv, CasesInOrder, StatusFollows, At, InCase
<1>8. Bar'[r][c] = Assessed(kept)
  BY <1>1, <1>3, <1>4, <1>5 DEF Bar
<1>9. Bar' = [Bar EXCEPT ![r][c] = Bar'[r][c]]
  <2>1. ASSUME NEW q \in Run, q # r PROVE Bar'[q] = Bar[q]
    BY <1>3, <2>1 DEF Bar
  <2>2. ASSUME NEW d \in Case, d # c PROVE Bar'[r][d] = Bar[r][d]
    BY <1>3, <1>4, <2>2 DEF Bar
  <2>3. Bar \in [Run -> [Case -> {Bar[q][d] : q \in Run, d \in Case}]]
        /\ Bar' \in [Run -> [Case -> {Bar'[q][d] : q \in Run, d \in Case}]]
    BY DEF Bar
  <2>4. Bar'[r] = [Bar[r] EXCEPT ![c] = Bar'[r][c]]
    BY <2>2, <2>3
  <2>5. Bar' = [Bar EXCEPT ![r] = Bar'[r]]
    BY <2>1, <2>3
  <2>6. [Bar EXCEPT ![r][c] = Bar'[r][c]]
          = [Bar EXCEPT ![r] = [Bar[r] EXCEPT ![c] = Bar'[r][c]]]
    BY <2>3
  <2>7. QED
    BY <2>4, <2>5, <2>6
<1>10. runs' = runs
  BY DEF Keep
<1>11. QED
  BY <1>5, <1>6, <1>7, <1>8, <1>9, <1>10 DEF Open!Assess, Bar

\* Every step of a benchmark is a step of a comparison or none: labels, roles,
\* lost replies and deaths do not show (benchmark.py:281, 417-436).
THEOREM ComparisonImplemented == Spec => ImplementsComparison
<1>1. Init => Open!Init
  <2> SUFFICES ASSUME Init PROVE Open!Init
    OBVIOUS
  <2>1. ASSUME NEW r \in Run PROVE work[r].results = [d \in Case |-> Unjudged]
    BY DEF Init
  <2>2. Bar = [r \in Run |-> [c \in Case |-> Unjudged]]
    BY <2>1 DEF Bar
  <2>3. QED
    BY <2>2 DEF Init, Open!Init, NoSummary, Open!NoSummary, Bar
<1>2. IInv /\ [Next]_vars => [Open!Next]_(Open!comparisonVars)
  <2> SUFFICES ASSUME IInv, [Next]_vars
               PROVE  Open!Next \/ (runs' = runs /\ Bar' = Bar)
    BY DEF Open!comparisonVars, Bar
  <2>1. CASE UNCHANGED vars
    BY <2>1 DEF vars, Bar
  <2>2. ASSUME NEW r \in Run,
               Start(r) \/ Step(r) \/ RoleStep(r) \/ CallFails(r) \/ Die(r)
        PROVE  Open!Next \/ (runs' = runs /\ Bar' = Bar)
    <3>1. CASE Start(r)
      <4>1. Bar' = Bar
        BY <3>1, GotoKeepsBar DEF Start
      <4>2. runs[r].status = "absent"
        BY <3>1, Facts DEF Start, RunInv, StatusFollows
      <4>3. Open!Open(r)
        BY <3>1, <4>1, <4>2 DEF Start, Open!Open, Bar
      <4>4. QED
        BY <4>3 DEF Open!Next
    <3>2. CASE Keep(r)
      <4>1. PICK c \in Case : c = CaseOf(r)
        BY Facts
      <4>2. Open!Assess(r, c)
        BY <3>2, <4>1, KeepAssesses
      <4>3. QED
        BY <4>2 DEF Open!Next
    <3>3. CASE \/ Fetch(r) \/ NextCase(r) \/ Launch(r) \/ TimesOut(r) \/ Drain(r)
               \/ DecideByChecks(r) \/ RefuseCase(r) \/ DrawOrder(r) \/ InsertRow(r)
               \/ RoleStep(r)
      BY <3>3, OthersKeepBar
    <3>4. CASE Finish(r) \/ FinishFailed(r)
      BY <3>4, ClosesAbstractly DEF Finish, FinishFailed, Open!Next
    <3>5. CASE CallFails(r) \/ Die(r)
      <4>1. PICK label : Goto(r, label)
        BY <3>5 DEF CallFails, Die
      <4>2. FinishRun(r) \/ FailRun(r) \/ runs' = runs
        BY <3>5 DEF CallFails, Die, PendingCall
      <4>3. QED
        BY <4>1, <4>2, ClosesAbstractly, GotoKeepsBar DEF Open!Next
    <3>6. QED
      BY <2>2, <3>1, <3>2, <3>3, <3>4, <3>5 DEF Step
  <2>3. QED
    BY <2>1, <2>2 DEF Next
<1>3. QED
  BY <1>1, <1>2, Invariance, PTL DEF Spec, ImplementsComparison, Open!Spec

=============================================================================
