---------------------------- MODULE DeliveryProofs ----------------------------
(***************************************************************************)
(* Theorems about Delivery, for any number of evaluations, callers,        *)
(* versions, skills, runs and transactions: the two parts keep their       *)
(* specifications beside each other, and with both invariants what is in   *)
(* production was earned.  As long as the evaluations of a version come    *)
(* one at a time (E!OneAtATime) more is promised, which the last sections  *)
(* carry over: their lemmas take as mode whether that is assumed.          *)
(***************************************************************************)
EXTENDS Delivery, TLAPS, SequenceTheorems

----------------------------------------------------------------------------
(* What a step is to each of the two parts.                                *)

\* The evaluations know a step as one of theirs, or as a fault elsewhere.
FaultBeside ==
  /\ UNCHANGED <<datasets, runs, decision, status, evals, authors, planned, cutShort>>
  /\ faults < MaxFaults /\ faults' = faults + 1

LEMMA StatusBeside ==
  ASSUME NEW c, R!Step(c) \/ R!BreakDeadlock(c) \/ R!NewCall(c) \/ R!Abort(c)
                \/ NewCall(c)
  PROVE  status' = status
BY DEF R!Step, R!CheckPromote, R!Begin, R!LockVersion, R!LockSkill, R!Refuse,
       R!Supersede, R!Commit, R!BreakDeadlock, R!Abort, R!NewCall, NewCall,
       R!CallPromote, R!CallRollback, R!tables

LEMMA DeliverBesideEvaluations ==
  ASSUME NEW c, Deliver(c)
  PROVE  UNCHANGED E!vars \/ FaultBeside
<1>1. CASE DeliverStep(c) \/ BreakDeadlock(c)
  BY <1>1, StatusBeside DEF DeliverStep, BreakDeadlock, evaluationVars, E!vars
<1>2. CASE NewCall(c) /\ UNCHANGED evaluationVars
  BY <1>2, StatusBeside DEF evaluationVars, E!vars
<1>3. CASE /\ R!Abort(c)
           /\ faults < MaxFaults /\ faults' = faults + 1
           /\ UNCHANGED <<datasets, runs, decision, evals, authors, planned, cutShort>>
  BY <1>3, StatusBeside DEF FaultBeside
<1>4. QED
  BY <1>1, <1>2, <1>3 DEF Deliver

LEMMA EvaluationStep ==
  ASSUME [Next]_vars
  PROVE  [E!Next]_E!vars \/ FaultBeside
<1>1. CASE Evaluate
  BY <1>1 DEF Evaluate, E!Next
<1>2. ASSUME NEW e \in Evaluator, EvaluateStep(e) \/ Mark(e) \/ Interrupt(e)
      PROVE  E!Next
  BY <1>2 DEF EvaluateStep, Mark, Interrupt, E!Next, E!EvalStep
<1>3. CASE UNCHANGED vars
  BY <1>3 DEF vars, evaluationVars, E!vars
<1>4. QED
  BY <1>1, <1>2, <1>3, DeliverBesideEvaluations DEF Next

LEMMA EvaluationKept ==
  ASSUME E!IInv, [Next]_vars
  PROVE  E!IInv'
BY EvaluationStep, E!NextInv, E!FaultElsewhere, DeliveryAssumption DEF FaultBeside

\* The status that an evaluation writes is a grade.
LEMMA MarkIsGrade ==
  ASSUME E!IInv, NEW e \in Evaluator, E!MarkVersion(e)
  PROVE  /\ E!CandidateOf(e) \in Candidate
         /\ status'[E!CandidateOf(e)] \in R!Grade \ {"draft"}
BY DEF E!IInv, E!TypeOK, E!EvalState, E!CandidateOf, E!MarkVersion, R!Grade

LEMMA ReleasesStep ==
  ASSUME E!IInv, [Next]_vars
  PROVE  [R!Next]_R!vars
<1>1. ASSUME NEW e \in Evaluator, E!MarkVersion(e),
             R!SetStatus(E!CandidateOf(e), status'[E!CandidateOf(e)])
      PROVE  R!Next
  BY <1>1, MarkIsGrade DEF R!Next
<1>2. CASE Evaluate
  BY <1>2 DEF Evaluate, releaseVars, R!vars, R!locks, E!CreateDataset,
     E!CheckCase, E!InsertCase, E!RunHoldouts, E!RunOne, E!Begin, E!tables,
     E!FinishLost, E!FinishRun
<1>3. ASSUME NEW e \in Evaluator, EvaluateStep(e) PROVE UNCHANGED R!vars
  BY <1>3 DEF EvaluateStep, releaseVars, R!vars, R!locks
<1>4. ASSUME NEW e \in Evaluator, Mark(e) PROVE R!Next
  BY <1>1, <1>4 DEF Mark, E!Mark
<1>5. ASSUME NEW e \in Evaluator, Interrupt(e) PROVE [R!Next]_R!vars
  <2>1. CASE UNCHANGED <<status, releaseVars>>
    BY <2>1 DEF releaseVars, R!vars, R!locks
  <2>2. CASE R!SetStatus(E!CandidateOf(e), status'[E!CandidateOf(e)])
    <3>1. CASE E!MarkVersion(e)
      BY <1>1, <2>2, <3>1
    <3>2. CASE status' = status
      BY <2>2, <3>2 DEF R!SetStatus, R!vars, R!locks
    <3>3. E!MarkVersion(e) \/ status' = status
      BY <1>5 DEF Interrupt, E!Interrupt, E!LockRow, E!InsertRun, E!FinishRun,
         E!RecordDecision, E!tables
    <3>4. QED
      BY <3>1, <3>2, <3>3
  <2>3. QED
    BY <1>5, <2>1, <2>2 DEF Interrupt
<1>6. ASSUME NEW c \in Caller, NewCall(c) PROVE R!NewCall(c)
  BY <1>6, DeliveryAssumption DEF NewCall, R!NewCall, R!CallRollback
<1>7. ASSUME NEW c \in Caller, Deliver(c) PROVE R!Next
  BY <1>6, <1>7 DEF Deliver, DeliverStep, BreakDeadlock, R!Next
<1>8. CASE UNCHANGED vars
  BY <1>8 DEF vars, releaseVars, R!vars, R!locks
<1>9. QED
  BY <1>2, <1>3, <1>4, <1>5, <1>7, <1>8 DEF Next

----------------------------------------------------------------------------
(* The parts keep their specifications.                                    *)

LEMMA Initially == Init => E!IInv /\ R!IInv
BY DeliveryAssumption, E!InitInv, R!Initially DEF Init

\* The evaluations keep their invariant, and with it all that EvaluationProofs
\* derives from it: promotions, rollbacks and their failures change nothing
\* about what a status rests on.
THEOREM EvaluationsUndisturbed == Spec => []E!IInv
<1>1. QED
  BY Initially, EvaluationKept, PTL DEF Spec

LEMMA ReleasesKept ==
  ASSUME E!IInv, R!IInv, [Next]_vars
  PROVE  R!IInv'
BY ReleasesStep, R!NextKeeps, DeliveryAssumption

----------------------------------------------------------------------------
(* What is in production was earned.                                       *)

\* Nobody takes the evidence of a version away: no call has failed, or its
\* evaluations come one at a time, and the except block of one closes before
\* the next begins.
Undoubted(mode) == faults = 0 \/ mode = "single"

Backed(mode, v) == E!Evidence(v) /\ (mode = "single" => E!SettledEvidence(v))

Founded(mode, row) ==
  \/ row.grounds = "gate" /\ Backed(mode, row.version)
  \/ row.grounds = "override" /\ row.reason = "text"

\* The release i of the skill s rests on evidence, on a reasoned override, or
\* on an earlier release of the same version that does.
Earned(mode, s, i) ==
  \E j \in 1..i : /\ releases[s][j].version = releases[s][i].version
                  /\ Founded(mode, releases[s][j])

Merits(mode) ==
  Undoubted(mode) =>
    \A s \in Skill : \A i \in DOMAIN releases[s] : Earned(mode, s, i)

SoleKept(mode) == mode = "single" => E!SoleInv

DInv(mode) == E!IInv /\ R!IInv /\ SoleKept(mode) /\ Merits(mode)

LEMMA FaultsRaised ==
  ASSUME E!IInv, FaultBeside
  PROVE  faults' # 0
BY DeliveryAssumption, E!FaultsCounted DEF FaultBeside

LEMMA SoleStays ==
  ASSUME NEW mode, E!IInv, SoleKept(mode), [Next]_vars,
         mode = "single" => E!OneAtATime
  PROVE  SoleKept(mode)'
<1> SUFFICES ASSUME mode = "single" PROVE E!SoleInv'
  BY DEF SoleKept
<1>1. E!SoleInv
  BY DEF SoleKept
<1>2. CASE [E!Next]_E!vars
  BY <1>1, <1>2, E!SoleStep, DeliveryAssumption
<1>3. CASE FaultBeside
  <2>1. E!IInv'
    BY EvaluationKept
  <2>2. QED
    BY <1>1, <1>3, <2>1, E!SoleBesides, DeliveryAssumption DEF FaultBeside
<1>4. QED
  BY <1>2, <1>3, EvaluationStep

LEMMA SettledIsEvidence ==
  ASSUME NEW c, E!SettledEvidence(c)
  PROVE  E!Evidence(c)
BY DEF E!SettledEvidence, E!Settled, E!Evidence

\* Evidence stands while it is undoubted: its run is never written again.
LEMMA EvidenceStands ==
  ASSUME NEW mode, E!IInv, [Next]_vars, faults' = 0 \/ mode = "single",
         NEW c \in Candidate, Backed(mode, c)
  PROVE  Backed(mode, c)'
<1>1. CASE mode = "single"
  <2>1. E!SettledEvidence(c)
    BY <1>1 DEF Backed
  <2>2. E!SettledEvidence(c)'
    <3>1. CASE [E!Next]_E!vars
      BY <2>1, <3>1, E!SettledEvidenceStays, DeliveryAssumption
    <3>2. CASE FaultBeside
      BY <2>1, <3>2 DEF FaultBeside, E!SettledEvidence, E!Settled, E!Regresses,
                        E!RunOf
    <3>3. QED
      BY <3>1, <3>2, EvaluationStep
  <2>3. E!Evidence(c)'
    BY <2>2 DEF E!SettledEvidence, E!Settled, E!Evidence, E!Regresses
  <2>4. QED
    BY <2>2, <2>3 DEF Backed
<1>2. CASE mode # "single"
  <2>1. E!Evidence(c) /\ faults' = 0
    BY <1>2 DEF Backed
  <2>2. ~FaultBeside
    BY <2>1, FaultsRaised
  <2>3. \A r \in E!RunId : runs[r].status = "succeeded" => runs'[r] = runs[r]
    BY <2>1, <2>2, EvaluationStep, E!SucceededRunsStand, DeliveryAssumption
  <2>4. E!Evidence(c)'
    BY <2>1, <2>3, E!EvidenceKept, DeliveryAssumption
  <2>5. QED
    BY <1>2, <2>4 DEF Backed
<1>3. QED
  BY <1>1, <1>2

\* What a promotion by the gate finds is backed.
LEMMA PassedIsBacked ==
  ASSUME NEW mode, DInv(mode), Undoubted(mode), NEW c \in Candidate,
         status[c] = "passed"
  PROVE  Backed(mode, c)
<1>1. CASE mode = "single"
  <2>1. E!SettledEvidence(c)
    BY <1>1 DEF DInv, SoleKept, E!SoleInv, E!PassedIsSettled
  <2>2. QED
    BY <2>1, SettledIsEvidence DEF Backed
<1>2. CASE mode # "single"
  BY <1>2 DEF Undoubted, Backed, DInv, E!IInv, E!PassedHadEvidence
<1>3. QED
  BY <1>1, <1>2

\* A release on record keeps what it rests on, whatever becomes active.
LEMMA EarnedStands ==
  ASSUME NEW mode, E!IInv, R!IInv, [Next]_vars, faults' = 0 \/ mode = "single",
         NEW s \in Skill, NEW i \in DOMAIN releases[s], Earned(mode, s, i),
         \A j \in 1..i : /\ releases'[s][j].version = releases[s][j].version
                         /\ releases'[s][j].grounds = releases[s][j].grounds
                         /\ releases'[s][j].reason = releases[s][j].reason
  PROVE  Earned(mode, s, i)'
<1>1. /\ releases[s] \in Seq(R!Row) /\ Len(releases[s]) \in Nat
      /\ DOMAIN releases[s] = 1..Len(releases[s])
  BY LenProperties DEF R!IInv, R!TypeOK
<1>2. PICK j \in 1..i : /\ releases[s][j].version = releases[s][i].version
                        /\ Founded(mode, releases[s][j])
  BY DEF Earned
<1>3. j \in 1..Len(releases[s]) /\ i \in 1..i
  BY <1>1
<1>4. releases[s][j].version \in Candidate
  <2>1. releases[s][j] \in R!Row
    BY <1>1, <1>3, ElementOfSeq
  <2>2. QED
    BY <2>1 DEF R!Row
<1>5. Backed(mode, releases[s][j].version) => Backed(mode, releases[s][j].version)'
  <2>1. ASSUME NEW w \in Candidate, Backed(mode, w), releases'[s][j].version = w
        PROVE  Backed(mode, releases[s][j].version)'
    BY <2>1, EvidenceStands DEF Backed, E!Evidence, E!SettledEvidence
  <2>2. QED
    BY <1>4, <2>1
<1>6. Founded(mode, releases[s][j])'
  BY <1>2, <1>5 DEF Founded
<1>7. QED
  BY <1>2, <1>3, <1>6 DEF Earned

LEMMA CommittedAsBefore ==
  ASSUME NEW c, R!Shipped(c), NEW s \in Skill, NEW k \in DOMAIN releases[s]
  PROVE  /\ k \in DOMAIN releases'[s]
         /\ releases'[s][k].version = releases[s][k].version
         /\ releases'[s][k].grounds = releases[s][k].grounds
         /\ releases'[s][k].reason = releases[s][k].reason
<1>1. CASE s # calls[c].skill
  BY <1>1 DEF R!Shipped
<1>2. CASE s = calls[c].skill
  <2>1. /\ Len(releases[s]) \in Nat /\ k \in 1..Len(releases[s])
        /\ DOMAIN releases'[s] = 1..(Len(releases[s]) + 1)
    BY <1>2 DEF R!Shipped
  <2>2. /\ releases[s][k] \in R!Row
        /\ releases'[s][k] = [releases[s][k] EXCEPT !.active = FALSE]
    BY <1>2, <2>1 DEF R!Shipped
  <2>3. QED
    BY <2>1, <2>2 DEF R!Row
<1>3. QED
  BY <1>1, <1>2

\* The release that a transaction commits.
LEMMA NewReleaseEarned ==
  ASSUME NEW mode, DInv(mode), [Next]_vars, faults' = 0 \/ mode = "single",
         Undoubted(mode), NEW c \in Caller, R!Commit(c),
         R!Shipped(c), NEW s, s = calls[c].skill, NEW n, n = Len(releases[s]),
         \A i \in DOMAIN releases[s] : Earned(mode, s, i)'
  PROVE  Earned(mode, s, n + 1)'
<1> PICK v : v = calls[c].version
  OBVIOUS
<1> PICK t : t = calls[c].target[2]
  OBVIOUS
<1>1. /\ s \in Skill /\ n \in Nat /\ DOMAIN releases[s] = 1..n
      /\ calls[c] \in R!Call /\ R!Sound(c) /\ calls[c].pc = "writing"
  BY DEF DInv, R!IInv, R!TypeOK, R!WritesSound, R!Commit, R!MayInsert, R!Shipped
<1>2. v \in Candidate /\ calls[c].kind \in {"gate", "override", "rollback"}
  BY <1>1 DEF R!Call
<1>3. /\ releases'[s][n + 1].version = v
      /\ releases'[s][n + 1].grounds = calls[c].kind
      /\ releases'[s][n + 1].reason = calls[c].reason
  BY <1>1 DEF R!Shipped, R!NewRow
<1>4. /\ calls[c].kind = "gate" => status[v] = "passed"
      /\ calls[c].kind = "override" => calls[c].reason = "text"
      /\ calls[c].kind = "rollback" => calls[c].target[1] = s
  BY <1>1, R!SoundMeans, DeliveryAssumption
<1>5. CASE calls[c].kind = "gate"
  <2>1. Backed(mode, v)
    BY <1>2, <1>4, <1>5, PassedIsBacked
  <2>2. Backed(mode, v)'
    BY <1>2, <2>1, EvidenceStands DEF DInv
  <2>3. Backed(mode, releases[s][n + 1].version)'
    BY <1>3, <2>2 DEF Backed, E!Evidence, E!SettledEvidence
  <2>4. QED
    BY <1>1, <1>3, <1>5, <2>3 DEF Earned, Founded
<1>6. CASE calls[c].kind = "override"
  <2>1. /\ releases'[s][n + 1].grounds = "override"
        /\ releases'[s][n + 1].reason = "text"
    BY <1>3, <1>4, <1>6
  <2>2. Founded(mode, releases[s][n + 1])'
    BY <2>1 DEF Founded
  <2>3. QED
    BY <1>1, <2>2 DEF Earned
<1>7. CASE calls[c].kind = "rollback"
  <2>1. t \in 1..n /\ releases[s][t].version = v
    BY <1>1, <1>4, <1>7 DEF DInv, R!IInv, R!CallsSane
  <2>2. Earned(mode, s, t)'
    BY <1>1, <2>1
  <2>3. releases'[s][t].version = v
    BY <1>1, <2>1, CommittedAsBefore
  <2>4. QED
    BY <1>1, <1>3, <2>1, <2>2, <2>3 DEF Earned
<1>8. QED
  BY <1>2, <1>5, <1>6, <1>7

LEMMA MeritsKept ==
  ASSUME NEW mode, DInv(mode), [Next]_vars
  PROVE  Merits(mode)'
<1> SUFFICES ASSUME faults' = 0 \/ mode = "single", NEW s \in Skill,
                    NEW i \in DOMAIN releases'[s]
             PROVE  Earned(mode, s, i)'
  BY DEF Merits, Undoubted
<1>1. Undoubted(mode)
  <2>1. CASE faults' = 0
    BY <2>1, EvaluationStep, FaultsRaised, E!FaultsStay, DeliveryAssumption
       DEF DInv, Undoubted
  <2>2. QED
    BY <2>1 DEF Undoubted
<1>2. \A q \in Skill : \A j \in DOMAIN releases[q] : Earned(mode, q, j)
  BY <1>1 DEF DInv, Merits
<1>3. CASE releases' = releases
  BY <1>2, <1>3, EarnedStands DEF DInv
<1>4. ASSUME NEW c \in Caller, R!Commit(c) PROVE Earned(mode, s, i)'
  <2>1. R!Shipped(c)
    BY <1>4, R!CommitShips, DeliveryAssumption DEF DInv
  <2>2. ASSUME NEW j \in DOMAIN releases[s] PROVE Earned(mode, s, j)'
    <3>1. /\ DOMAIN releases[s] = 1..Len(releases[s]) /\ Len(releases[s]) \in Nat
      BY LenProperties DEF DInv, R!IInv, R!TypeOK
    <3>2. \A k \in 1..j : k \in DOMAIN releases[s]
      BY <2>2, <3>1
    <3>3. QED
      BY <1>2, <2>1, <2>2, <3>2, CommittedAsBefore, EarnedStands DEF DInv
  <2>3. CASE s # calls[c].skill
    BY <2>1, <2>2, <2>3 DEF R!Shipped
  <2>4. CASE s = calls[c].skill
    <3> PICK n : n = Len(releases[s])
      OBVIOUS
    <3>1. i \in DOMAIN releases[s] \/ i = n + 1
      BY <2>1, <2>4 DEF R!Shipped
    <3>2. Earned(mode, s, n + 1)'
      BY <1>1, <1>4, <2>1, <2>2, <2>4, NewReleaseEarned
    <3>3. QED
      BY <2>2, <3>1, <3>2
  <2>5. QED
    BY <2>3, <2>4
<1>5. QED
  BY <1>3, <1>4, ReleasesStep, R!OnlyCommitsShip, DeliveryAssumption DEF DInv

LEMMA InitiallyEarned == ASSUME NEW mode PROVE Init => DInv(mode)
<1>1. Init => \A s \in Skill : DOMAIN releases[s] = {}
  BY EmptySeq DEF Init, R!Init
<1>2. Init => E!SoleInv
  BY E!SoleInit, DeliveryAssumption DEF Init
<1>3. QED
  BY <1>1, <1>2, Initially DEF DInv, SoleKept, Merits

LEMMA DInvStep ==
  ASSUME NEW mode, DInv(mode), [Next]_vars, mode = "single" => E!OneAtATime
  PROVE  DInv(mode)'
BY EvaluationKept, ReleasesKept, SoleStays, MeritsKept DEF DInv

LEMMA WhatIsEarned ==
  ASSUME NEW mode, DInv(mode), Undoubted(mode)
  PROVE  EarnedProduction
BY DEF DInv, Merits, Earned, Founded, Backed, EarnedProduction

\* Whatever is or was in production was earned, while no call fails: the status
\* that a promotion finds under its lock (0002:36-43) has its evidence in the
\* tables, an override has its reason, and a rollback goes back to such a
\* release of its skill.
THEOREM ProductionEarned == Spec => [](faults = 0 => EarnedProduction)
<1>1. Init => DInv("any")
  BY InitiallyEarned
<1>2. DInv("any") /\ [Next]_vars => DInv("any")'
  BY DInvStep
<1>3. DInv("any") => (faults = 0 => EarnedProduction)
  BY WhatIsEarned DEF Undoubted
<1>4. QED
  BY <1>1, <1>2, <1>3, PTL DEF Spec

LEMMA SingleInvariant == Spec => ([]E!OneAtATime => []DInv("single"))
<1>1. Init => DInv("single")
  BY InitiallyEarned
<1>2. E!OneAtATime /\ DInv("single") /\ [Next]_vars => DInv("single")'
  BY DInvStep
<1>3. QED
  BY <1>1, <1>2, PTL DEF Spec

\* As long as the evaluations of a version come one at a time production stays
\* earned whatever fails: the run that a version passed on is never the one
\* whose reply was lost (services.py:185-189), because its except block ends
\* before the gate is asked.
THEOREM ProductionStaysEarned ==
  Spec => ([]E!OneAtATime => []EarnedProduction)
<1>1. DInv("single") => EarnedProduction
  BY WhatIsEarned DEF Undoubted
<1>2. QED
  BY <1>1, SingleInvariant, PTL

----------------------------------------------------------------------------
(* What evaluations promise of a status, of a decision and of a run, also   *)
(* with promotions and rollbacks beside them.                              *)

\* As long as its evaluations come one at a time, a passed version that is not
\* being evaluated has no failing holdout run, however long a promotion holds
\* up the update of its status (services.py:183-202), after lost replies,
\* failed benchmarks and aborted promotions too; only an evaluation that was
\* cut short takes this away, until the next reaches its end.
THEOREM PassedStaysPassing ==
  Spec => ([]E!OneAtATime => []PassedMeansPassing)
<1>1. DInv("single") => PassedMeansPassing
  BY E!SoleMeans, DeliveryAssumption DEF DInv, SoleKept, PassedMeansPassing
<1>2. QED
  BY <1>1, SingleInvariant, PTL

\* With the same exception, the latest decision and the status agree whenever no
\* evaluation is between the two calls that write them.
THEOREM DecisionIsTheStatus ==
  Spec => ([]E!OneAtATime => []DecisionMatchesStatus)
<1>1. DInv("single") => DecisionMatchesStatus
  BY E!SoleMeans, DeliveryAssumption DEF DInv, SoleKept, DecisionMatchesStatus
<1>2. QED
  BY <1>1, SingleInvariant, PTL

LEMMA RunsOwnedStill ==
  ASSUME E!IInv, E!RunningOwned, [Next]_vars
  PROVE  E!RunningOwned'
<1>1. CASE [E!Next]_E!vars
  BY <1>1, E!StepOwns, DeliveryAssumption
<1>2. CASE FaultBeside
  BY <1>2, FaultsRaised, E!OwnedBesides, DeliveryAssumption DEF FaultBeside
<1>3. QED
  BY <1>1, <1>2, EvaluationStep

\* However many evaluations there are, none leaves a run running behind while
\* no call fails (services.py:183-188).
THEOREM RunsAreClosed == Spec => []RunsEndClosed
<1>1. Init => E!RunningOwned
  BY E!InitOwns, DeliveryAssumption DEF Init
<1>2. E!IInv /\ E!RunningOwned /\ [Next]_vars => E!RunningOwned'
  BY RunsOwnedStill
<1>3. E!RunningOwned => RunsEndClosed
  BY E!OwnedMeans, DeliveryAssumption DEF RunsEndClosed
<1>4. QED
  BY <1>1, <1>2, <1>3, EvaluationsUndisturbed, PTL DEF Spec

=============================================================================
