------------------------ MODULE SingleWorkerProofs -------------------------
(***************************************************************************)
(* What a deployment with one worker (README.md:24-31) adds to the job     *)
(* queue: SoleInv and the properties it contains, for any number of        *)
(* callers, jobs and faults, as long as no call is executed after its      *)
(* caller has given it up.                                                 *)
(*                                                                         *)
(* A statement changes one row; what it does to it is a lemma of           *)
(* JobQueueProofs.  SoleInv is proved part by part: the rows by statement, *)
(* what the worker knows of its row and the registrations by action.       *)
(***************************************************************************)
EXTENDS JobQueueProofs

RowsSole ==
  /\ RowsWereClaimed
  /\ EndedByLastAttempt
  /\ LogsMatchOutcome

Registrations == RegistrationsReported /\ RegisteredAtMostOnce

LEMMA SoleInvParts == SoleInv <=> RowsSole /\ WorkerIsCurrent /\ Registrations
BY DEF SoleInv, RowsSole, Registrations

----------------------------------------------------------------------------
(* The rows.                                                               *)

\* What has to be shown of the one row a statement changes.
RowKeepsWork(j) ==
  /\ OnlyRow(j)
  /\ jobs'[j].status \in {"running"} \cup Ended => jobs'[j].attempts > 0
  /\ jobs'[j].status \in Ended =>
       /\ jobs'[j].endedBy = jobs'[j].attempts
       /\ jobs'[j].workspace = jobs'[j].endedBy

LEMMA OneRowChanges ==
  ASSUME RowsSole, NEW j \in JobId, RowKeepsWork(j)
  PROVE  RowsSole'
BY DEF RowKeepsWork, OnlyRow, RowsSole, RowsWereClaimed, EndedByLastAttempt,
       LogsMatchOutcome

LEMMA RowsStay ==
  ASSUME RowsSole, UNCHANGED jobs
  PROVE  RowsSole'
BY DEF RowsSole, RowsWereClaimed, EndedByLastAttempt, LogsMatchOutcome

\* A statement that leaves status, attempts, workspace and endedBy alone.
LEMMA SameWorkSameRows ==
  ASSUME RowsSole, NEW j \in JobId, OnlyRow(j),
         jobs'[j].status = jobs[j].status,
         jobs'[j].attempts = jobs[j].attempts,
         jobs'[j].workspace = jobs[j].workspace,
         jobs'[j].endedBy = jobs[j].endedBy
  PROVE  RowsSole'
<1>1. RowKeepsWork(j)
  BY DEF RowKeepsWork, RowsSole, RowsWereClaimed, EndedByLastAttempt,
         LogsMatchOutcome
<1>2. QED
  BY <1>1, OneRowChanges

LEMMA InsertKeepsRows ==
  ASSUME IInv, RowsSole, NEW x \in RequestState, NEW j \in JobId, Insert(x, j)
  PROVE  RowsSole'
<1>1. RowKeepsWork(j)
  BY InsertDoes DEF RowKeepsWork, Ended
<1>2. QED
  BY <1>1, OneRowChanges

LEMMA ClaimKeepsRows ==
  ASSUME IInv, RowsSole, NEW x \in WorkerState, NEW j \in JobId, NEW calls,
         ClaimRow(x, j, calls)
  PROVE  RowsSole'
<1>1. jobs[j].attempts \in Nat
  BY IInvTypes
<1>2. RowKeepsWork(j)
  BY <1>1, ClaimDoes DEF RowKeepsWork, Ended
<1>3. QED
  BY <1>2, OneRowChanges

\* The worker ends the attempt its row counts and names.
LEMMA FinishKeepsRows ==
  ASSUME IInv, RowsSole, NEW w \in Worker, Current(w),
         NEW x \in WorkerState, x = workers[w], Held(x),
         NEW outcome \in Ended, FinishRow(x, outcome),
         x.pc \notin {"down", "idle", "claimed"}
  PROVE  RowsSole'
<1>1. PICK j \in JobId : j = x.job
  BY FinishDoes
<1>2. /\ jobs[j].attempts = x.attempt
      /\ jobs[j].workspace = x.attempt
  BY <1>1 DEF Current, JobOf
<1>3. jobs[j].attempts > 0
  BY <1>1, FinishDoes DEF RowsSole, RowsWereClaimed
<1>4. RowKeepsWork(j)
  BY <1>1, <1>2, <1>3, FinishDoes DEF RowKeepsWork, Ended
<1>5. QED
  BY <1>4, OneRowChanges

LEMMA WorkspaceKeepsRows ==
  ASSUME IInv, RowsSole, NEW w \in Worker, Current(w),
         NEW x \in WorkerState, x = workers[w], Held(x), PointWorkspace(x)
  PROVE  RowsSole'
<1>1. PICK j \in JobId : j = x.job
  BY WorkspaceDoes
<1>2. jobs[j].status = "running"
  BY <1>1 DEF Current, PointWorkspace, JobOf
<1>3. jobs[j].attempts > 0
  BY <1>2 DEF RowsSole, RowsWereClaimed
<1>4. RowKeepsWork(j)
  BY <1>1, <1>2, <1>3, WorkspaceDoes DEF RowKeepsWork, Ended
<1>5. QED
  BY <1>4, OneRowChanges

LEMMA PerformKeepsRows ==
  ASSUME IInv, RowsSole, NEW w \in Worker, Current(w),
         NEW x \in WorkerState, x = workers[w], Held(x), NEW calls,
         Perform(x, calls) \/ UNCHANGED <<jobs, registered>>
  PROVE  RowsSole'
<1>1. CASE \E j \in JobId : ClaimRow(x, j, calls)
  BY <1>1, ClaimKeepsRows
<1>2. CASE PointWorkspace(x)
  BY <1>2, WorkspaceKeepsRows
<1>3. CASE RegisterPackage(x)
  BY <1>3, RowsStay DEF RegisterPackage
<1>4. CASE x.pc = "registered" /\ FinishRow(x, "succeeded")
  BY <1>4, FinishKeepsRows DEF Ended
<1>5. CASE x.pc \in {"failing", "cancelling"} /\ FinishRow(x, "failed")
  BY <1>5, FinishKeepsRows DEF Ended
<1>6. CASE UNCHANGED <<jobs, registered>>
  BY <1>6, RowsStay
<1>7. QED
  BY <1>1, <1>2, <1>3, <1>4, <1>5, <1>6 DEF Perform

----------------------------------------------------------------------------
(* What the worker knows of its row.                                       *)

\* A worker that gives its job up knows nothing of it any more.
LEMMA NothingToKnow ==
  ASSUME IInv, NEW w \in Worker,
         Quit(w) \/ workers' = [workers EXCEPT ![w] = Idle]
  PROVE  /\ Current(w)'
         /\ workers'[w].pc \in {"down", "idle"}
<1>1. workers \in [Worker -> WorkerState]
  BY IInvTypes
<1>2. workers'[w].pc \in {"down", "idle"}
  BY <1>1 DEF Quit, Down, Idle
<1>3. QED
  BY <1>2 DEF Current

LEMMA WorkerStepCurrent ==
  ASSUME IInv, SoleWorker, WorkerIsCurrent, NEW w \in Worker,
         Start(w) \/ WorkerStep(w)
  PROVE  WorkerIsCurrent'
<1> SUFFICES Current(w)'
  BY DEF SoleWorker, WorkerIsCurrent
<1>0. workers \in [Worker -> WorkerState]
  BY IInvTypes
<1>x. PICK x \in WorkerState : x = workers[w] /\ Held(x)
  BY WorkerStepIs
<1> DEFINE calls == Beside(w)
<1> HIDE DEF calls
<1>1. CASE Claim(w)
  <2>1. PICK j \in JobId :
          /\ ClaimRow(x, j, calls)
          /\ workers' = [workers EXCEPT ![w] =
               [pc |-> "claimed", job |-> j, attempt |-> jobs[j].attempts + 1]]
    BY <1>1, <1>x DEF Claim, calls
  <2>2. /\ workers'[w].pc = "claimed" /\ workers'[w].job = j
        /\ workers'[w].attempt = jobs[j].attempts + 1
    BY <1>0, <2>1
  <2>3. QED
    BY <2>1, <2>2, ClaimDoes DEF Current, JobOf
<1>2. CASE OpenWorkspace(w)
  <2>1. PointWorkspace(x) /\ Goto(w, "working") /\ x.pc = "claimed"
    BY <1>2, <1>x DEF OpenWorkspace, PointWorkspace
  <2>2. Current(w)
    BY DEF WorkerIsCurrent
  <2>3. QED
    BY <1>x, <2>1, <2>2, WorkspaceDoes, GoingOn DEF Current, JobOf
<1>3. CASE Register(w) \/ BodyFails(w) \/ FinishRefused(w)
  <2>1. /\ UNCHANGED jobs
        /\ \/ Goto(w, "registered") /\ workers[w].pc = "working"
           \/ Goto(w, "failing") /\ workers[w].pc \in {"working", "registered"}
    BY <1>3 DEF Register, RegisterPackage, BodyFails, FinishRefused
  <2>2. Current(w)
    BY DEF WorkerIsCurrent
  <2>3. QED
    BY <2>1, <2>2, GoingOn DEF Current, JobOf
<1>4. CASE Start(w) \/ FinishSucceeded(w) \/ FinishFailed(w)
             \/ RecordInterrupted(w)
  <2>1. Quit(w) \/ workers' = [workers EXCEPT ![w] = Idle]
    BY <1>4 DEF Start, FinishSucceeded, FinishFailed, RecordInterrupted
  <2>2. QED
    BY <2>1, NothingToKnow
<1>5. QED
  BY <1>1, <1>2, <1>3, <1>4 DEF WorkerStep

LEMMA FaultCurrent ==
  ASSUME IInv, SoleWorker, WorkerIsCurrent, NEW w \in Worker,
         Crash(w) \/ Stop(w) \/ CallFails(w)
  PROVE  WorkerIsCurrent'
<1> SUFFICES Current(w)'
  BY DEF SoleWorker, WorkerIsCurrent
<1>x. PICK x \in WorkerState : x = workers[w] /\ Held(x)
  BY FaultIs
<1> DEFINE calls == Beside(w)
<1> HIDE DEF calls
<1>1. Perform(x, calls) \/ UNCHANGED jobs
  BY <1>x, FaultIs DEF calls
<1>2. CASE Quit(w)
  BY <1>2, NothingToKnow
<1>3. CASE InTry(w) /\ (Goto(w, "cancelling") \/ Goto(w, "failing"))
  <2>1. /\ x.job \in JobId
        /\ jobs'[x.job].attempts = jobs[x.job].attempts
        /\ jobs'[x.job].workspace = jobs[x.job].workspace
    <3>1. x.job \in JobId
      BY <1>3, <1>x DEF Held, InTry
    <3>2. UNCHANGED jobs \/ FinishRow(x, "succeeded")
      BY <1>1, <1>3, <1>x DEF Perform, InTry, ClaimRow, PointWorkspace,
                              RegisterPackage
    <3>3. QED
      BY <1>3, <1>x, <3>1, <3>2, FinishDoes DEF InTry
  <2>2. Current(w)
    BY DEF WorkerIsCurrent
  <2>3. QED
    BY <1>3, <1>x, <2>1, <2>2, GoingOn DEF Current, JobOf, InTry
<1>4. QED
  BY <1>2, <1>3 DEF Crash, Stop, CallFails

----------------------------------------------------------------------------
(* The registrations.                                                      *)

LEMMA RegisteredJobs == IInv => \A p \in registered : p[1] \in JobId
BY DEF IInv, TypeOK

\* Registrations of the sole worker, before the first fault: what is to show.
Reported(w) ==
  /\ \A p \in registered :
       \/ jobs[p[1]].status = "succeeded"
       \/ workers[w].pc = "registered" /\ JobOf(w) = p[1]
  /\ workers[w].pc # "cancelling"
  /\ workers[w].pc \in {"claimed", "working", "failing"} =>
       /\ jobs[JobOf(w)].status = "running"
       /\ \A p \in registered : p[1] # JobOf(w)
  /\ \A p \in registered :
       /\ jobs[p[1]].status # "failed"
       /\ \A q \in registered : p[1] = q[1] => p = q

LEMMA SoleReport ==
  ASSUME SoleWorker, NEW w \in Worker
  PROVE  Registrations <=> (faults = 0 => Reported(w))
BY DEF SoleWorker, Registrations, RegistrationsReported, RegisteredAtMostOnce,
       Reported

LEMMA WorkerStepReports ==
  ASSUME IInv, SoleWorker, WorkerIsCurrent, Registrations, NEW w \in Worker,
         Start(w) \/ WorkerStep(w)
  PROVE  Registrations'
<1>0. faults' = faults
  BY WorkerStepIs
<1>x. PICK x \in WorkerState : x = workers[w] /\ Held(x)
  BY WorkerStepIs
<1> DEFINE calls == Beside(w)
<1> HIDE DEF calls
<1>1. (faults = 0 => Reported(w)') => Registrations'
  BY <1>0 DEF SoleWorker, Registrations, RegistrationsReported,
              RegisteredAtMostOnce, Reported
<1>2. SUFFICES ASSUME faults = 0 PROVE Reported(w)'
  BY <1>1
<1>3. /\ Reported(w) /\ Current(w)
      /\ workers \in [Worker -> WorkerState]
      /\ \A p \in registered : p[1] \in JobId
  BY <1>2, SoleReport, IInvTypes, RegisteredJobs DEF WorkerIsCurrent
<1>4. CASE Start(w)
  BY <1>3, <1>4 DEF Start, Idle, Reported
<1>5. CASE Claim(w)
  <2>1. PICK j \in JobId :
          /\ ClaimRow(x, j, calls)
          /\ workers' = [workers EXCEPT ![w] =
               [pc |-> "claimed", job |-> j, attempt |-> jobs[j].attempts + 1]]
    BY <1>5, <1>x DEF Claim, calls
  <2>2. workers'[w].pc = "claimed" /\ workers'[w].job = j
    BY <1>3, <2>1
  <2>3. \A p \in registered : jobs[p[1]].status = "succeeded"
    BY <1>3, <1>x, <2>1 DEF Reported, ClaimRow
  <2>4. \A p \in registered : p[1] # j
    BY <2>1, <2>3, ClaimDoes
  <2>5. registered' = registered /\ jobs'[j].status = "running" /\ OnlyRow(j)
    BY <2>1, ClaimDoes
  <2>6. \A p \in registered : jobs'[p[1]] = jobs[p[1]]
    BY <1>3, <2>4, <2>5 DEF OnlyRow
  <2>7. QED
    BY <1>3, <2>2, <2>3, <2>4, <2>5, <2>6 DEF Reported, JobOf
<1>6. CASE OpenWorkspace(w)
  <2>1. PointWorkspace(x) /\ Goto(w, "working") /\ x.pc = "claimed"
    BY <1>6, <1>x DEF OpenWorkspace, PointWorkspace
  <2>2. /\ registered' = registered
        /\ \A j \in JobId : jobs'[j].status = jobs[j].status
        /\ JobOf(w) \in JobId
    BY <1>x, <2>1, WorkspaceDoes DEF OnlyRow, JobOf
  <2>3. workers'[w].pc = "working" /\ workers'[w].job = workers[w].job
    BY <2>1, GoingOn DEF JobOf
  <2>4. QED
    BY <1>3, <1>x, <2>1, <2>2, <2>3 DEF Reported, JobOf
<1>7. CASE Register(w)
  <2>1. RegisterPackage(workers[w]) /\ Goto(w, "registered")
          /\ workers[w].pc = "working"
    BY <1>7 DEF Register, RegisterPackage
  <2>2. workers'[w].pc = "registered" /\ workers'[w].job = workers[w].job
    BY <2>1, GoingOn DEF JobOf
  <2>3. /\ jobs' = jobs
        /\ registered' = registered \cup {<<JobOf(w), workers[w].attempt>>}
    BY <2>1 DEF RegisterPackage, JobOf
  <2>4. /\ jobs[JobOf(w)].status = "running"
        /\ \A p \in registered : p[1] # JobOf(w)
    BY <1>3, <2>1 DEF Reported
  <2>5. QED
    BY <1>3, <2>1, <2>2, <2>3, <2>4 DEF Reported, JobOf
<1>8. CASE BodyFails(w)
  <2>1. Goto(w, "failing") /\ workers[w].pc = "working"
        /\ UNCHANGED <<jobs, registered>>
    BY <1>8 DEF BodyFails
  <2>2. workers'[w].pc = "failing" /\ workers'[w].job = workers[w].job
    BY <2>1, GoingOn DEF JobOf
  <2>3. QED
    BY <1>3, <2>1, <2>2 DEF Reported, JobOf
<1>9. CASE FinishSucceeded(w)
  <2>1. FinishRow(x, "succeeded") /\ x.pc = "registered" /\ JobOf(w) = x.job
        /\ workers' = [workers EXCEPT ![w] = Idle]
    BY <1>9, <1>x DEF FinishSucceeded, JobOf
  <2>2. /\ JobOf(w) \in JobId /\ OnlyRow(JobOf(w))
        /\ registered' = registered
        /\ jobs'[JobOf(w)].status = "succeeded"
    BY <1>x, <2>1, FinishDoes
  <2>3. workers'[w].pc = "idle"
    BY <1>3, <2>1 DEF Idle
  <2>4. \A p \in registered : jobs'[p[1]].status = "succeeded"
    BY <1>3, <1>x, <2>1, <2>2 DEF Reported, OnlyRow
  <2>5. QED
    BY <1>3, <2>2, <2>3, <2>4 DEF Reported
<1>10. CASE FinishRefused(w) \/ RecordInterrupted(w)
  BY <1>3, <1>10 DEF FinishRefused, Finishable, RecordInterrupted, Reported,
                     Current
<1>11. CASE FinishFailed(w)
  <2>1. workers[w].pc = "failing" /\ Finishable(w)
    BY <1>3, <1>11 DEF FinishFailed, Reported, Finishable
  <2>2. /\ FinishRow(x, "failed") /\ JobOf(w) = x.job /\ x.pc = "failing"
        /\ workers' = [workers EXCEPT ![w] = Idle]
    BY <1>11, <1>x, <2>1 DEF FinishFailed, JobOf
  <2>3. /\ JobOf(w) \in JobId /\ OnlyRow(JobOf(w))
        /\ registered' = registered
    BY <1>x, <2>1, <2>2, FinishDoes
  <2>4. workers'[w].pc = "idle"
    BY <1>3, <2>2 DEF Idle
  <2>5. \A p \in registered : jobs'[p[1]] = jobs[p[1]]
    BY <1>3, <2>1, <2>3 DEF Reported, OnlyRow
  <2>6. QED
    BY <1>3, <2>1, <2>3, <2>4, <2>5 DEF Reported
<1>12. QED
  BY <1>4, <1>5, <1>6, <1>7, <1>8, <1>9, <1>10, <1>11 DEF WorkerStep

----------------------------------------------------------------------------
(* Callers and leases do not interfere.                                    *)

\* A row keeps what the worker relies on; it may have been inserted.
SameWork ==
  \A j \in JobId :
    /\ jobs'[j].attempts = jobs[j].attempts
    /\ jobs'[j].workspace = jobs[j].workspace
    /\ \/ jobs'[j].status = jobs[j].status
       \/ ~Present(j) /\ jobs'[j].status = "queued"

LEMMA WorkerUndisturbed ==
  ASSUME IInv, WorkerIsCurrent, Registrations, SameWork,
         UNCHANGED <<workers, registered>>, faults' = 0 => faults = 0
  PROVE  WorkerIsCurrent' /\ Registrations'
<1>1. ASSUME NEW w \in Worker, workers[w].pc \notin {"down", "idle"}
      PROVE  JobOf(w) \in JobId /\ Present(JobOf(w))
  <2>1. /\ JobOf(w) \in JobId
        /\ workers[w].attempt \in 1..jobs[JobOf(w)].attempts
    BY <1>1 DEF IInv, AttemptsHeld, Held, JobOf
  <2>2. jobs[JobOf(w)].attempts # 0
    BY <2>1, IInvTypes
  <2>3. QED
    BY <2>1, <2>2 DEF IInv, RowsConsistent, Present
<1>2. WorkerIsCurrent'
  BY <1>1 DEF WorkerIsCurrent, Current, SameWork, JobOf
<1>3. Registrations'
  <2> SUFFICES ASSUME faults = 0
               PROVE  Registrations'
    BY DEF Registrations, RegistrationsReported, RegisteredAtMostOnce
  <2>1. \A p \in registered : p[1] \in JobId
    BY RegisteredJobs
  <2>2. \A p \in registered : /\ jobs[p[1]].status # "failed"
                              /\ \A q \in registered : p[1] = q[1] => p = q
    BY DEF Registrations, RegisteredAtMostOnce
  <2>3. RegisteredAtMostOnce'
    BY <2>1, <2>2 DEF RegisteredAtMostOnce, SameWork
  <2>4. RegistrationsReported'
    BY <1>1, <2>1 DEF Registrations, RegistrationsReported, SameWork, Present,
                      JobOf
  <2>5. QED
    BY <2>3, <2>4 DEF Registrations
<1>4. QED
  BY <1>2, <1>3

LEMMA RequestStepSole ==
  ASSUME IInv, SoleInv, NEW r \in Request, RequestNext(r)
  PROVE  SoleInv'
<1>1. RowsSole /\ WorkerIsCurrent /\ Registrations
  BY SoleInvParts
<1>2. /\ UNCHANGED <<workers, registered>>
      /\ faults' = faults \/ faults' = faults + 1
  BY RequestStepIs
<1>3. faults' = 0 => faults = 0
  BY <1>2, IInvTypes
<1>x. PICK x \in RequestState : x = requests[r] /\ Known(x)
  BY RequestStepIs
<1>4. \/ UNCHANGED jobs
      \/ Announce(x)
      \/ \E j \in JobId : Insert(x, j)
  BY <1>x, RequestStepIs DEF Post
<1>5. SameWork /\ RowsSole'
  <2>1. CASE UNCHANGED jobs
    BY <1>1, <2>1, RowsStay DEF SameWork
  <2>2. CASE Announce(x)
    <3>1. PICK j \in JobId :
             /\ OnlyRow(j)
             /\ jobs'[j].status = jobs[j].status
             /\ jobs'[j].attempts = jobs[j].attempts
             /\ jobs'[j].workspace = jobs[j].workspace
             /\ jobs'[j].endedBy = jobs[j].endedBy
      BY <1>x, <2>2, AnnounceDoes
    <3>2. RowsSole'
      BY <1>1, <3>1, SameWorkSameRows
    <3>3. QED
      BY <3>1, <3>2 DEF SameWork, OnlyRow
  <2>3. CASE \E j \in JobId : Insert(x, j)
    BY <1>1, <2>3, InsertDoes, InsertKeepsRows DEF SameWork, OnlyRow
  <2>4. QED
    BY <1>4, <2>1, <2>2, <2>3
<1>6. WorkerIsCurrent' /\ Registrations'
  BY <1>1, <1>2, <1>3, <1>5, WorkerUndisturbed
<1>7. QED
  BY <1>5, <1>6 DEF SoleInv, RowsSole, Registrations

LEMMA LeaseSole ==
  ASSUME IInv, SoleInv, NEW j \in JobId, LeaseExpires(j)
  PROVE  SoleInv'
<1>1. RowsSole /\ WorkerIsCurrent /\ Registrations
  BY SoleInvParts
<1>2. RowsSole'
  BY <1>1, LeaseDoes, SameWorkSameRows
<1>3. SameWork
  BY LeaseDoes DEF SameWork, OnlyRow
<1>4. WorkerIsCurrent' /\ Registrations'
  BY <1>1, <1>3, WorkerUndisturbed DEF LeaseExpires
<1>5. QED
  BY <1>2, <1>4 DEF SoleInv, RowsSole, Registrations

----------------------------------------------------------------------------
(* The invariant and its theorems.                                         *)

\* Without the fault "late", no call outlives its caller.
NothingLate ==
  /\ \A n \in 1..MaxFaults : lateCalls[n].pc = "down"
  /\ \A n \in 1..MaxFaults : latePosts[n].pc = "idle"

LEMMA NothingLateStep ==
  ASSUME IInv, NoLateCalls, NothingLate, [Next]_vars
  PROVE  NothingLate' /\ ~\E n \in 1..MaxFaults : LateCall(n) \/ LatePost(n)
<1>1. \A n \in 1..MaxFaults : ~LateCall(n)
  BY DEF NothingLate, LateCall, Perform, ClaimRow, PointWorkspace,
         RegisterPackage
<1>2. \A n \in 1..MaxFaults : ~LatePost(n)
  BY DEF NothingLate, LatePost, Post, Insert, Announce
<1>3. UNCHANGED late
  <2>1. ASSUME NEW r \in Request, RequestNext(r) PROVE UNCHANGED late
    BY <2>1 DEF RequestNext, Submit, Lookup, CreateJob, AuditQueued,
                RequestFails, NoLateCalls, late
  <2>2. ASSUME NEW w \in Worker, Start(w) \/ WorkerStep(w)
        PROVE  UNCHANGED late
    BY <2>2, WorkerStepIs
  <2>3. ASSUME NEW w \in Worker, Crash(w) \/ Stop(w) \/ CallFails(w)
        PROVE  UNCHANGED late
    BY <2>3 DEF Crash, Stop, CallFails, Fault, NoLateCalls, late
  <2>4. QED
    BY <1>1, <1>2, <2>1, <2>2, <2>3 DEF Next, LeaseExpires, vars, late
<1>4. QED
  BY <1>1, <1>2, <1>3 DEF NothingLate, late

LEMMA SoleStep ==
  ASSUME IInv, SoleWorker, NoLateCalls, NothingLate, SoleInv, [Next]_vars
  PROVE  SoleInv'
<1>0. RowsSole /\ WorkerIsCurrent /\ Registrations
  BY SoleInvParts
<1>1. ASSUME NEW w \in Worker, Start(w) \/ WorkerStep(w) PROVE SoleInv'
  <2>1. RowsSole'
    BY <1>0, <1>1, WorkerStepIs, PerformKeepsRows DEF WorkerIsCurrent
  <2>2. WorkerIsCurrent' /\ Registrations'
    BY <1>0, <1>1, WorkerStepCurrent, WorkerStepReports
  <2>3. QED
    BY <2>1, <2>2 DEF SoleInv, RowsSole, Registrations
<1>2. ASSUME NEW w \in Worker, Crash(w) \/ Stop(w) \/ CallFails(w)
      PROVE  SoleInv'
  <2>1. RowsSole'
    BY <1>0, <1>2, FaultIs, PerformKeepsRows DEF WorkerIsCurrent
  <2>2. WorkerIsCurrent'
    BY <1>0, <1>2, FaultCurrent
  <2>3. faults' # 0
    BY <1>2, FaultIs, IInvTypes
  <2>4. QED
    BY <2>1, <2>2, <2>3 DEF SoleInv, RowsSole, RegistrationsReported,
                            RegisteredAtMostOnce
<1>3. CASE \E r \in Request : RequestNext(r)
  BY <1>3, RequestStepSole
<1>4. CASE \E j \in JobId : LeaseExpires(j)
  BY <1>4, LeaseSole
<1>5. CASE UNCHANGED vars
  <2>1. RowsSole' /\ SameWork
    BY <1>0, <1>5, RowsStay DEF vars, SameWork
  <2>2. WorkerIsCurrent' /\ Registrations'
    BY <1>0, <1>5, <2>1, WorkerUndisturbed DEF vars
  <2>3. QED
    BY <2>1, <2>2 DEF SoleInv, RowsSole, Registrations
<1>6. QED
  BY <1>1, <1>2, <1>3, <1>4, <1>5, NothingLateStep DEF Next

LEMMA InitSole == Init => SoleInv /\ NothingLate
<1>1. Init => SoleInv
  BY DEF Init, SoleInv, WorkerIsCurrent, Current, Down, RowsWereClaimed,
         RegistrationsReported, EndedByLastAttempt, LogsMatchOutcome,
         RegisteredAtMostOnce, Ended
<1>2. Init => NothingLate
  BY DEF Init, NothingLate, Down, Quiet
<1>3. QED
  BY <1>1, <1>2

\* SoleInv is an invariant of a deployment with one worker.
THEOREM SoleWorkerInvariant == SoleWorker /\ NoLateCalls => (Spec => []SoleInv)
<1> SUFFICES ASSUME SoleWorker, NoLateCalls PROVE Spec => []SoleInv
  OBVIOUS
<1>1. IInv /\ NothingLate /\ SoleInv /\ [Next]_vars => SoleInv' /\ NothingLate'
  BY SoleStep, NothingLateStep
<1>2. QED
  BY InitSole, <1>1, QueueInvariant, PTL DEF Spec

\* With one worker an ended job was ended by its last attempt: nobody ends the
\* attempt of somebody else.
THEOREM LastAttemptDecides == SoleWorker /\ NoLateCalls => (Spec => []EndedByLastAttempt)
<1>1. SoleInv => EndedByLastAttempt
  BY DEF SoleInv
<1>2. QED
  BY <1>1, SoleWorkerInvariant, PTL

\* With one worker the logs of an ended job are those of the attempt that ended
\* it.
THEOREM LogsOfTheOutcome == SoleWorker /\ NoLateCalls => (Spec => []LogsMatchOutcome)
<1>1. SoleInv => LogsMatchOutcome
  BY DEF SoleInv
<1>2. QED
  BY <1>1, SoleWorkerInvariant, PTL

\* With one worker, before the first fault, a job registers at most one package
\* and a failed job none.
THEOREM OnePackagePerJob == SoleWorker /\ NoLateCalls => (Spec => []RegisteredAtMostOnce)
<1>1. SoleInv => RegisteredAtMostOnce
  BY DEF SoleInv
<1>2. QED
  BY <1>1, SoleWorkerInvariant, PTL

=============================================================================
