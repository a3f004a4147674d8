--------------------------- MODULE JobQueueProofs ---------------------------
(***************************************************************************)
(* Theorems about JobQueue, for any number of workers, callers and jobs.   *)
(*                                                                         *)
(* The variables jobs and registered (the data) change in few ways, each   *)
(* shared by several actions; requests and workers (the control) only see  *)
(* of those changes that they keep what is already known of a row.  So     *)
(* IInv is proved in two halves: DataOK by the kind of statement the       *)
(* database executes, the rest by action, from DataKept.                   *)
(***************************************************************************)
EXTENDS JobQueue, TLAPS, FiniteSetTheorems

RowsTyped ==
  /\ jobs \in [JobId -> JobRow]
  /\ registered \subseteq JobId \X Nat

DataOK ==
  /\ RowsTyped
  /\ RowsConsistent
  /\ OutputWasRegistered
  /\ KeysUnique

\* What a step keeps of the rows, whatever statement it executes.
DataKept ==
  /\ registered \subseteq registered'
  /\ \A j \in JobId :
       /\ jobs'[j].attempts >= jobs[j].attempts
       /\ Present(j) => Present(j)' /\ jobs'[j].key = jobs[j].key
       /\ jobs[j].status \in Ended =>
            /\ jobs'[j].status = jobs[j].status
            /\ jobs'[j].endedBy = jobs[j].endedBy
            /\ jobs'[j].attempts = jobs[j].attempts

LEMMA IInvData == IInv => DataOK
BY DEF IInv, TypeOK, DataOK, RowsTyped

----------------------------------------------------------------------------
(* The statements the database executes.                                   *)

LEMMA NothingExecuted ==
  ASSUME DataOK, UNCHANGED <<jobs, registered>>
  PROVE  DataOK' /\ DataKept
<1>1. DataOK'
  BY DEF DataOK, RowsTyped, RowsConsistent, OutputWasRegistered, KeysUnique,
         Present
<1>2. DataKept
  <2>1. \A j \in JobId : jobs[j].attempts \in Nat
    BY DEF DataOK, RowsTyped, JobRow
  <2>2. QED
    BY <2>1 DEF DataKept, Present
<1>3. QED
  BY <1>1, <1>2

\* What has to be shown of a row that replaces row j.
MayReplace(j, row) ==
  /\ row \in JobRow
  /\ row.lease # "none" <=> row.status = "running"
  /\ row.status \in {"absent", "queued"} => row.attempts = 0
  /\ row.status = "succeeded" => <<j, row.endedBy>> \in registered
  /\ Present(j) => row.status # "absent" /\ row.key = jobs[j].key
  /\ ~Present(j) /\ row.status # "absent" => Holding(row.key) = {}
  /\ row.attempts >= jobs[j].attempts
  /\ jobs[j].status \in Ended =>
       /\ row.status = jobs[j].status
       /\ row.endedBy = jobs[j].endedBy
       /\ row.attempts = jobs[j].attempts

LEMMA RowReplaced ==
  ASSUME DataOK, NEW j \in JobId, NEW row, MayReplace(j, row),
         jobs' = [jobs EXCEPT ![j] = row],
         registered' = registered
  PROVE  DataOK' /\ DataKept
<1> USE DEF MayReplace
<1>0. jobs \in [JobId -> JobRow]
  BY DEF DataOK, RowsTyped
<1>a. /\ jobs'[j] = row
      /\ \A i \in JobId \ {j} : jobs'[i] = jobs[i]
  BY <1>0
<1>1. RowsTyped'
  BY <1>0 DEF DataOK, RowsTyped
<1>2. RowsConsistent'
  <2> SUFFICES ASSUME NEW i \in JobId
               PROVE  /\ jobs'[i].lease # "none" <=> jobs'[i].status = "running"
                      /\ jobs'[i].status \in {"absent", "queued"} =>
                           jobs'[i].attempts = 0
    BY DEF RowsConsistent
  <2>1. CASE i = j
    BY <2>1, <1>a
  <2>2. CASE i # j
    BY <2>2, <1>a DEF DataOK, RowsConsistent
  <2>3. QED
    BY <2>1, <2>2
<1>3. OutputWasRegistered'
  <2> SUFFICES ASSUME NEW i \in JobId, jobs'[i].status = "succeeded"
               PROVE  <<i, jobs'[i].endedBy>> \in registered
    BY DEF OutputWasRegistered
  <2>1. CASE i = j
    BY <2>1, <1>a
  <2>2. CASE i # j
    BY <2>2, <1>a DEF DataOK, OutputWasRegistered
  <2>3. QED
    BY <2>1, <2>2
<1>4. KeysUnique'
  <2> SUFFICES ASSUME NEW h \in JobId, NEW i \in JobId,
                      Present(h)', Present(i)',
                      jobs'[h].key = jobs'[i].key, jobs'[h].key # NoKey
               PROVE  h = i
    BY DEF KeysUnique
  <2>1. CASE h # j /\ i # j
    BY <2>1, <1>a DEF DataOK, KeysUnique, Present
  <2>2. CASE Present(j)
    BY <2>2, <1>a DEF DataOK, KeysUnique, Present
  <2>3. CASE h = j /\ i # j /\ ~Present(j)
    <3>1. i \in Holding(row.key)
      BY <2>3, <1>a DEF Holding, Present
    <3>2. QED
      BY <3>1, <2>3, <1>a DEF Present
  <2>4. CASE i = j /\ h # j /\ ~Present(j)
    <3>1. h \in Holding(row.key)
      BY <2>4, <1>a DEF Holding, Present
    <3>2. QED
      BY <3>1, <2>4, <1>a DEF Present
  <2>5. QED
    BY <2>1, <2>2, <2>3, <2>4
<1>5. DataKept
  <2>1. \A i \in JobId : jobs[i].attempts \in Nat
    BY <1>0 DEF JobRow
  <2>2. QED
    BY <2>1, <1>a DEF DataKept, Present
<1>6. QED
  BY <1>1, <1>2, <1>3, <1>4, <1>5 DEF DataOK

\* A row that differs in its workspace or its announcement only.
LEMMA SameRowMayReplace ==
  ASSUME DataOK, NEW j \in JobId, NEW row \in JobRow,
         row.status = jobs[j].status, row.lease = jobs[j].lease,
         row.attempts = jobs[j].attempts, row.key = jobs[j].key,
         row.endedBy = jobs[j].endedBy
  PROVE  MayReplace(j, row)
<1>1. row.attempts \in Nat
  BY DEF JobRow
<1>2. QED
  BY <1>1 DEF MayReplace, DataOK, RowsConsistent, OutputWasRegistered, Present

\* A statement is executed for a caller that waits, or for none any more: x is
\* where that caller is, or was.
LEMMA InsertExecuted ==
  ASSUME IInv, NEW x \in RequestState, NEW j \in JobId, Insert(x, j),
         registered' = registered
  PROVE  DataOK' /\ DataKept
<1> DEFINE row == [jobs[j] EXCEPT !.status = "queued", !.key = x.key]
<1>1. DataOK
  BY IInvData
<1>2. jobs[j] \in JobRow /\ x.key \in Key \cup {NoKey}
  BY DEF IInv, TypeOK, RequestState
<1>3. row \in JobRow
  BY <1>2 DEF JobRow
<1>4. jobs[j].status = "absent" /\ jobs[j].lease = "none"
      /\ jobs[j].attempts = 0
  BY <1>2 DEF Insert, Place, Present, IInv, RowsConsistent, JobRow
<1>5. /\ row.status = "queued" /\ row.lease = "none" /\ row.attempts = 0
      /\ row.key = x.key
  BY <1>2, <1>4 DEF JobRow
<1>6. jobs' = [jobs EXCEPT ![j] = row] /\ Holding(row.key) = {}
  BY <1>5 DEF Insert
<1>7. ~Present(j) /\ jobs[j].status \notin Ended
  BY <1>4 DEF Present, Ended
<1> HIDE DEF row
<1>8. MayReplace(j, row)
  BY <1>3, <1>4, <1>5, <1>6, <1>7 DEF MayReplace
<1>9. QED
  BY <1>1, <1>6, <1>8, RowReplaced

LEMMA AnnounceExecuted ==
  ASSUME IInv, NEW x \in RequestState, Known(x), Announce(x),
         registered' = registered
  PROVE  DataOK' /\ DataKept
<1> DEFINE row == [jobs[x.job] EXCEPT !.announced = TRUE]
<1>1. DataOK
  BY IInvData
<1>2. x.job \in JobId /\ jobs[x.job] \in JobRow
  BY DEF IInv, TypeOK, Known, Announce
<1>3. row \in JobRow /\ jobs' = [jobs EXCEPT ![x.job] = row]
  BY <1>2 DEF JobRow, Announce
<1>4. /\ row.status = jobs[x.job].status /\ row.lease = jobs[x.job].lease
      /\ row.attempts = jobs[x.job].attempts /\ row.key = jobs[x.job].key
      /\ row.endedBy = jobs[x.job].endedBy
  BY <1>2 DEF JobRow
<1> HIDE DEF row
<1>5. MayReplace(x.job, row)
  BY <1>1, <1>2, <1>3, <1>4, SameRowMayReplace
<1>6. QED
  BY <1>1, <1>2, <1>3, <1>5, RowReplaced

LEMMA PostExecuted ==
  ASSUME IInv, NEW x \in RequestState, Known(x), Post(x),
         registered' = registered
  PROVE  DataOK' /\ DataKept
BY InsertExecuted, AnnounceExecuted DEF Post

LEMMA ClaimExecuted ==
  ASSUME IInv, NEW x \in WorkerState, NEW j \in JobId, NEW calls,
         ClaimRow(x, j, calls)
  PROVE  DataOK' /\ DataKept /\ jobs'[j].attempts = jobs[j].attempts + 1
<1> DEFINE row == [jobs[j] EXCEPT !.status = "running", !.lease = "live",
                                  !.attempts = jobs[j].attempts + 1]
<1>1. DataOK /\ jobs \in [JobId -> JobRow]
  BY IInvData DEF IInv, TypeOK
<1>2. jobs[j] \in JobRow /\ jobs[j].attempts + 1 \in Nat
  BY <1>1 DEF JobRow
<1>3. row \in JobRow
  BY <1>2 DEF JobRow
<1>4. jobs' = [jobs EXCEPT ![j] = row] /\ registered' = registered
  BY DEF ClaimRow
<1>5. /\ row.status = "running" /\ row.lease = "live"
      /\ row.attempts = jobs[j].attempts + 1 /\ jobs[j].attempts \in Nat
      /\ row.key = jobs[j].key
  BY <1>2 DEF JobRow
<1>6. jobs[j].status \in {"queued", "running"}
  BY DEF ClaimRow, Claimable
<1>7. Present(j) /\ jobs[j].status \notin Ended
  BY <1>6 DEF Present, Ended
<1> HIDE DEF row
<1>8. jobs'[j] = row
  BY <1>1, <1>4
<1>9. MayReplace(j, row)
  BY <1>3, <1>5, <1>7 DEF MayReplace
<1>10. QED
  BY <1>1, <1>4, <1>5, <1>8, <1>9, RowReplaced

LEMMA WorkspacePointed ==
  ASSUME IInv, NEW x \in WorkerState, Held(x), PointWorkspace(x)
  PROVE  DataOK' /\ DataKept
<1> DEFINE row == [jobs[x.job] EXCEPT !.workspace = x.attempt]
<1>1. DataOK
  BY IInvData
<1>2. x.job \in JobId /\ jobs[x.job] \in JobRow /\ x.attempt \in Nat
  BY DEF IInv, TypeOK, Held, PointWorkspace, WorkerState
<1>3. row \in JobRow /\ jobs' = [jobs EXCEPT ![x.job] = row]
      /\ registered' = registered
  BY <1>2 DEF JobRow, PointWorkspace
<1>4. /\ row.status = jobs[x.job].status /\ row.lease = jobs[x.job].lease
      /\ row.attempts = jobs[x.job].attempts /\ row.key = jobs[x.job].key
      /\ row.endedBy = jobs[x.job].endedBy
  BY <1>2 DEF JobRow
<1> HIDE DEF row
<1>5. MayReplace(x.job, row)
  BY <1>1, <1>2, <1>3, <1>4, SameRowMayReplace
<1>6. QED
  BY <1>1, <1>2, <1>3, <1>5, RowReplaced

LEMMA LeaseExpired ==
  ASSUME IInv, NEW j \in JobId, LeaseExpires(j)
  PROVE  DataOK' /\ DataKept
<1> DEFINE row == [jobs[j] EXCEPT !.lease = "expired"]
<1>1. DataOK
  BY IInvData
<1>2. jobs[j] \in JobRow
  BY DEF IInv, TypeOK
<1>3. row \in JobRow /\ jobs' = [jobs EXCEPT ![j] = row]
      /\ registered' = registered
  BY <1>2 DEF JobRow, LeaseExpires
<1>4. /\ row.status = jobs[j].status /\ row.lease = "expired"
      /\ row.attempts = jobs[j].attempts /\ row.key = jobs[j].key
      /\ row.endedBy = jobs[j].endedBy
  BY <1>2 DEF JobRow
<1>5. jobs[j].status = "running"
  BY <1>1 DEF LeaseExpires, DataOK, RowsConsistent
<1>6. row.attempts \in Nat /\ Present(j) /\ jobs[j].status \notin Ended
  BY <1>3, <1>5 DEF JobRow, Present, Ended
<1> HIDE DEF row
<1>7. MayReplace(j, row)
  BY <1>3, <1>4, <1>5, <1>6 DEF MayReplace
<1>8. QED
  BY <1>1, <1>3, <1>7, RowReplaced

LEMMA FinishExecuted ==
  ASSUME IInv, NEW x \in WorkerState, Held(x), NEW outcome \in Ended,
         FinishRow(x, outcome), x.pc \notin {"down", "idle"},
         outcome = "succeeded" => x.pc = "registered"
  PROVE  DataOK' /\ DataKept
<1> DEFINE row == [jobs[x.job] EXCEPT !.status = outcome, !.lease = "none",
                                      !.endedBy = x.attempt]
<1>1. DataOK
  BY IInvData
<1>2. x.job \in JobId /\ jobs[x.job] \in JobRow /\ x.attempt \in Nat
  BY DEF IInv, TypeOK, Held, WorkerState
<1>3. row \in JobRow /\ jobs' = [jobs EXCEPT ![x.job] = row]
      /\ registered' = registered
  BY <1>2 DEF JobRow, FinishRow
<1>4. /\ row.status = outcome /\ row.lease = "none"
      /\ row.attempts = jobs[x.job].attempts /\ row.key = jobs[x.job].key
      /\ row.endedBy = x.attempt
  BY <1>2 DEF JobRow
<1>5. jobs[x.job].status = "running"
  BY DEF FinishRow
<1>6. outcome = "succeeded" => <<x.job, x.attempt>> \in registered
  BY DEF Held
<1>7. outcome \notin {"absent", "queued", "running"}
  BY DEF Ended
<1>8. jobs[x.job].status \notin Ended /\ Present(x.job)
      /\ jobs[x.job].attempts \in Nat
  BY <1>2, <1>5 DEF Ended, Present, JobRow
<1> HIDE DEF row
<1>9. MayReplace(x.job, row)
  BY <1>3, <1>4, <1>6, <1>7, <1>8 DEF MayReplace
<1>10. QED
  BY <1>1, <1>2, <1>3, <1>9, RowReplaced

LEMMA PackageRegistered ==
  ASSUME IInv, NEW x \in WorkerState, Held(x), RegisterPackage(x)
  PROVE  DataOK' /\ DataKept
<1>1. x.job \in JobId /\ x.attempt \in Nat
  BY DEF Held, RegisterPackage, WorkerState
<1>2. DataOK /\ \A j \in JobId : jobs[j].attempts \in Nat
  BY IInvData DEF DataOK, RowsTyped, JobRow
<1>3. jobs' = jobs /\ registered \subseteq registered'
      /\ registered' \subseteq JobId \X Nat
  BY <1>1, <1>2 DEF RegisterPackage, DataOK, RowsTyped
<1>4. DataOK'
  BY <1>2, <1>3 DEF DataOK, RowsTyped, RowsConsistent, OutputWasRegistered,
                    KeysUnique, Present
<1>5. QED
  BY <1>2, <1>3, <1>4 DEF DataKept, Present

\* Whatever the call of a worker does, it is one of the above.
LEMMA Performed ==
  ASSUME IInv, NEW x \in WorkerState, Held(x), NEW calls, Perform(x, calls)
  PROVE  DataOK' /\ DataKept
<1>1. CASE \E j \in JobId : ClaimRow(x, j, calls)
  BY <1>1, ClaimExecuted
<1>2. CASE PointWorkspace(x)
  BY <1>2, WorkspacePointed
<1>3. CASE RegisterPackage(x)
  BY <1>3, PackageRegistered
<1>4. CASE x.pc = "registered" /\ FinishRow(x, "succeeded")
  BY <1>4, FinishExecuted DEF Ended
<1>5. CASE x.pc \in {"failing", "cancelling"} /\ FinishRow(x, "failed")
  BY <1>5, FinishExecuted DEF Ended
<1>6. QED
  BY <1>1, <1>2, <1>3, <1>4, <1>5 DEF Perform

----------------------------------------------------------------------------
(* The control: what each worker, each request and each late call knows.   *)

WorkersOK ==
  /\ workers \in [Worker -> WorkerState]
  /\ \A w \in Worker : Held(workers[w])
  /\ OneHolderPerAttempt

RequestsOK ==
  /\ requests \in [Request -> RequestState]
  /\ \A r \in Request : Known(requests[r])

LateOK ==
  /\ lateCalls \in [1..MaxFaults -> WorkerState]
  /\ \A n \in 1..MaxFaults : Held(lateCalls[n])
  /\ latePosts \in [1..MaxFaults -> RequestState]
  /\ \A n \in 1..MaxFaults : Known(latePosts[n])

\* IInv is its four parts and the fault counter.
LEMMA IInvParts ==
  IInv <=> /\ DataOK /\ WorkersOK /\ RequestsOK /\ LateOK
           /\ faults \in 0..MaxFaults
BY DEF IInv, TypeOK, AttemptsHeld, JobsKnown, DataOK, RowsTyped, WorkersOK,
       RequestsOK, LateOK

\* What somebody knows of the rows stays true.
LEMMA StillHeld ==
  ASSUME DataOK, DataOK', DataKept, NEW x \in WorkerState, Held(x)
  PROVE  Held(x)'
<1>1. \A j \in JobId : /\ jobs'[j].attempts \in Nat /\ jobs[j].attempts \in Nat
                      /\ jobs'[j].attempts >= jobs[j].attempts
  BY DEF DataOK, RowsTyped, JobRow, DataKept
<1>2. CASE x.pc \in {"down", "idle"}
  BY <1>2 DEF Held
<1>3. CASE x.pc \notin {"down", "idle"}
  <2>1. x.job \in JobId /\ x.attempt \in 1..jobs[x.job].attempts
    BY <1>3 DEF Held
  <2>2. x.attempt \in 1..jobs'[x.job].attempts
    BY <1>1, <2>1
  <2>3. x.pc = "registered" => <<x.job, x.attempt>> \in registered'
    BY DEF Held, DataKept
  <2>4. QED
    BY <1>3, <2>1, <2>2, <2>3 DEF Held
<1>4. QED
  BY <1>2, <1>3

LEMMA StillKnown ==
  ASSUME DataKept, NEW x \in RequestState, Known(x)
  PROVE  Known(x)'
BY DEF Known, DataKept, Present

LEMMA NothingHeld ==
  Held(Down) /\ Held(Idle) /\ Known(Quiet)
  /\ Down \in WorkerState /\ Idle \in WorkerState /\ Quiet \in RequestState
BY DEF Held, Known, Down, Idle, Quiet, WorkerState, RequestState

LEMMA LateUnchanged ==
  ASSUME IInv, DataOK', DataKept, UNCHANGED late
  PROVE  LateOK'
<1>1. DataOK /\ LateOK /\ lateCalls' = lateCalls /\ latePosts' = latePosts
  BY IInvParts DEF late
<1>2. ASSUME NEW n \in 1..MaxFaults PROVE Held(lateCalls[n])'
  <2>1. PICK x \in WorkerState : x = lateCalls[n] /\ Held(x)
    BY <1>1 DEF LateOK
  <2>2. Held(x)'
    BY <1>1, <2>1, StillHeld
  <2>3. QED
    BY <1>1, <2>1, <2>2 DEF Held
<1>3. ASSUME NEW n \in 1..MaxFaults PROVE Known(latePosts[n])'
  <2>1. PICK x \in RequestState : x = latePosts[n] /\ Known(x)
    BY <1>1 DEF LateOK
  <2>2. Known(x)'
    BY <2>1, StillKnown
  <2>3. QED
    BY <1>1, <2>1, <2>2 DEF Known, Present
<1>4. QED
  BY <1>1, <1>2, <1>3 DEF LateOK

\* A call is put off, or one that was is executed.
LEMMA LateCallSet ==
  ASSUME IInv, DataOK', DataKept, UNCHANGED latePosts,
         NEW n \in 1..MaxFaults, NEW x \in WorkerState, Held(x),
         lateCalls' = [lateCalls EXCEPT ![n] = x]
  PROVE  LateOK'
<1>1. DataOK /\ LateOK
  BY IInvParts
<1>2. ASSUME NEW m \in 1..MaxFaults PROVE Held(lateCalls[m])'
  <2>1. PICK y \in WorkerState : y = lateCalls'[m] /\ Held(y)
    BY <1>1 DEF LateOK
  <2>2. Held(y)'
    BY <1>1, <2>1, StillHeld
  <2>3. QED
    BY <2>1, <2>2 DEF Held
<1>3. ASSUME NEW m \in 1..MaxFaults PROVE Known(latePosts[m])'
  <2>1. PICK y \in RequestState : y = latePosts[m] /\ Known(y)
    BY <1>1 DEF LateOK
  <2>2. Known(y)'
    BY <2>1, StillKnown
  <2>3. QED
    BY <2>1, <2>2 DEF Known, Present
<1>4. QED
  BY <1>1, <1>2, <1>3 DEF LateOK

LEMMA LatePostSet ==
  ASSUME IInv, DataOK', DataKept, UNCHANGED lateCalls,
         NEW n \in 1..MaxFaults, NEW x \in RequestState, Known(x),
         latePosts' = [latePosts EXCEPT ![n] = x]
  PROVE  LateOK'
<1>1. DataOK /\ LateOK
  BY IInvParts
<1>2. ASSUME NEW m \in 1..MaxFaults PROVE Held(lateCalls[m])'
  <2>1. PICK y \in WorkerState : y = lateCalls[m] /\ Held(y)
    BY <1>1 DEF LateOK
  <2>2. Held(y)'
    BY <1>1, <2>1, StillHeld
  <2>3. QED
    BY <2>1, <2>2 DEF Held
<1>3. ASSUME NEW m \in 1..MaxFaults PROVE Known(latePosts[m])'
  <2>1. PICK y \in RequestState : y = latePosts'[m] /\ Known(y)
    BY <1>1 DEF LateOK
  <2>2. Known(y)'
    BY <2>1, StillKnown
  <2>3. QED
    BY <2>1, <2>2 DEF Known, Present
<1>4. QED
  BY <1>1, <1>2, <1>3 DEF LateOK

LEMMA WorkersUnchanged ==
  ASSUME IInv, DataOK', DataKept, UNCHANGED workers
  PROVE  WorkersOK'
<1>1. DataOK /\ WorkersOK
  BY IInvParts
<1>2. ASSUME NEW w \in Worker PROVE Held(workers[w])'
  <2>1. PICK x \in WorkerState : x = workers[w] /\ Held(x)
    BY <1>1 DEF WorkersOK
  <2>2. Held(x)'
    BY <1>1, <2>1, StillHeld
  <2>3. QED
    BY <2>1, <2>2 DEF Held
<1>3. OneHolderPerAttempt'
  BY <1>1 DEF WorkersOK, OneHolderPerAttempt, JobOf
<1>4. QED
  BY <1>1, <1>2, <1>3 DEF WorkersOK

\* What has to be shown of the new state of worker w.
MayMove(w, new) ==
  /\ new \in WorkerState
  /\ IF new.pc \in {"down", "idle"}
     THEN new.job = NoJob
     ELSE /\ new.job \in JobId
          /\ new.attempt \in 1..jobs'[new.job].attempts
  /\ new.pc = "registered" => <<new.job, new.attempt>> \in registered'
  /\ \A v \in Worker \ {w} :
       JobOf(v) = new.job /\ new.job # NoJob => workers[v].attempt # new.attempt

LEMMA WorkerMoved ==
  ASSUME IInv, DataOK', DataKept, NEW w \in Worker, NEW new, MayMove(w, new),
         workers' = [workers EXCEPT ![w] = new]
  PROVE  WorkersOK'
<1>1. DataOK /\ WorkersOK
  BY IInvParts
<1>3. workers'[w] = new /\ \A v \in Worker \ {w} : workers'[v] = workers[v]
  BY <1>1 DEF WorkersOK
<1>4. ASSUME NEW v \in Worker PROVE Held(workers[v])'
  <2>1. CASE v = w
    BY <2>1, <1>3 DEF MayMove, Held
  <2>2. CASE v # w
    <3>1. PICK x \in WorkerState : x = workers[v] /\ Held(x)
      BY <1>1 DEF WorkersOK
    <3>2. Held(x)' /\ workers'[v] = x
      BY <1>1, <1>3, <2>2, <3>1, StillHeld
    <3>3. QED
      BY <3>2 DEF Held
  <2>3. QED
    BY <2>1, <2>2
<1>5. OneHolderPerAttempt'
  <2> SUFFICES ASSUME NEW u \in Worker, NEW v \in Worker,
                      workers'[u].job = workers'[v].job,
                      workers'[u].job # NoJob,
                      workers'[u].attempt = workers'[v].attempt
               PROVE  u = v
    BY DEF OneHolderPerAttempt, JobOf
  <2>1. CASE u # w /\ v # w
    BY <2>1, <1>1, <1>3 DEF WorkersOK, OneHolderPerAttempt, JobOf
  <2>2. CASE u = w \/ v = w
    BY <2>2, <1>3 DEF MayMove, JobOf
  <2>3. QED
    BY <2>1, <2>2
<1>7. workers' \in [Worker -> WorkerState]
  BY <1>1 DEF WorkersOK, MayMove
<1>8. QED
  BY <1>4, <1>5, <1>7 DEF WorkersOK

LEMMA WorkerResets ==
  ASSUME IInv, DataOK', DataKept, NEW w \in Worker,
         workers' = [workers EXCEPT ![w] = Down]
           \/ workers' = [workers EXCEPT ![w] = Idle]
  PROVE  WorkersOK'
<1>1. MayMove(w, Down) /\ MayMove(w, Idle)
  BY DEF MayMove, Down, Idle, WorkerState
<1>2. QED
  BY <1>1, WorkerMoved

LEMMA WorkerGoesOn ==
  ASSUME IInv, DataOK', DataKept, NEW w \in Worker,
         workers[w].pc \notin {"down", "idle"},
         NEW label \in {"working", "registered", "failing", "cancelling"},
         label = "registered" => <<JobOf(w), workers[w].attempt>> \in registered',
         Goto(w, label)
  PROVE  WorkersOK'
<1> DEFINE new == [workers[w] EXCEPT !.pc = label]
<1>1. WorkersOK
  BY IInvParts
<1>2. /\ workers[w].job \in JobId
      /\ workers[w].attempt \in 1..jobs[workers[w].job].attempts
  BY <1>1 DEF WorkersOK, Held
<1>3. /\ jobs[workers[w].job].attempts \in Nat
      /\ jobs'[workers[w].job].attempts \in Nat
      /\ jobs'[workers[w].job].attempts >= jobs[workers[w].job].attempts
  BY <1>2, IInvData DEF DataOK, RowsTyped, JobRow, DataKept
<1>4. workers[w].attempt \in 1..jobs'[workers[w].job].attempts
  BY <1>2, <1>3
<1>5. /\ new.pc = label /\ new.job = workers[w].job
      /\ new.attempt = workers[w].attempt
  BY <1>1 DEF WorkersOK
<1>6. new \in WorkerState
  BY <1>1 DEF WorkersOK, WorkerState
<1>7. workers' = [workers EXCEPT ![w] = new]
  BY DEF Goto
<1>8. \A v \in Worker \ {w} :
        JobOf(v) = new.job /\ new.job # NoJob => workers[v].attempt # new.attempt
  BY <1>1, <1>5 DEF WorkersOK, OneHolderPerAttempt, JobOf
<1> HIDE DEF new
<1>9. MayMove(w, new)
  BY <1>2, <1>4, <1>5, <1>6, <1>8 DEF MayMove, JobOf
<1>10. QED
  BY <1>7, <1>9, WorkerMoved

LEMMA RequestsUnchanged ==
  ASSUME IInv, DataKept, UNCHANGED requests
  PROVE  RequestsOK'
BY IInvParts DEF RequestsOK, Known, DataKept, Present

\* What has to be shown of the new state of a request.
MayAnswer(new) ==
  /\ new \in RequestState
  /\ new.pc \in {"audit", "answered"} =>
       /\ new.job \in JobId
       /\ jobs'[new.job].status # "absent"
       /\ jobs'[new.job].key = new.key

LEMMA RequestMoved ==
  ASSUME IInv, DataKept, NEW r \in Request, NEW new, MayAnswer(new),
         requests' = [requests EXCEPT ![r] = new]
  PROVE  RequestsOK'
<1>1. RequestsOK
  BY IInvParts
<1>2. requests'[r] = new /\ \A q \in Request \ {r} : requests'[q] = requests[q]
  BY <1>1 DEF RequestsOK
<1>3. ASSUME NEW q \in Request PROVE Known(requests[q])'
  <2>1. CASE q = r
    BY <2>1, <1>2 DEF MayAnswer, Known, Present
  <2>2. CASE q # r
    BY <2>2, <1>1, <1>2 DEF RequestsOK, Known, DataKept, Present
  <2>3. QED
    BY <2>1, <2>2
<1>4. QED
  BY <1>1, <1>3 DEF RequestsOK, MayAnswer

----------------------------------------------------------------------------
(* The inductive invariant.                                                *)

LEMMA InitIInv == Init => IInv
<1> SUFFICES ASSUME Init PROVE IInv
  OBVIOUS
<1> USE DEF Init, NoJob
<1>1. TypeOK
  BY NothingHeld, JobQueueAssumption DEF TypeOK, JobRow, Ended
<1>2. OneHolderPerAttempt
  BY DEF OneHolderPerAttempt, JobOf, Down
<1>3. AttemptsHeld /\ JobsKnown
  BY NothingHeld DEF AttemptsHeld, JobsKnown
<1>4. RowsConsistent /\ OutputWasRegistered /\ KeysUnique
  BY DEF RowsConsistent, OutputWasRegistered, KeysUnique, Present
<1>5. QED
  BY <1>1, <1>2, <1>3, <1>4 DEF IInv

\* The reply to an insert, or an error, in the place of a request.
LEMMA InsertedIs ==
  ASSUME NEW r \in Request, NEW j \in JobId \cup {NoJob},
         NEW label \in {"audit", "answered", "error"},
         requests \in [Request -> RequestState], Inserted(r, j, label)
  PROVE  \E new \in RequestState :
           /\ new.pc = label /\ new.job = j /\ new.key = requests[r].key
           /\ new.before = {}
           /\ requests' = [requests EXCEPT ![r] = new]
<1> DEFINE new == [requests[r] EXCEPT !.pc = label, !.before = {}, !.job = j]
<1>1. requests[r] \in RequestState
  OBVIOUS
<1>2. /\ new \in RequestState /\ new.pc = label /\ new.job = j
      /\ new.key = requests[r].key /\ new.before = {}
  BY <1>1 DEF RequestState
<1>3. requests' = [requests EXCEPT ![r] = new]
  BY DEF Inserted
<1> HIDE DEF new
<1>4. QED
  BY <1>2, <1>3

\* A step of a caller of POST /jobs.
LEMMA RequestStep ==
  ASSUME IInv, NEW r \in Request, RequestNext(r)
  PROVE  DataOK' /\ DataKept /\ WorkersOK' /\ RequestsOK' /\ LateOK'
           /\ faults' \in 0..MaxFaults
<1>0. /\ RequestsOK /\ WorkersOK /\ DataOK
      /\ faults \in 0..MaxFaults /\ MaxFaults \in Nat
      /\ NoJob \notin JobId
  BY IInvParts, JobQueueAssumption DEF NoJob, JobId
<1>a. /\ requests[r] \in RequestState
      /\ Known(requests[r])
      /\ requests \in [Request -> RequestState]
  BY <1>0 DEF RequestsOK
<1>b. Posted \in SUBSET JobId
  BY DEF Posted
<1>c. PICK x \in RequestState : x = requests[r] /\ Known(x)
  BY <1>a
<1>1. CASE \E k \in Key \cup {NoKey} : Submit(r, k)
  <2>1. PICK k \in Key \cup {NoKey} : Submit(r, k)
    BY <1>1
  <2>2. DataOK' /\ DataKept
    BY <2>1, <1>0, NothingExecuted DEF Submit
  <2> DEFINE new == IF k \in {NoKey, EmptyKey}
                    THEN [pc |-> "insert", key |-> k, before |-> Posted,
                          job |-> NoJob]
                    ELSE [pc |-> "lookup", key |-> k, before |-> {},
                          job |-> NoJob]
  <2>3. MayAnswer(new)
    BY <1>b DEF MayAnswer, RequestState
  <2>4. requests' = [requests EXCEPT ![r] = new]
    BY <2>1 DEF Submit
  <2> HIDE DEF new
  <2>5. RequestsOK'
    BY <2>2, <2>3, <2>4, RequestMoved
  <2>6. QED
    BY <2>1, <2>2, <2>5, <1>0, WorkersUnchanged, LateUnchanged DEF Submit
<1>2. CASE Lookup(r)
  <2>1. DataOK' /\ DataKept
    BY <1>2, <1>0, NothingExecuted DEF Lookup
  <2>4. RequestsOK'
    <3>1. CASE \E j \in Holding(requests[r].key) :
                 requests' = [requests EXCEPT
                    ![r] = [@ EXCEPT !.pc = "answered", !.job = j]]
      <4>1. PICK j \in Holding(requests[r].key) :
                 requests' = [requests EXCEPT
                    ![r] = [@ EXCEPT !.pc = "answered", !.job = j]]
        BY <3>1
      <4> DEFINE new == [requests[r] EXCEPT !.pc = "answered", !.job = j]
      <4>2. j \in JobId /\ Present(j) /\ jobs[j].key = requests[r].key
        BY DEF Holding
      <4>3. /\ new \in RequestState /\ new.job = j
            /\ new.key = requests[r].key
        BY <1>a, <4>2 DEF RequestState
      <4>5. requests' = [requests EXCEPT ![r] = new]
        BY <4>1
      <4> HIDE DEF new
      <4>6. MayAnswer(new)
        BY <2>1, <4>2, <4>3 DEF MayAnswer, DataKept, Present
      <4>7. QED
        BY <2>1, <4>5, <4>6, RequestMoved
    <3>2. CASE requests' = [requests EXCEPT
                 ![r] = [@ EXCEPT !.pc = "insert", !.before = Posted]]
      <4> DEFINE new == [requests[r] EXCEPT !.pc = "insert",
                                            !.before = Posted]
      <4>1. new \in RequestState /\ new.pc = "insert"
        BY <1>a, <1>b DEF RequestState
      <4>2. requests' = [requests EXCEPT ![r] = new]
        BY <3>2
      <4> HIDE DEF new
      <4>3. MayAnswer(new)
        BY <4>1 DEF MayAnswer
      <4>4. QED
        BY <2>1, <4>2, <4>3, RequestMoved
    <3>3. QED
      BY <1>2, <3>1, <3>2 DEF Lookup
  <2>5. QED
    BY <1>2, <2>1, <2>4, <1>0, WorkersUnchanged, LateUnchanged DEF Lookup
<1>3. CASE CreateJob(r)
  <2>0. UNCHANGED <<workers, registered, late, faults>>
    BY <1>3 DEF CreateJob
  <2>1. CASE \E j \in JobId :
               Insert(requests[r], j) /\ Inserted(r, j, "audit")
    <3>1. PICK j \in JobId : Insert(x, j) /\ Inserted(r, j, "audit")
      BY <2>1, <1>c
    <3>2. DataOK' /\ DataKept
      BY <2>0, <3>1, InsertExecuted
    <3>3. jobs'[j].status = "queued" /\ jobs'[j].key = x.key
      BY <1>0, <3>1 DEF Insert, DataOK, RowsTyped, JobRow
    <3>4. PICK new \in RequestState :
            /\ new.job = j /\ new.key = requests[r].key
            /\ requests' = [requests EXCEPT ![r] = new]
      BY <1>a, <3>1, InsertedIs
    <3>6. MayAnswer(new)
      BY <1>c, <3>3, <3>4 DEF MayAnswer
    <3>7. QED
      BY <1>0, <2>0, <3>2, <3>4, <3>6, RequestMoved, WorkersUnchanged,
         LateUnchanged
  <2>2. CASE Inserted(r, NoJob, "error") /\ UNCHANGED jobs
    <3>1. DataOK' /\ DataKept
      BY <2>0, <2>2, <1>0, NothingExecuted
    <3>2. PICK new \in RequestState :
            /\ new.pc = "error"
            /\ requests' = [requests EXCEPT ![r] = new]
      BY <1>a, <2>2, InsertedIs
    <3>3. MayAnswer(new)
      BY <3>2 DEF MayAnswer
    <3>4. QED
      BY <1>0, <2>0, <3>1, <3>2, <3>3, RequestMoved, WorkersUnchanged,
         LateUnchanged
  <2>3. QED
    BY <1>3, <2>1, <2>2 DEF CreateJob
<1>4. CASE AuditQueued(r)
  <2> DEFINE new == [requests[r] EXCEPT !.pc = "answered"]
  <2>0. UNCHANGED <<workers, registered, late, faults>> /\ Announce(x)
    BY <1>4, <1>c DEF AuditQueued
  <2>1. DataOK' /\ DataKept
    BY <1>c, <2>0, AnnounceExecuted
  <2>2. /\ requests[r].job \in JobId
        /\ Present(requests[r].job)
        /\ jobs[requests[r].job].key = requests[r].key
    BY <1>c, <2>0 DEF Announce, Known
  <2>3. /\ new.job = requests[r].job /\ new.key = requests[r].key
        /\ new \in RequestState
    BY <1>a DEF RequestState
  <2>4. requests' = [requests EXCEPT ![r] = new]
    BY <1>4 DEF AuditQueued
  <2> HIDE DEF new
  <2>5. MayAnswer(new)
    BY <2>1, <2>2, <2>3 DEF MayAnswer, DataKept, Present
  <2>6. QED
    BY <1>0, <2>0, <2>1, <2>4, <2>5, RequestMoved, WorkersUnchanged,
       LateUnchanged
<1>5. CASE RequestFails(r)
  <2>1. /\ registered' = registered /\ workers' = workers
        /\ lateCalls' = lateCalls /\ Inserted(r, NoJob, "error")
    BY <1>5 DEF RequestFails
  <2>2. faults < MaxFaults /\ faults' = faults + 1
    BY <1>5 DEF RequestFails
  <2>3. faults' \in 0..MaxFaults /\ faults + 1 \in 1..MaxFaults
    BY <1>0, <2>2
  <2>4. PICK new \in RequestState :
          /\ new.pc = "error"
          /\ requests' = [requests EXCEPT ![r] = new]
    BY <1>a, <2>1, InsertedIs
  <2>5. MayAnswer(new)
    BY <2>4 DEF MayAnswer
  <2>6. \/ (Post(x) \/ UNCHANGED jobs) /\ UNCHANGED latePosts
        \/ /\ latePosts' = [latePosts EXCEPT ![faults + 1] = x]
           /\ UNCHANGED jobs
    BY <1>5, <1>c DEF RequestFails
  <2>7. DataOK' /\ DataKept
    BY <1>0, <1>c, <2>1, <2>6, PostExecuted, NothingExecuted
  <2>8. LateOK'
    <3>1. CASE UNCHANGED latePosts
      BY <2>1, <2>7, <3>1, LateUnchanged DEF late
    <3>2. CASE latePosts' = [latePosts EXCEPT ![faults + 1] = x]
      BY <1>c, <2>1, <2>3, <2>7, <3>2, LatePostSet
    <3>3. QED
      BY <2>6, <3>1, <3>2
  <2>9. QED
    BY <2>1, <2>3, <2>4, <2>5, <2>7, <2>8, RequestMoved, WorkersUnchanged
<1>6. QED
  BY <1>1, <1>2, <1>3, <1>4, <1>5 DEF RequestNext

\* A step of a worker with nothing going wrong.
LEMMA WorkerStepKeeps ==
  ASSUME IInv, NEW w \in Worker, Start(w) \/ WorkerStep(w)
  PROVE  DataOK' /\ DataKept /\ WorkersOK' /\ RequestsOK' /\ LateOK'
           /\ faults' = faults
<1>0. WorkersOK /\ DataOK /\ NoJob \notin JobId
  BY IInvParts DEF NoJob, JobId
<1>a. UNCHANGED <<requests, late, faults>>
  BY DEF Start, WorkerStep, Claim, OpenWorkspace, Register, BodyFails,
         FinishSucceeded, FinishRefused, FinishFailed, RecordInterrupted
<1>b. PICK x \in WorkerState : x = workers[w] /\ Held(x)
  BY <1>0 DEF WorkersOK
<1>c. DataOK' /\ DataKept => RequestsOK' /\ LateOK' /\ faults' = faults
  BY <1>a, RequestsUnchanged, LateUnchanged
<1> DEFINE calls == Beside(w)
<1> HIDE DEF calls
<1>1. CASE Start(w)
  <2>1. DataOK' /\ DataKept
    BY <1>1, <1>0, NothingExecuted DEF Start
  <2>2. QED
    BY <1>1, <2>1, WorkerResets, <1>c DEF Start
<1>2. CASE Claim(w)
  <2>1. PICK j \in JobId :
          /\ ClaimRow(x, j, calls)
          /\ workers' = [workers EXCEPT ![w] =
               [pc |-> "claimed", job |-> j, attempt |-> jobs[j].attempts + 1]]
    BY <1>2, <1>b DEF Claim, calls
  <2> DEFINE new == [pc |-> "claimed", job |-> j,
                     attempt |-> jobs[j].attempts + 1]
  <2>2. DataOK' /\ DataKept /\ jobs'[j].attempts = jobs[j].attempts + 1
    BY <2>1, ClaimExecuted
  <2>3. jobs[j].attempts \in Nat
    BY <1>0 DEF DataOK, RowsTyped, JobRow
  <2>4. \A v \in Worker \ {w} :
          JobOf(v) = j => workers[v].attempt # jobs[j].attempts + 1
    <3> SUFFICES ASSUME NEW v \in Worker, workers[v].job = j
                 PROVE  workers[v].attempt # jobs[j].attempts + 1
      BY DEF JobOf
    <3>1. workers[v].attempt \in 1..jobs[j].attempts
      BY <1>0 DEF WorkersOK, Held
    <3>2. QED
      BY <3>1, <2>3
  <2>5. MayMove(w, new)
    BY <2>2, <2>3, <2>4 DEF MayMove, WorkerState
  <2>6. workers' = [workers EXCEPT ![w] = new]
    BY <2>1
  <2> HIDE DEF new
  <2>7. QED
    BY <1>2, <2>2, <2>5, <2>6, WorkerMoved, <1>c DEF Claim
<1>3. CASE OpenWorkspace(w)
  <2>1. DataOK' /\ DataKept
    BY <1>3, <1>b, WorkspacePointed DEF OpenWorkspace
  <2>2. QED
    BY <1>3, <2>1, WorkerGoesOn, <1>c
       DEF OpenWorkspace, PointWorkspace
<1>4. CASE Register(w)
  <2>1. DataOK' /\ DataKept
    BY <1>4, <1>b, PackageRegistered DEF Register
  <2>2. <<JobOf(w), workers[w].attempt>> \in registered'
    BY <1>4 DEF Register, RegisterPackage, JobOf
  <2>3. QED
    BY <1>4, <2>1, <2>2, WorkerGoesOn, <1>c
       DEF Register, RegisterPackage
<1>5. CASE BodyFails(w)
  <2>1. DataOK' /\ DataKept
    BY <1>5, <1>0, NothingExecuted DEF BodyFails
  <2>2. QED
    BY <1>5, <2>1, WorkerGoesOn, <1>c DEF BodyFails
<1>6. CASE FinishSucceeded(w)
  <2>1. DataOK' /\ DataKept
    BY <1>6, <1>b, FinishExecuted DEF FinishSucceeded, Ended
  <2>2. QED
    BY <1>6, <2>1, WorkerResets, <1>c DEF FinishSucceeded
<1>7. CASE FinishRefused(w)
  <2>1. DataOK' /\ DataKept
    BY <1>7, <1>0, NothingExecuted DEF FinishRefused
  <2>2. QED
    BY <1>7, <2>1, WorkerGoesOn, <1>c DEF FinishRefused
<1>8. CASE FinishFailed(w)
  <2>1. DataOK' /\ DataKept
    <3>1. x.pc = "failing"
      BY <1>8, <1>b DEF FinishFailed
    <3>2. FinishRow(x, "failed") \/ UNCHANGED <<jobs, registered>>
      BY <1>8, <1>b DEF FinishFailed
    <3>3. QED
      BY <1>0, <1>b, <3>1, <3>2, FinishExecuted, NothingExecuted DEF Ended
  <2>2. QED
    BY <1>8, <2>1, WorkerResets, <1>c DEF FinishFailed, Quit
<1>9. CASE RecordInterrupted(w)
  <2>1. DataOK' /\ DataKept
    <3>1. x.pc = "cancelling"
      BY <1>9, <1>b DEF RecordInterrupted
    <3>2. FinishRow(x, "failed") \/ UNCHANGED <<jobs, registered>>
      BY <1>9, <1>b DEF RecordInterrupted
    <3>3. QED
      BY <1>0, <1>b, <3>1, <3>2, FinishExecuted, NothingExecuted DEF Ended
  <2>2. QED
    BY <1>9, <2>1, WorkerResets, <1>c DEF RecordInterrupted, Quit
<1>10. QED
  BY <1>1, <1>2, <1>3, <1>4, <1>5, <1>6, <1>7, <1>8, <1>9 DEF WorkerStep

\* A worker dies, is stopped, or loses a reply.
LEMMA FaultKeeps ==
  ASSUME IInv, NEW w \in Worker, Crash(w) \/ Stop(w) \/ CallFails(w)
  PROVE  DataOK' /\ DataKept /\ WorkersOK' /\ RequestsOK' /\ LateOK'
           /\ faults' \in 0..MaxFaults
<1>0. /\ DataOK /\ WorkersOK /\ faults \in 0..MaxFaults /\ MaxFaults \in Nat
  BY IInvParts, JobQueueAssumption
<1>a. PICK x \in WorkerState : x = workers[w] /\ Held(x)
  BY <1>0 DEF WorkersOK
<1> DEFINE calls == Beside(w)
<1> HIDE DEF calls
<1>1. /\ UNCHANGED <<requests, latePosts>>
      /\ faults < MaxFaults /\ faults' = faults + 1
      /\ \/ /\ Perform(x, calls) \/ UNCHANGED <<jobs, registered>>
            /\ UNCHANGED lateCalls
         \/ /\ lateCalls' = [lateCalls EXCEPT ![faults + 1] = x]
            /\ UNCHANGED <<jobs, registered>>
  BY <1>a DEF Crash, Stop, CallFails, Fault, calls
<1>2. DataOK' /\ DataKept
  BY <1>0, <1>a, <1>1, Performed, NothingExecuted
<1>3. faults' \in 0..MaxFaults /\ faults + 1 \in 1..MaxFaults
  BY <1>0, <1>1
<1>4. \/ Quit(w)
      \/ InTry(w) /\ (Goto(w, "cancelling") \/ Goto(w, "failing"))
  BY DEF Crash, Stop, CallFails
<1>5. WorkersOK'
  <2>1. CASE Quit(w)
    BY <1>2, <2>1, WorkerResets DEF Quit
  <2>2. CASE InTry(w) /\ Goto(w, "cancelling")
    BY <1>2, <2>2, WorkerGoesOn DEF InTry
  <2>3. CASE InTry(w) /\ Goto(w, "failing")
    BY <1>2, <2>3, WorkerGoesOn DEF InTry
  <2>4. QED
    BY <1>4, <2>1, <2>2, <2>3
<1>6. LateOK'
  <2>1. CASE UNCHANGED lateCalls
    BY <1>1, <1>2, <2>1, LateUnchanged DEF late
  <2>2. CASE lateCalls' = [lateCalls EXCEPT ![faults + 1] = x]
    BY <1>a, <1>1, <1>2, <1>3, <2>2, LateCallSet
  <2>3. QED
    BY <1>1, <2>1, <2>2
<1>7. QED
  BY <1>1, <1>2, <1>3, <1>5, <1>6, RequestsUnchanged

\* A call is executed that nobody waits for any more.
LEMMA LateKeeps ==
  ASSUME IInv, NEW n \in 1..MaxFaults, LateCall(n) \/ LatePost(n)
  PROVE  DataOK' /\ DataKept /\ WorkersOK' /\ RequestsOK' /\ LateOK'
           /\ faults' = faults
<1>0. LateOK
  BY IInvParts
<1>1. UNCHANGED <<requests, workers, faults>>
  BY DEF LateCall, LatePost
<1>2. CASE LateCall(n)
  <2> DEFINE calls == BesideLate(n)
  <2> HIDE DEF calls
  <2>1. PICK x \in WorkerState : x = lateCalls[n] /\ Held(x)
    BY <1>0 DEF LateOK
  <2>2. /\ Perform(x, calls) /\ UNCHANGED latePosts
        /\ lateCalls' = [lateCalls EXCEPT ![n] = Down]
    BY <1>2, <2>1 DEF LateCall, calls
  <2>3. DataOK' /\ DataKept
    BY <2>1, <2>2, Performed
  <2>4. QED
    BY <1>1, <2>2, <2>3, NothingHeld, LateCallSet, WorkersUnchanged,
       RequestsUnchanged
<1>3. CASE LatePost(n)
  <2>1. PICK x \in RequestState : x = latePosts[n] /\ Known(x)
    BY <1>0 DEF LateOK
  <2>2. /\ Post(x) /\ UNCHANGED <<registered, lateCalls>>
        /\ latePosts' = [latePosts EXCEPT ![n] = Quiet]
    BY <1>3, <2>1 DEF LatePost
  <2>3. DataOK' /\ DataKept
    BY <2>1, <2>2, PostExecuted
  <2>4. QED
    BY <1>1, <2>2, <2>3, NothingHeld, LatePostSet, WorkersUnchanged,
       RequestsUnchanged
<1>4. QED
  BY <1>2, <1>3

LEMMA StepKeeps ==
  ASSUME IInv, [Next]_vars
  PROVE  IInv' /\ DataKept
<1>0. /\ DataOK /\ WorkersOK /\ RequestsOK /\ LateOK /\ faults \in 0..MaxFaults
  BY IInvParts
<1>1. /\ DataOK' /\ DataKept /\ WorkersOK' /\ RequestsOK' /\ LateOK'
      /\ faults' \in 0..MaxFaults
  <2>1. CASE \E r \in Request : RequestNext(r)
    BY <2>1, RequestStep
  <2>2. CASE \E w \in Worker : Start(w) \/ WorkerStep(w)
    BY <1>0, <2>2, WorkerStepKeeps
  <2>3. CASE \E w \in Worker : Crash(w) \/ Stop(w) \/ CallFails(w)
    BY <2>3, FaultKeeps
  <2>4. CASE \E n \in 1..MaxFaults : LateCall(n) \/ LatePost(n)
    BY <1>0, <2>4, LateKeeps
  <2>5. CASE \E j \in JobId : LeaseExpires(j)
    BY <1>0, <2>5, LeaseExpired, WorkersUnchanged, RequestsUnchanged,
       LateUnchanged DEF LeaseExpires
  <2>6. CASE UNCHANGED vars
    BY <1>0, <2>6, NothingExecuted, WorkersUnchanged, RequestsUnchanged,
       LateUnchanged DEF vars, late
  <2>7. QED
    BY <2>1, <2>2, <2>3, <2>4, <2>5, <2>6 DEF Next
<1>2. QED
  BY <1>1 DEF IInv, TypeOK, AttemptsHeld, JobsKnown, DataOK, RowsTyped,
              WorkersOK, RequestsOK, LateOK

----------------------------------------------------------------------------
(* What the statements do to the fields of a row.                          *)

\* Row j may have changed in any way, the others not at all.
OnlyRow(j) == \A i \in JobId \ {j} : jobs'[i] = jobs[i]

LEMMA IInvTypes ==
  ASSUME IInv
  PROVE  /\ jobs \in [JobId -> JobRow]
         /\ workers \in [Worker -> WorkerState]
         /\ requests \in [Request -> RequestState]
         /\ faults \in Nat
         /\ \A j \in JobId : jobs[j].attempts \in Nat
         /\ NoJob \notin JobId
BY JobQueueAssumption DEF IInv, TypeOK, JobRow, NoJob, JobId

LEMMA InsertDoes ==
  ASSUME IInv, NEW x \in RequestState, NEW j \in JobId, Insert(x, j)
  PROVE  /\ OnlyRow(j)
         /\ ~Present(j) /\ jobs[j].attempts = 0 /\ x.pc = "insert"
         /\ jobs'[j].status = "queued" /\ jobs'[j].attempts = 0
         /\ jobs'[j].key = x.key
         /\ jobs'[j].workspace = jobs[j].workspace
         /\ jobs'[j].endedBy = jobs[j].endedBy
<1>1. jobs \in [JobId -> JobRow]
  BY IInvTypes
<1>2. ~Present(j) /\ jobs[j].attempts = 0 /\ x.pc = "insert"
  BY DEF Insert, Place, Present, IInv, RowsConsistent
<1>3. jobs' = [jobs EXCEPT ![j] = [@ EXCEPT !.status = "queued",
                                            !.key = x.key]]
  BY DEF Insert
<1>4. /\ jobs'[j].status = "queued" /\ jobs'[j].attempts = 0 /\ OnlyRow(j)
      /\ jobs'[j].key = x.key
      /\ jobs'[j].workspace = jobs[j].workspace
      /\ jobs'[j].endedBy = jobs[j].endedBy
  BY <1>1, <1>2, <1>3 DEF JobRow, OnlyRow
<1>5. QED
  BY <1>2, <1>4

LEMMA AnnounceDoes ==
  ASSUME IInv, NEW x \in RequestState, Known(x), Announce(x)
  PROVE  /\ x.job \in JobId /\ OnlyRow(x.job) /\ Present(x.job)
         /\ x.pc = "audit"
         /\ jobs'[x.job].announced = TRUE
         /\ jobs'[x.job] = [jobs[x.job] EXCEPT !.announced = TRUE]
         /\ jobs'[x.job].status = jobs[x.job].status
         /\ jobs'[x.job].attempts = jobs[x.job].attempts
         /\ jobs'[x.job].workspace = jobs[x.job].workspace
         /\ jobs'[x.job].endedBy = jobs[x.job].endedBy
<1>1. jobs \in [JobId -> JobRow]
  BY IInvTypes
<1>2. x.job \in JobId /\ Present(x.job) /\ x.pc = "audit"
  BY DEF Announce, Known
<1>3. jobs' = [jobs EXCEPT ![x.job] = [@ EXCEPT !.announced = TRUE]]
  BY DEF Announce
<1>4. QED
  BY <1>1, <1>2, <1>3 DEF JobRow, OnlyRow

LEMMA ClaimDoes ==
  ASSUME IInv, NEW x \in WorkerState, NEW j \in JobId, NEW calls,
         ClaimRow(x, j, calls)
  PROVE  /\ OnlyRow(j) /\ x.pc = "idle"
         /\ registered' = registered
         /\ jobs[j].status \in {"queued", "running"}
         /\ jobs'[j].status = "running"
         /\ jobs'[j].attempts = jobs[j].attempts + 1
         /\ jobs'[j].announced = jobs[j].announced
         /\ jobs'[j].workspace = jobs[j].workspace
         /\ jobs'[j].endedBy = jobs[j].endedBy
<1>1. jobs \in [JobId -> JobRow]
  BY IInvTypes
<1>2. /\ jobs[j].status \in {"queued", "running"} /\ registered' = registered
      /\ x.pc = "idle"
  BY DEF ClaimRow, Claimable
<1>3. jobs' = [jobs EXCEPT ![j] =
                 [@ EXCEPT !.status = "running", !.lease = "live",
                           !.attempts = jobs[j].attempts + 1]]
  BY DEF ClaimRow
<1>4. QED
  BY <1>1, <1>2, <1>3 DEF JobRow, OnlyRow

LEMMA WorkspaceDoes ==
  ASSUME IInv, NEW x \in WorkerState, Held(x), PointWorkspace(x)
  PROVE  /\ x.job \in JobId /\ OnlyRow(x.job)
         /\ registered' = registered
         /\ jobs'[x.job].workspace = x.attempt
         /\ jobs'[x.job].status = jobs[x.job].status
         /\ jobs'[x.job].attempts = jobs[x.job].attempts
         /\ jobs'[x.job].announced = jobs[x.job].announced
         /\ jobs'[x.job].endedBy = jobs[x.job].endedBy
<1>1. jobs \in [JobId -> JobRow]
  BY IInvTypes
<1>2. x.job \in JobId /\ registered' = registered
  BY DEF PointWorkspace, Held
<1>3. jobs' = [jobs EXCEPT ![x.job].workspace = x.attempt]
  BY DEF PointWorkspace
<1>4. QED
  BY <1>1, <1>2, <1>3 DEF JobRow, OnlyRow

LEMMA FinishDoes ==
  ASSUME IInv, NEW x \in WorkerState, Held(x), NEW outcome,
         FinishRow(x, outcome), x.pc \notin {"down", "idle"}
  PROVE  /\ x.job \in JobId /\ OnlyRow(x.job)
         /\ registered' = registered
         /\ jobs[x.job].status = "running"
         /\ jobs'[x.job].status = outcome
         /\ jobs'[x.job].endedBy = x.attempt
         /\ jobs'[x.job].attempts = jobs[x.job].attempts
         /\ jobs'[x.job].announced = jobs[x.job].announced
         /\ jobs'[x.job].workspace = jobs[x.job].workspace
<1>1. jobs \in [JobId -> JobRow]
  BY IInvTypes
<1>2. /\ x.job \in JobId /\ registered' = registered
      /\ jobs[x.job].status = "running"
  BY DEF FinishRow, Held
<1>3. jobs' = [jobs EXCEPT ![x.job] =
                 [@ EXCEPT !.status = outcome, !.lease = "none",
                           !.endedBy = x.attempt]]
  BY DEF FinishRow
<1>4. QED
  BY <1>1, <1>2, <1>3 DEF JobRow, OnlyRow

\* A job that a worker holds and that does not run has ended.
LEMMA RefusedMeansEnded ==
  ASSUME IInv, NEW w \in Worker, workers[w].pc \notin {"down", "idle"},
         ~Finishable(w)
  PROVE  JobOf(w) \in JobId /\ jobs[JobOf(w)].status \in Ended
<1>1. /\ JobOf(w) \in JobId
      /\ workers[w].attempt \in 1..jobs[JobOf(w)].attempts
  BY DEF IInv, AttemptsHeld, Held, JobOf
<1>2. jobs[JobOf(w)] \in JobRow /\ jobs[JobOf(w)].attempts # 0
  BY <1>1, IInvTypes
<1>3. jobs[JobOf(w)].status \notin {"absent", "queued"}
  BY <1>1, <1>2 DEF IInv, RowsConsistent
<1>4. QED
  BY <1>1, <1>2, <1>3 DEF Finishable, JobRow, Ended

LEMMA LeaseDoes ==
  ASSUME IInv, NEW j \in JobId, LeaseExpires(j)
  PROVE  /\ OnlyRow(j)
         /\ jobs'[j].status = jobs[j].status
         /\ jobs'[j].attempts = jobs[j].attempts
         /\ jobs'[j].announced = jobs[j].announced
         /\ jobs'[j].workspace = jobs[j].workspace
         /\ jobs'[j].endedBy = jobs[j].endedBy
<1>1. jobs \in [JobId -> JobRow]
  BY IInvTypes
<1>2. jobs' = [jobs EXCEPT ![j] = [@ EXCEPT !.lease = "expired"]]
  BY DEF LeaseExpires
<1>3. QED
  BY <1>1, <1>2 DEF JobRow, OnlyRow

----------------------------------------------------------------------------
(* Counting: the attempts of a job, the workers that hold them and the     *)
(* claims still to be executed.                                            *)

Open(j) == jobs[j].status \in {"queued", "running"}

\* A job that is open after the step was open before, with as many attempts,
\* or has just been inserted.
NoNewAttempt(j) ==
  Open(j)' => \/ Open(j) /\ jobs'[j].attempts = jobs[j].attempts
              \/ jobs'[j].attempts = 0

\* Every call but the claim leaves the attempts of every job alone.
LEMMA OnlyClaimsCount ==
  ASSUME IInv, NEW x \in WorkerState, Held(x), NEW calls, Perform(x, calls),
         x.pc # "idle"
  PROVE  \A j \in JobId : NoNewAttempt(j)
<1>1. CASE PointWorkspace(x)
  BY <1>1, WorkspaceDoes DEF NoNewAttempt, Open, OnlyRow
<1>2. CASE RegisterPackage(x)
  BY <1>2 DEF RegisterPackage, NoNewAttempt, Open
<1>3. CASE x.pc = "registered" /\ FinishRow(x, "succeeded")
  BY <1>3, FinishDoes DEF NoNewAttempt, Open, OnlyRow
<1>4. CASE x.pc \in {"failing", "cancelling"} /\ FinishRow(x, "failed")
  BY <1>4, FinishDoes DEF NoNewAttempt, Open, OnlyRow
<1>5. QED
  BY <1>1, <1>2, <1>3, <1>4 DEF Perform, ClaimRow

LEMMA OnlyClaimsClaim ==
  ASSUME NEW x, NEW calls, Perform(x, calls), x.pc = "idle"
  PROVE  \E j \in JobId : ClaimRow(x, j, calls)
BY DEF Perform, PointWorkspace, RegisterPackage

LEMMA PostsCountNothing ==
  ASSUME IInv, NEW x \in RequestState, Known(x), Post(x)
  PROVE  \A j \in JobId : NoNewAttempt(j)
<1>1. CASE Announce(x)
  BY <1>1, AnnounceDoes DEF NoNewAttempt, Open, OnlyRow
<1>2. CASE \E j \in JobId : Insert(x, j)
  BY <1>2, InsertDoes DEF NoNewAttempt, Open, OnlyRow
<1>3. QED
  BY <1>1, <1>2 DEF Post

\* How the number of a job's holders changes when one worker moves.
LEMMA OneHolderMoves ==
  ASSUME NEW w \in Worker, NEW j \in JobId,
         \A v \in Worker \ {w} : JobOf(v)' = JobOf(v)
  PROVE  /\ Cardinality(Holders(j)) \in Nat
         /\ Cardinality(Holders(j)') \in Nat
         /\ Cardinality(Holders(j)') >= Cardinality(Holders(j)) - 1
         /\ JobOf(w) # j \/ JobOf(w)' = j =>
              Cardinality(Holders(j)') >= Cardinality(Holders(j))
         /\ JobOf(w) # j /\ JobOf(w)' = j =>
              Cardinality(Holders(j)') = Cardinality(Holders(j)) + 1
<1> DEFINE H == Holders(j)
           G == H \ {w}
<1>1. PICK K : K = Holders(j)'
  OBVIOUS
<1>2. H \subseteq Worker /\ K \subseteq Worker
  BY <1>1 DEF Holders
<1>3. IsFiniteSet(H) /\ IsFiniteSet(K) /\ IsFiniteSet(G)
  BY <1>2, FS_Subset, JobQueueAssumption
<1>4. /\ Cardinality(H) \in Nat /\ Cardinality(K) \in Nat
      /\ Cardinality(G) \in Nat
  BY <1>3, FS_CardinalityType
<1>5. (w \in H <=> JobOf(w) = j) /\ (w \in K <=> JobOf(w)' = j)
  BY <1>1 DEF Holders
<1>6. G = K \ {w}
  BY <1>1 DEF Holders
<1>7. Cardinality(G) = IF w \in H THEN Cardinality(H) - 1 ELSE Cardinality(H)
  BY <1>3, FS_RemoveElement
<1>8. Cardinality(G) = IF w \in K THEN Cardinality(K) - 1 ELSE Cardinality(K)
  BY <1>3, <1>6, FS_RemoveElement
<1> HIDE DEF H, G
<1>9. /\ Cardinality(K) >= Cardinality(H) - 1
      /\ w \notin H \/ w \in K => Cardinality(K) >= Cardinality(H)
      /\ w \notin H /\ w \in K => Cardinality(K) = Cardinality(H) + 1
  BY <1>4, <1>7, <1>8
<1>10. QED
  BY <1>1, <1>4, <1>5, <1>9 DEF H

LEMMA FewLateClaims ==
  /\ IsFiniteSet(LateClaims) /\ Cardinality(LateClaims) \in Nat
  /\ IsFiniteSet(LateInserts) /\ Cardinality(LateInserts) \in Nat
  /\ \A S \in SUBSET (1..MaxFaults) : IsFiniteSet(S) /\ Cardinality(S) \in Nat
<1>1. IsFiniteSet(1..MaxFaults)
  BY JobQueueAssumption, FS_Interval
<1>2. LateClaims \in SUBSET (1..MaxFaults) /\ LateInserts \in SUBSET (1..MaxFaults)
  BY DEF LateClaims, LateInserts
<1>3. QED
  BY <1>1, <1>2, FS_Subset, FS_CardinalityType

\* One call is put off, or executed: the set of the late ones gains or loses it.
LEMMA OneMoreOrLess ==
  ASSUME NEW n \in 1..MaxFaults, NEW S \in SUBSET (1..MaxFaults)
  PROVE  /\ Cardinality(S \cup {n}) \in Nat
         /\ Cardinality(S \cup {n}) <= Cardinality(S) + 1
         /\ n \in S => Cardinality(S \ {n}) + 1 = Cardinality(S)
<1>1. IsFiniteSet(S) /\ Cardinality(S) \in Nat
  BY FewLateClaims
<1>2. Cardinality(S \cup {n}) =
        IF n \in S THEN Cardinality(S) ELSE Cardinality(S) + 1
  BY <1>1, FS_AddElement
<1>3. n \in S => Cardinality(S \ {n}) = Cardinality(S) - 1
  BY <1>1, FS_RemoveElement
<1>4. QED
  BY <1>1, <1>2, <1>3

\* What is to be shown of a job: m workers held it and l claims were late, n
\* hold it and k are late now.
LEMMA CountKept ==
  ASSUME IInv, AttemptsAccounted, NEW j \in JobId, NoNewAttempt(j),
         NEW m, m = Cardinality(Holders(j)), m \in Nat,
         NEW n \in Nat,
         NEW l, l = Cardinality(LateClaims), l \in Nat,
         NEW k \in Nat, NEW f \in Nat,
         k <= f,
         m + faults + k <= n + f + l
  PROVE  Open(j)' => jobs'[j].attempts + k <= n + f
<1>1. SUFFICES ASSUME Open(j)' PROVE jobs'[j].attempts + k <= n + f
  OBVIOUS
<1>2. jobs[j].attempts \in Nat /\ faults \in Nat
  BY IInvTypes
<1>3. CASE Open(j) /\ jobs'[j].attempts = jobs[j].attempts
  <2>1. jobs[j].attempts + l <= m + faults
    BY <1>3 DEF AttemptsAccounted, Open
  <2>2. QED
    BY <1>2, <1>3, <2>1
<1>4. CASE jobs'[j].attempts = 0
  BY <1>4
<1>5. QED
  BY <1>1, <1>3, <1>4 DEF NoNewAttempt

\* Nobody claims; one worker at most lets go of an open job, which is a fault.
LEMMA NobodyClaims ==
  ASSUME IInv, AttemptsAccounted, NEW w \in Worker,
         \A v \in Worker \ {w} : JobOf(v)' = JobOf(v),
         \A j \in JobId : NoNewAttempt(j),
         \/ faults' = faults + 1
         \/ faults' = faults /\ \A j \in JobId :
               JobOf(w) = j => JobOf(w)' = j \/ ~Open(j)',
         NEW k, k = Cardinality(LateClaims'), k \in Nat,
         k <= Cardinality(LateClaims)
  PROVE  AttemptsAccounted'
<1>0. PICK l \in Nat : l = Cardinality(LateClaims)
  BY FewLateClaims
<1>1. PICK f \in Nat : f = faults'
  BY IInvTypes
<1>2. k <= f /\ faults \in Nat
  BY <1>0, <1>1, IInvTypes DEF AttemptsAccounted
<1>3. ASSUME NEW j \in JobId, Open(j)'
      PROVE  jobs'[j].attempts + k <= Cardinality(Holders(j)') + f
  <2>1. PICK m : m = Cardinality(Holders(j))
    OBVIOUS
  <2>2. PICK n : n = Cardinality(Holders(j)')
    OBVIOUS
  <2>3. /\ m \in Nat /\ n \in Nat /\ n >= m - 1
        /\ JobOf(w) # j \/ JobOf(w)' = j => n >= m
    BY <2>1, <2>2, OneHolderMoves
  <2>4. m + faults + k <= n + f + l
    BY <1>0, <1>1, <1>2, <1>3, <2>3
  <2>5. QED
    BY <1>0, <1>1, <1>2, <1>3, <2>1, <2>2, <2>3, <2>4, CountKept
<1>4. QED
  BY <1>1, <1>2, <1>3 DEF AttemptsAccounted, Open

\* Nobody moves at all and no attempt is counted.
LEMMA HoldersStay ==
  ASSUME IInv, AttemptsAccounted, UNCHANGED workers, LateClaims' = LateClaims,
         faults' = faults \/ faults' = faults + 1,
         \A j \in JobId : NoNewAttempt(j)
  PROVE  AttemptsAccounted'
<1>0. PICK l \in Nat : l = Cardinality(LateClaims)
  BY FewLateClaims
<1>1. PICK f \in Nat : f = faults' /\ faults <= f /\ faults \in Nat
  BY IInvTypes
<1>2. l = Cardinality(LateClaims') /\ l <= f
  BY <1>0, <1>1 DEF AttemptsAccounted
<1>3. ASSUME NEW j \in JobId, Open(j)'
      PROVE  jobs'[j].attempts + l <= Cardinality(Holders(j)') + f
  <2>1. PICK m : m = Cardinality(Holders(j))
    OBVIOUS
  <2>2. Holders(j)' = Holders(j)
    BY DEF Holders, JobOf
  <2>3. m \in Nat
    <3>1. Holders(j) \in SUBSET Worker
      BY DEF Holders
    <3>2. QED
      BY <2>1, <3>1, FS_Subset, FS_CardinalityType, JobQueueAssumption
  <2>4. m + faults + l <= m + f + l
    BY <1>0, <1>1, <2>3
  <2>5. jobs'[j].attempts + l <= m + f
    BY <1>0, <1>1, <1>2, <1>3, <2>1, <2>3, <2>4, CountKept
  <2>6. QED
    BY <2>1, <2>2, <2>5
<1>4. QED
  BY <1>1, <1>2, <1>3 DEF AttemptsAccounted, Open

\* A claim counts one attempt of j: a worker comes to hold it, or a fault is
\* counted.
LEMMA ClaimCounts ==
  ASSUME IInv, AttemptsAccounted, NEW x \in WorkerState, NEW j \in JobId,
         NEW calls, ClaimRow(x, j, calls),
         NEW w \in Worker, \A v \in Worker \ {w} : JobOf(v)' = JobOf(v),
         JobOf(w) = NoJob,
         (JobOf(w)' = j /\ faults' = faults) \/ faults' = faults + 1,
         NEW k, k = Cardinality(LateClaims'), k \in Nat,
         k = Cardinality(LateClaims)
  PROVE  AttemptsAccounted'
<1>0. PICK l \in Nat : l = Cardinality(LateClaims)
  BY FewLateClaims
<1>1. PICK f \in Nat : f = faults'
  BY IInvTypes
<1>2. /\ k <= f /\ faults \in Nat /\ faults <= f
      /\ l <= faults /\ k <= l /\ NoJob \notin JobId
  BY <1>0, <1>1, IInvTypes DEF AttemptsAccounted
<1>3. ASSUME NEW i \in JobId, Open(i)'
      PROVE  jobs'[i].attempts + k <= Cardinality(Holders(i)') + f
  <2>1. PICK m : m = Cardinality(Holders(i))
    OBVIOUS
  <2>2. PICK n : n = Cardinality(Holders(i)')
    OBVIOUS
  <2>3. /\ m \in Nat /\ n \in Nat
        /\ JobOf(w) # i \/ JobOf(w)' = i => n >= m
        /\ JobOf(w) # i /\ JobOf(w)' = i => n = m + 1
    BY <2>1, <2>2, OneHolderMoves
  <2>4. JobOf(w) # i \/ JobOf(w)' = i
    BY <1>2
  <2>5. jobs[i].attempts \in Nat
    BY IInvTypes
  <2>6. CASE i = j
    <3>1. jobs[i].attempts + l <= m + faults
      BY <1>0, <2>1, <2>6, ClaimDoes DEF AttemptsAccounted
    <3>2. jobs'[i].attempts = jobs[i].attempts + 1
      BY <2>6, ClaimDoes
    <3>3. n + f + l >= m + faults + 1 + k
      BY <1>0, <1>1, <1>2, <2>3, <2>4, <2>6
    <3>4. QED
      BY <1>1, <1>2, <2>2, <2>3, <2>5, <3>1, <3>2, <3>3
  <2>7. CASE i # j
    <3>1. NoNewAttempt(i)
      BY <2>7, ClaimDoes DEF NoNewAttempt, Open, OnlyRow
    <3>2. m + faults + k <= n + f + l
      BY <1>0, <1>1, <1>2, <2>3, <2>4
    <3>3. jobs'[i].attempts + k <= n + f
      BY <1>0, <1>1, <1>2, <1>3, <2>1, <2>3, <3>1, <3>2, CountKept
    <3>4. QED
      BY <2>2, <3>3
  <2>8. QED
    BY <2>6, <2>7
<1>4. QED
  BY <1>1, <1>2, <1>3 DEF AttemptsAccounted, Open

\* A claim is put off: one more is late, and a fault is counted.
LEMMA LateClaimPutOff ==
  ASSUME IInv, AttemptsAccounted, NEW w \in Worker, JobOf(w) = NoJob,
         \A v \in Worker \ {w} : JobOf(v)' = JobOf(v),
         \A j \in JobId : NoNewAttempt(j), faults' = faults + 1,
         NEW l, l = Cardinality(LateClaims), l \in Nat,
         NEW k, k = Cardinality(LateClaims'), k \in Nat, k <= l + 1
  PROVE  AttemptsAccounted'
<1>1. PICK f \in Nat : f = faults'
  BY IInvTypes
<1>2. k <= f /\ faults \in Nat /\ NoJob \notin JobId
  BY <1>1, IInvTypes DEF AttemptsAccounted
<1>3. ASSUME NEW j \in JobId, Open(j)'
      PROVE  jobs'[j].attempts + k <= Cardinality(Holders(j)') + f
  <2>1. PICK m : m = Cardinality(Holders(j))
    OBVIOUS
  <2>2. PICK n : n = Cardinality(Holders(j)')
    OBVIOUS
  <2>3. m \in Nat /\ n \in Nat /\ n >= m
    BY <1>2, <2>1, <2>2, OneHolderMoves
  <2>4. m + faults + k <= n + f + l
    BY <1>1, <1>2, <2>3
  <2>5. QED
    BY <1>1, <1>2, <1>3, <2>1, <2>2, <2>3, <2>4, CountKept
<1>4. QED
  BY <1>1, <1>2, <1>3 DEF AttemptsAccounted, Open

\* A late claim is executed and held by nobody.
LEMMA LateClaimCounts ==
  ASSUME IInv, AttemptsAccounted, NEW x \in WorkerState, NEW j \in JobId,
         NEW calls, ClaimRow(x, j, calls), UNCHANGED <<workers, faults>>,
         NEW k, k = Cardinality(LateClaims'), k \in Nat,
         k + 1 = Cardinality(LateClaims)
  PROVE  AttemptsAccounted'
<1>1. PICK f \in Nat : f = faults /\ f = faults' /\ k + 1 <= f
  BY IInvTypes DEF AttemptsAccounted
<1>2. ASSUME NEW i \in JobId, Open(i)'
      PROVE  jobs'[i].attempts + k <= Cardinality(Holders(i)') + f
  <2>1. PICK m \in Nat : m = Cardinality(Holders(i))
    <3>1. Holders(i) \in SUBSET Worker
      BY DEF Holders
    <3>2. QED
      BY <3>1, FS_Subset, FS_CardinalityType, JobQueueAssumption
  <2>2. m = Cardinality(Holders(i)')
    BY <2>1 DEF Holders, JobOf
  <2>3. jobs[i].attempts \in Nat
    BY IInvTypes
  <2>4. CASE i = j
    <3>1. jobs[i].attempts + k + 1 <= m + f
      <4>1. jobs[i].attempts + (k + 1) <= m + f
        BY <1>1, <2>1, <2>4, ClaimDoes DEF AttemptsAccounted
      <4>2. QED
        BY <1>1, <2>1, <2>3, <4>1
    <3>2. jobs'[i].attempts = jobs[i].attempts + 1
      BY <2>4, ClaimDoes
    <3>3. QED
      BY <1>1, <2>1, <2>2, <2>3, <3>1, <3>2
  <2>5. CASE i # j
    <3>1. NoNewAttempt(i)
      BY <2>5, ClaimDoes DEF NoNewAttempt, Open, OnlyRow
    <3>2. PICK l \in Nat : l = Cardinality(LateClaims) /\ l = k + 1
      OBVIOUS
    <3>3. k <= f /\ m + f + k <= m + f + l
      BY <1>1, <2>1, <3>2
    <3>4. jobs'[i].attempts + k <= m + f
      BY <1>1, <1>2, <2>1, <3>1, <3>2, <3>3, CountKept
    <3>5. QED
      BY <2>2, <3>4
  <2>6. QED
    BY <2>4, <2>5
<1>3. QED
  BY <1>1, <1>2 DEF AttemptsAccounted, Open

\* What a request's step asks of the database, and what it leaves alone.
LEMMA RequestStepIs ==
  ASSUME IInv, NEW r \in Request, RequestNext(r)
  PROVE  /\ UNCHANGED <<workers, registered, lateCalls>>
         /\ faults' = faults \/ faults' = faults + 1
         /\ UNCHANGED jobs \/ Post(requests[r])
         /\ requests[r] \in RequestState /\ Known(requests[r])
         /\ \A q \in Request \ {r} : requests'[q] = requests[q]
<1>1. requests \in [Request -> RequestState] /\ Known(requests[r])
  BY IInvParts DEF RequestsOK
<1>2. /\ UNCHANGED <<workers, registered, lateCalls>>
      /\ faults' = faults \/ faults' = faults + 1
  BY DEF RequestNext, Submit, Lookup, CreateJob, AuditQueued, RequestFails, late
<1>3. UNCHANGED jobs \/ Post(requests[r])
  BY DEF RequestNext, Submit, Lookup, CreateJob, AuditQueued, RequestFails, Post
<1>4. \A q \in Request \ {r} : requests'[q] = requests[q]
  BY <1>1 DEF RequestNext, Submit, Lookup, CreateJob, AuditQueued,
              RequestFails, Inserted
<1>5. QED
  BY <1>1, <1>2, <1>3, <1>4

LEMMA RequestStepCounts ==
  ASSUME IInv, AttemptsAccounted, NEW r \in Request, RequestNext(r)
  PROVE  AttemptsAccounted'
<1>1. PICK x \in RequestState : x = requests[r] /\ Known(x)
  BY RequestStepIs
<1>2. UNCHANGED jobs \/ Post(x)
  BY <1>1, RequestStepIs
<1>3. \A j \in JobId : NoNewAttempt(j)
  <2>1. CASE UNCHANGED jobs
    BY <2>1 DEF NoNewAttempt, Open
  <2>2. CASE Post(x)
    BY <1>1, <2>2, PostsCountNothing
  <2>3. QED
    BY <1>2, <2>1, <2>2
<1>4. QED
  BY <1>3, RequestStepIs, HoldersStay DEF LateClaims

\* A worker that only goes on keeps its job and attempt, like the others.
LEMMA GoingOn ==
  ASSUME IInv, NEW w \in Worker, NEW label, Goto(w, label)
  PROVE  /\ workers'[w].pc = label
         /\ \A v \in Worker \ {w} : workers'[v] = workers[v]
         /\ \A v \in Worker : /\ JobOf(v)' = JobOf(v)
                              /\ workers'[v].attempt = workers[v].attempt
<1>1. workers \in [Worker -> WorkerState]
  BY IInvTypes
<1>2. QED
  BY <1>1 DEF Goto, JobOf, WorkerState

LEMMA WorkerStepCounts ==
  ASSUME IInv, AttemptsAccounted, NEW w \in Worker, Start(w) \/ WorkerStep(w)
  PROVE  AttemptsAccounted'
<1>0. /\ workers \in [Worker -> WorkerState] /\ NoJob \notin JobId
      /\ workers[w].pc \in {"down", "idle"} => JobOf(w) = NoJob
  BY IInvTypes DEF IInv, AttemptsHeld, Held, JobOf
<1>a. UNCHANGED <<requests, late, faults>>
  BY DEF Start, WorkerStep, Claim, OpenWorkspace, Register, BodyFails,
         FinishSucceeded, FinishRefused, FinishFailed, RecordInterrupted
<1>b. PICK x \in WorkerState : x = workers[w] /\ Held(x)
  BY IInvParts DEF WorkersOK
<1>c. PICK k \in Nat : k = Cardinality(LateClaims)
  BY FewLateClaims
<1>d. k = Cardinality(LateClaims')
  BY <1>a, <1>c DEF LateClaims, late
<1> DEFINE calls == Beside(w)
<1> HIDE DEF calls
<1>1. CASE Start(w)
  <2>1. /\ UNCHANGED jobs
        /\ workers' = [workers EXCEPT ![w] = Idle] /\ workers[w].pc = "down"
    BY <1>1 DEF Start
  <2>2. \A v \in Worker : JobOf(v)' = JobOf(v)
    BY <1>0, <2>1 DEF JobOf, Idle
  <2>3. \A j \in JobId : NoNewAttempt(j)
    BY <2>1 DEF NoNewAttempt, Open
  <2>4. QED
    BY <1>a, <1>c, <1>d, <2>2, <2>3, NobodyClaims
<1>2. CASE Claim(w)
  <2>1. PICK j \in JobId :
          /\ ClaimRow(x, j, calls)
          /\ workers' = [workers EXCEPT ![w] =
               [pc |-> "claimed", job |-> j, attempt |-> jobs[j].attempts + 1]]
    BY <1>2, <1>b DEF Claim, calls
  <2>2. /\ \A v \in Worker \ {w} : JobOf(v)' = JobOf(v)
        /\ JobOf(w)' = j /\ faults' = faults
    BY <1>0, <1>a, <2>1 DEF JobOf
  <2>3. JobOf(w) = NoJob
    BY <1>0, <1>b, <2>1 DEF ClaimRow
  <2>4. QED
    BY <1>c, <1>d, <2>1, <2>2, <2>3, ClaimCounts
<1>3. CASE OpenWorkspace(w) \/ Register(w) \/ BodyFails(w) \/ FinishRefused(w)
  <2>1. Goto(w, "working") \/ Goto(w, "registered") \/ Goto(w, "failing")
    BY <1>3 DEF OpenWorkspace, Register, BodyFails, FinishRefused
  <2>2. \A v \in Worker : JobOf(v)' = JobOf(v)
    BY <2>1, GoingOn
  <2>3. UNCHANGED jobs \/ PointWorkspace(x)
    BY <1>3, <1>b DEF OpenWorkspace, Register, RegisterPackage, BodyFails,
                      FinishRefused
  <2>4. \A j \in JobId : NoNewAttempt(j)
    BY <1>b, <2>3, WorkspaceDoes DEF NoNewAttempt, Open, OnlyRow
  <2>5. QED
    BY <1>a, <1>c, <1>d, <2>2, <2>4, NobodyClaims
<1>4. CASE FinishSucceeded(w) \/ FinishFailed(w) \/ RecordInterrupted(w)
  <2>1. /\ x.pc \notin {"down", "idle"} /\ JobOf(w) = x.job
        /\ workers' = [workers EXCEPT ![w] = Idle]
             \/ workers' = [workers EXCEPT ![w] = Down]
    BY <1>4, <1>b DEF FinishSucceeded, FinishFailed, RecordInterrupted, Quit,
                      JobOf
  <2>2. \A v \in Worker \ {w} : JobOf(v)' = JobOf(v)
    BY <1>0, <2>1 DEF JobOf
  <2>3. \/ \E outcome \in Ended : FinishRow(x, outcome)
        \/ ~Finishable(w) /\ UNCHANGED jobs
    BY <1>4, <1>b DEF FinishSucceeded, FinishFailed, RecordInterrupted, Ended
  <2>4. CASE \E outcome \in Ended : FinishRow(x, outcome)
    <3>1. PICK outcome \in Ended : FinishRow(x, outcome)
      BY <2>4
    <3>2. \A j \in JobId : NoNewAttempt(j)
      BY <1>b, <2>1, <3>1, FinishDoes DEF NoNewAttempt, Open, OnlyRow, Ended
    <3>3. \A j \in JobId : JobOf(w) = j => ~Open(j)'
      <4>1. jobs'[x.job].status = outcome
        BY <1>b, <2>1, <3>1, FinishDoes
      <4>2. QED
        BY <2>1, <4>1 DEF Open, Ended
    <3>4. QED
      BY <1>a, <1>c, <1>d, <2>2, <3>2, <3>3, NobodyClaims
  <2>5. CASE ~Finishable(w) /\ UNCHANGED jobs
    <3>1. \A j \in JobId : NoNewAttempt(j)
      BY <2>5 DEF NoNewAttempt, Open
    <3>2. \A j \in JobId : JobOf(w) = j => ~Open(j)'
      BY <1>b, <2>1, <2>5, RefusedMeansEnded DEF Open, Ended
    <3>3. QED
      BY <1>a, <1>c, <1>d, <2>2, <3>1, <3>2, NobodyClaims
  <2>6. QED
    BY <2>3, <2>4, <2>5
<1>5. QED
  BY <1>1, <1>2, <1>3, <1>4 DEF WorkerStep

\* What a fault is, apart from where its worker goes.
LEMMA FaultIs ==
  ASSUME IInv, NEW w \in Worker, Crash(w) \/ Stop(w) \/ CallFails(w)
  PROVE  /\ UNCHANGED <<requests, latePosts>> /\ faults' = faults + 1
         /\ faults + 1 \in 1..MaxFaults
         /\ \A v \in Worker \ {w} : JobOf(v)' = JobOf(v)
         /\ workers[w] \in WorkerState /\ Held(workers[w])
         /\ \/ /\ Perform(workers[w], Beside(w))
                  \/ UNCHANGED <<jobs, registered>>
               /\ UNCHANGED lateCalls
            \/ /\ lateCalls' = [lateCalls EXCEPT ![faults + 1] = workers[w]]
               /\ UNCHANGED <<jobs, registered>>
<1>1. /\ workers \in [Worker -> WorkerState] /\ Held(workers[w])
      /\ faults \in 0..MaxFaults /\ MaxFaults \in Nat
  BY IInvParts, JobQueueAssumption DEF WorkersOK
<1>2. /\ UNCHANGED <<requests, latePosts>> /\ faults' = faults + 1
      /\ faults < MaxFaults
      /\ \/ /\ Perform(workers[w], Beside(w))
               \/ UNCHANGED <<jobs, registered>>
            /\ UNCHANGED lateCalls
         \/ /\ lateCalls' = [lateCalls EXCEPT ![faults + 1] = workers[w]]
            /\ UNCHANGED <<jobs, registered>>
  BY DEF Crash, Stop, CallFails, Fault
<1>3. Quit(w) \/ Goto(w, "cancelling") \/ Goto(w, "failing")
  BY DEF Crash, Stop, CallFails
<1>4. \A v \in Worker \ {w} : JobOf(v)' = JobOf(v)
  <2>1. CASE Quit(w)
    BY <1>1, <2>1 DEF Quit, JobOf
  <2>2. QED
    BY <1>3, <2>1, GoingOn
<1>5. faults + 1 \in 1..MaxFaults
  BY <1>1, <1>2
<1>6. QED
  BY <1>1, <1>2, <1>4, <1>5

\* A fault may lose one holder, or leave one claim for later, and is counted.
LEMMA FaultCounts ==
  ASSUME IInv, AttemptsAccounted, NEW w \in Worker,
         Crash(w) \/ Stop(w) \/ CallFails(w)
  PROVE  AttemptsAccounted'
<1>0. PICK l \in Nat : l = Cardinality(LateClaims)
  BY FewLateClaims
<1>a. PICK x \in WorkerState : x = workers[w] /\ Held(x)
  BY FaultIs
<1> DEFINE calls == Beside(w)
<1> HIDE DEF calls
<1>1. /\ faults' = faults + 1 /\ faults + 1 \in 1..MaxFaults
      /\ \A v \in Worker \ {w} : JobOf(v)' = JobOf(v)
  BY FaultIs
<1>2. CASE (Perform(x, calls) \/ UNCHANGED <<jobs, registered>>)
             /\ UNCHANGED lateCalls
  <2>1. l = Cardinality(LateClaims')
    BY <1>0, <1>2 DEF LateClaims
  <2>2. CASE Perform(x, calls) /\ x.pc = "idle"
    <3>1. PICK j \in JobId : ClaimRow(x, j, calls)
      BY <2>2, OnlyClaimsClaim
    <3>2. JobOf(w) = NoJob
      BY <1>a, <2>2 DEF Held, JobOf
    <3>3. QED
      BY <1>0, <1>1, <2>1, <3>1, <3>2, ClaimCounts
  <2>3. CASE ~(Perform(x, calls) /\ x.pc = "idle")
    <3>1. \A j \in JobId : NoNewAttempt(j)
      <4>1. CASE Perform(x, calls)
        BY <1>a, <2>3, <4>1, OnlyClaimsCount
      <4>2. CASE UNCHANGED jobs
        BY <4>2 DEF NoNewAttempt, Open
      <4>3. QED
        BY <1>2, <4>1, <4>2
    <3>2. QED
      BY <1>0, <1>1, <2>1, <3>1, NobodyClaims
  <2>4. QED
    BY <2>2, <2>3
<1>3. CASE lateCalls' = [lateCalls EXCEPT ![faults + 1] = x]
             /\ UNCHANGED <<jobs, registered>>
  <2>1. \A j \in JobId : NoNewAttempt(j)
    BY <1>3 DEF NoNewAttempt, Open
  <2>2. PICK n \in 1..MaxFaults : n = faults + 1
    BY <1>1
  <2>3. PICK S : S = LateClaims'
    OBVIOUS
  <2>4. S \subseteq LateClaims \cup {n} /\ LateClaims \in SUBSET (1..MaxFaults)
    BY <1>3, <2>2, <2>3, IInvParts DEF LateOK, LateClaims
  <2>5. PICK k \in Nat : k = Cardinality(S) /\ k <= l + 1
    <3>1. /\ IsFiniteSet(LateClaims \cup {n})
          /\ Cardinality(LateClaims \cup {n}) \in Nat
          /\ Cardinality(LateClaims \cup {n}) <= l + 1
      BY <1>0, <2>4, OneMoreOrLess, FewLateClaims
    <3>2. Cardinality(S) \in Nat
            /\ Cardinality(S) <= Cardinality(LateClaims \cup {n})
      BY <2>4, <3>1, FS_Subset, FS_CardinalityType
    <3>3. QED
      BY <1>0, <3>1, <3>2
  <2>6. CASE x.pc = "idle"
    <3>1. JobOf(w) = NoJob
      BY <1>a, <2>6 DEF Held, JobOf
    <3>2. QED
      BY <1>0, <1>1, <2>1, <2>3, <2>5, <3>1, LateClaimPutOff
  <2>7. CASE x.pc # "idle"
    <3>1. S \subseteq LateClaims
      BY <1>3, <2>3, <2>7, IInvParts DEF LateOK, LateClaims
    <3>2. k <= l
      BY <1>0, <2>5, <3>1, FewLateClaims, FS_Subset
    <3>3. QED
      BY <1>0, <1>1, <2>1, <2>3, <2>5, <3>2, NobodyClaims
  <2>8. QED
    BY <2>6, <2>7
<1>4. QED
  BY <1>a, <1>2, <1>3, FaultIs DEF calls

\* A late call was paid for by the fault that put it off.
LEMMA LateCounts ==
  ASSUME IInv, AttemptsAccounted, NEW n \in 1..MaxFaults,
         LateCall(n) \/ LatePost(n)
  PROVE  AttemptsAccounted'
<1>0. LateOK
  BY IInvParts
<1>1. CASE LateCall(n)
  <2>0. UNCHANGED <<requests, workers, faults>>
    BY <1>1 DEF LateCall
  <2>1. PICK x \in WorkerState : x = lateCalls[n] /\ Held(x)
    BY <1>0 DEF LateOK
  <2> DEFINE calls == BesideLate(n)
  <2> HIDE DEF calls
  <2>2. Perform(x, calls) /\ lateCalls' = [lateCalls EXCEPT ![n] = Down]
    BY <1>1, <2>1 DEF LateCall, calls
  <2>3. CASE x.pc = "idle"
    <3>1. PICK j \in JobId : ClaimRow(x, j, calls)
      BY <2>2, <2>3, OnlyClaimsClaim
    <3>2. PICK S : S = LateClaims'
      OBVIOUS
    <3>3. S = LateClaims \ {n} /\ n \in LateClaims
            /\ LateClaims \in SUBSET (1..MaxFaults)
      BY <1>0, <2>1, <2>2, <2>3, <3>2 DEF LateOK, LateClaims, Down
    <3>4. PICK k \in Nat : k = Cardinality(S) /\ k + 1 = Cardinality(LateClaims)
      <4>1. Cardinality(S) \in Nat
        BY <3>3, FewLateClaims
      <4>2. QED
        BY <3>3, <4>1, OneMoreOrLess
    <3>5. QED
      BY <2>0, <3>1, <3>2, <3>4, LateClaimCounts
  <2>4. CASE x.pc # "idle"
    <3>1. \A j \in JobId : NoNewAttempt(j)
      BY <2>1, <2>2, <2>4, OnlyClaimsCount
    <3>2. LateClaims' = LateClaims
      BY <1>0, <2>1, <2>2, <2>4 DEF LateOK, LateClaims, Down
    <3>3. QED
      BY <2>0, <3>1, <3>2, HoldersStay
  <2>5. QED
    BY <2>3, <2>4
<1>2. CASE LatePost(n)
  <2>1. PICK x \in RequestState : x = latePosts[n] /\ Known(x)
    BY <1>0 DEF LateOK
  <2>2. /\ Post(x) /\ UNCHANGED <<workers, lateCalls, faults>>
    BY <1>2, <2>1 DEF LatePost
  <2>3. LateClaims' = LateClaims
    BY <2>2 DEF LateClaims
  <2>4. QED
    BY <2>1, <2>2, <2>3, PostsCountNothing, HoldersStay
<1>3. QED
  BY <1>1, <1>2

LEMMA StepCounts ==
  ASSUME IInv, AttemptsAccounted, [Next]_vars
  PROVE  AttemptsAccounted'
<1>1. CASE \E j \in JobId : LeaseExpires(j)
  <2>1. UNCHANGED <<workers, lateCalls, faults>>
    BY <1>1 DEF LeaseExpires, late
  <2>2. \A j \in JobId : NoNewAttempt(j)
    BY <1>1, LeaseDoes DEF NoNewAttempt, Open, OnlyRow
  <2>3. QED
    BY <2>1, <2>2, HoldersStay DEF LateClaims
<1>2. CASE UNCHANGED vars
  <2>1. \A j \in JobId : NoNewAttempt(j)
    BY <1>2 DEF vars, NoNewAttempt, Open
  <2>2. QED
    BY <1>2, <2>1, HoldersStay DEF vars, LateClaims
<1>3. QED
  BY <1>1, <1>2, RequestStepCounts, WorkerStepCounts, FaultCounts, LateCounts
     DEF Next

LEMMA InitCounts == Init => AttemptsAccounted
<1> SUFFICES ASSUME Init PROVE AttemptsAccounted
  OBVIOUS
<1>1. LateClaims = {}
  BY DEF Init, LateClaims, Down
<1>2. Cardinality(LateClaims) = 0
  BY <1>1, FS_EmptySet
<1>3. QED
  BY <1>2 DEF Init, AttemptsAccounted

LEMMA CountsBound == IInv /\ AttemptsAccounted => NoWastedAttempt
<1> SUFFICES ASSUME IInv, AttemptsAccounted,
                    NEW j \in JobId, jobs[j].status \in {"queued", "running"}
             PROVE  jobs[j].attempts <= Cardinality(Holders(j)) + faults
  BY DEF NoWastedAttempt
<1>1. PICK m \in Nat : m = Cardinality(Holders(j))
  <2>1. Holders(j) \in SUBSET Worker
    BY DEF Holders
  <2>2. QED
    BY <2>1, FS_Subset, FS_CardinalityType, JobQueueAssumption
<1>2. PICK l \in Nat : l = Cardinality(LateClaims)
  BY FewLateClaims
<1>3. jobs[j].attempts + l <= m + faults
  BY <1>1, <1>2 DEF AttemptsAccounted
<1>4. jobs[j].attempts \in Nat /\ faults \in Nat
  BY IInvTypes
<1>5. QED
  BY <1>1, <1>2, <1>3, <1>4

----------------------------------------------------------------------------
(* Counting: the jobs that lost their audit event, and the inserts still   *)
(* to be executed, which lose theirs when they are.                        *)

Lost == {j \in JobId : Unannounced(j)}

LEMMA LostFinite == IsFiniteSet(Lost)
<1>1. IsFiniteSet(JobId)
  BY JobQueueAssumption, FS_Interval DEF JobId
<1>2. Lost \subseteq JobId
  BY DEF Lost
<1>3. QED
  BY <1>1, <1>2, FS_Subset

\* The size of a set that gained, or lost, one element at most.
LEMMA SizeMoves ==
  ASSUME NEW A, IsFiniteSet(A), NEW a, NEW S, S \subseteq A \cup {a}
  PROVE  /\ Cardinality(A) \in Nat /\ Cardinality(S) \in Nat
         /\ Cardinality(S) <= Cardinality(A) + 1
         /\ S \subseteq A => Cardinality(S) <= Cardinality(A)
         /\ a \in A /\ S \subseteq A \ {a} =>
              Cardinality(S) + 1 <= Cardinality(A)
<1>1. /\ IsFiniteSet(A \cup {a}) /\ IsFiniteSet(A \ {a})
      /\ Cardinality(A \cup {a}) <= Cardinality(A) + 1
      /\ a \in A => Cardinality(A \ {a}) = Cardinality(A) - 1
  <2>1. Cardinality(A) \in Nat
    BY FS_CardinalityType
  <2>2. QED
    BY <2>1, FS_AddElement, FS_RemoveElement
<1>2. /\ Cardinality(A) \in Nat /\ Cardinality(A \cup {a}) \in Nat
      /\ Cardinality(A \ {a}) \in Nat
  BY <1>1, FS_CardinalityType
<1>3. IsFiniteSet(S) /\ Cardinality(S) <= Cardinality(A \cup {a})
  BY <1>1, FS_Subset
<1>4. Cardinality(S) \in Nat
  BY <1>3, FS_CardinalityType
<1>5. S \subseteq A => Cardinality(S) <= Cardinality(A)
  BY FS_Subset
<1>6. a \in A /\ S \subseteq A \ {a} => Cardinality(S) <= Cardinality(A \ {a})
  BY <1>1, FS_Subset
<1>7. QED
  BY <1>1, <1>2, <1>3, <1>4, <1>5, <1>6

\* A step loses an event, or leaves an insert for later, by a fault.
LEMMA LossesPaidFor ==
  ASSUME IInv, EventsAccounted, NEW S, S = Lost', NEW T, T = LateInserts',
         NEW a, S \subseteq Lost \cup {a},
         NEW b, T \subseteq LateInserts \cup {b},
         \/ /\ S \subseteq Lost /\ T \subseteq LateInserts
            /\ faults' = faults \/ faults' = faults + 1
         \/ /\ S \subseteq Lost \/ T \subseteq LateInserts
            /\ faults' = faults + 1
  PROVE  EventsAccounted'
<1>1. PICK f : f = faults'
  OBVIOUS
<1>2. /\ Cardinality(Lost) \in Nat /\ Cardinality(S) \in Nat
      /\ Cardinality(S) <= Cardinality(Lost) + 1
      /\ S \subseteq Lost => Cardinality(S) <= Cardinality(Lost)
  BY LostFinite, SizeMoves
<1>3. /\ Cardinality(LateInserts) \in Nat /\ Cardinality(T) \in Nat
      /\ Cardinality(T) <= Cardinality(LateInserts) + 1
      /\ T \subseteq LateInserts => Cardinality(T) <= Cardinality(LateInserts)
  BY FewLateClaims, SizeMoves
<1>4. Cardinality(Lost) + Cardinality(LateInserts) <= faults /\ faults \in Nat
  BY IInvTypes DEF EventsAccounted, Lost
<1>5. Cardinality(S) + Cardinality(T) <= f
  BY <1>1, <1>2, <1>3, <1>4
<1>6. S = {j \in JobId : Unannounced(j)'}
  BY DEF Lost
<1>7. QED
  BY <1>1, <1>5, <1>6 DEF EventsAccounted

\* Or it loses the event of an insert that was late and is no longer.
LEMMA LateInsertPaidFor ==
  ASSUME IInv, EventsAccounted, NEW S, S = Lost', NEW T, T = LateInserts',
         NEW a, S \subseteq Lost \cup {a},
         NEW b, b \in LateInserts, T \subseteq LateInserts \ {b},
         UNCHANGED faults
  PROVE  EventsAccounted'
<1>1. /\ Cardinality(Lost) \in Nat /\ Cardinality(S) \in Nat
      /\ Cardinality(S) <= Cardinality(Lost) + 1
  BY LostFinite, SizeMoves
<1>2. /\ Cardinality(LateInserts) \in Nat /\ Cardinality(T) \in Nat
      /\ Cardinality(T) + 1 <= Cardinality(LateInserts)
  <2>1. T \subseteq LateInserts \cup {b}
    OBVIOUS
  <2>2. QED
    BY <2>1, FewLateClaims, SizeMoves
<1>3. Cardinality(Lost) + Cardinality(LateInserts) <= faults /\ faults \in Nat
  BY IInvTypes DEF EventsAccounted, Lost
<1>4. Cardinality(S) + Cardinality(T) <= faults
  BY <1>1, <1>2, <1>3
<1>5. S = {j \in JobId : Unannounced(j)'}
  BY DEF Lost
<1>6. QED
  BY <1>4, <1>5 DEF EventsAccounted

\* What keeps a row out of the lost ones: the statements of the workers.
SamePosts ==
  \A j \in JobId : /\ Present(j)' <=> Present(j)
                   /\ jobs'[j].announced = jobs[j].announced

LEMMA WorkersPostNothing ==
  ASSUME IInv, NEW x \in WorkerState, Held(x), NEW calls,
         Perform(x, calls) \/ UNCHANGED <<jobs, registered>>
  PROVE  SamePosts
<1>1. CASE \E j \in JobId : ClaimRow(x, j, calls)
  BY <1>1, ClaimDoes DEF SamePosts, Present, OnlyRow
<1>2. CASE PointWorkspace(x)
  BY <1>2, WorkspaceDoes DEF SamePosts, Present, OnlyRow
<1>3. CASE RegisterPackage(x)
  BY <1>3 DEF RegisterPackage, SamePosts, Present
<1>4. CASE x.pc = "registered" /\ FinishRow(x, "succeeded")
  BY <1>4, FinishDoes DEF SamePosts, Present, OnlyRow
<1>5. CASE x.pc \in {"failing", "cancelling"} /\ FinishRow(x, "failed")
  BY <1>5, FinishDoes DEF SamePosts, Present, OnlyRow
<1>6. CASE UNCHANGED <<jobs, registered>>
  BY <1>6 DEF SamePosts, Present
<1>7. QED
  BY <1>1, <1>2, <1>3, <1>4, <1>5, <1>6 DEF Perform

\* A worker's step without a fault, seen from the rows.
LEMMA WorkerStepIs ==
  ASSUME IInv, NEW w \in Worker, Start(w) \/ WorkerStep(w)
  PROVE  /\ UNCHANGED <<requests, late, faults>>
         /\ workers[w] \in WorkerState /\ Held(workers[w])
         /\ Perform(workers[w], Beside(w)) \/ UNCHANGED <<jobs, registered>>
<1>1. UNCHANGED <<requests, late, faults>>
  BY DEF Start, WorkerStep, Claim, OpenWorkspace, Register, BodyFails,
         FinishSucceeded, FinishRefused, FinishFailed, RecordInterrupted
<1>2. workers[w] \in WorkerState /\ Held(workers[w])
  BY IInvParts DEF WorkersOK
<1> DEFINE x == workers[w]
           calls == Beside(w)
<1>3. CASE Start(w) \/ BodyFails(w) \/ FinishRefused(w)
  <2>1. UNCHANGED <<jobs, registered>>
    BY <1>3 DEF Start, BodyFails, FinishRefused
  <2>2. QED
    BY <1>1, <1>2, <2>1
<1>4. CASE Claim(w)
  <2>1. \E j \in JobId : ClaimRow(x, j, calls)
    BY <1>4 DEF Claim
  <2> HIDE DEF x, calls
  <2>2. Perform(x, calls)
    BY <2>1 DEF Perform
  <2>3. QED
    BY <1>1, <1>2, <2>2 DEF x, calls
<1>5. CASE OpenWorkspace(w) \/ Register(w)
  <2>1. PointWorkspace(x) \/ RegisterPackage(x)
    BY <1>5 DEF OpenWorkspace, Register
  <2> HIDE DEF x, calls
  <2>2. Perform(x, calls)
    BY <2>1 DEF Perform
  <2>3. QED
    BY <1>1, <1>2, <2>2 DEF x, calls
<1>6. CASE FinishSucceeded(w) \/ FinishFailed(w) \/ RecordInterrupted(w)
  <2>1. \/ UNCHANGED <<jobs, registered>>
        \/ x.pc = "registered" /\ FinishRow(x, "succeeded")
        \/ x.pc \in {"failing", "cancelling"} /\ FinishRow(x, "failed")
    BY <1>6 DEF FinishSucceeded, FinishFailed, RecordInterrupted
  <2> HIDE DEF x, calls
  <2>2. Perform(x, calls) \/ UNCHANGED <<jobs, registered>>
    BY <2>1 DEF Perform
  <2>3. QED
    BY <1>1, <1>2, <2>2 DEF x, calls
<1>7. QED
  BY <1>1, <1>2, <1>3, <1>4, <1>5, <1>6 DEF WorkerStep

LEMMA NoPostNoLoss ==
  ASSUME IInv, SamePosts, UNCHANGED <<requests, latePosts>>, EventsAccounted,
         faults' = faults \/ faults' = faults + 1
  PROVE  EventsAccounted'
<1>1. PICK S : S = Lost'
  OBVIOUS
<1>2. PICK T : T = LateInserts'
  OBVIOUS
<1>3. S \subseteq Lost /\ T \subseteq LateInserts
  BY <1>1, <1>2 DEF Lost, Unannounced, SamePosts, LateInserts
<1>4. QED
  BY <1>1, <1>2, <1>3, LossesPaidFor

LEMMA RequestStepLoses ==
  ASSUME IInv, EventsAccounted, NEW r \in Request, RequestNext(r)
  PROVE  EventsAccounted'
<1>0. /\ faults \in Nat /\ requests \in [Request -> RequestState]
      /\ NoJob \notin JobId /\ latePosts \in [1..MaxFaults -> RequestState]
  BY IInvTypes, IInvParts DEF LateOK
<1>x. PICK x \in RequestState : x = requests[r] /\ Known(x)
  BY RequestStepIs
<1>a. PICK S : S = Lost'
  OBVIOUS
<1>t. PICK T : T = LateInserts'
  OBVIOUS
<1>b. \A q \in Request \ {r} : requests'[q] = requests[q]
  BY RequestStepIs
<1>1. CASE (\E k \in Key \cup {NoKey} : Submit(r, k)) \/ Lookup(r)
  <2>1. /\ UNCHANGED <<jobs, late, faults>> /\ x.pc # "audit"
    BY <1>1, <1>x DEF Submit, Lookup
  <2>2. S \subseteq Lost /\ T \subseteq LateInserts
    BY <1>a, <1>b, <1>t, <1>x, <2>1
       DEF Lost, Unannounced, Present, LateInserts, late
  <2>3. QED
    BY <1>a, <1>t, <2>1, <2>2, LossesPaidFor
<1>2. CASE CreateJob(r)
  <2>1. UNCHANGED <<late, faults>> /\ x.pc # "audit"
    BY <1>2, <1>x DEF CreateJob, Insert
  <2>2. S \subseteq Lost
    <3>1. CASE \E j \in JobId : Insert(x, j) /\ Inserted(r, j, "audit")
      <4>1. PICK j \in JobId : Insert(x, j) /\ Inserted(r, j, "audit")
        BY <3>1
      <4>2. requests'[r].pc = "audit" /\ requests'[r].job = j
        BY <1>0, <4>1 DEF RequestState, Inserted
      <4>3. j \notin S
        BY <1>a, <4>2 DEF Lost, Unannounced
      <4>4. OnlyRow(j)
        BY <4>1, InsertDoes
      <4>5. QED
        BY <1>a, <1>b, <1>x, <2>1, <4>3, <4>4
           DEF Lost, Unannounced, Present, OnlyRow
    <3>2. CASE UNCHANGED jobs
      BY <1>a, <1>b, <1>x, <2>1, <3>2 DEF Lost, Unannounced, Present
    <3>3. QED
      BY <1>2, <1>x, <3>1, <3>2 DEF CreateJob
  <2>3. T \subseteq LateInserts
    BY <1>t, <2>1 DEF LateInserts, late
  <2>4. QED
    BY <1>a, <1>t, <2>1, <2>2, <2>3, LossesPaidFor
<1>3. CASE (AuditQueued(r) \/ RequestFails(r)) /\ Announce(x)
             /\ UNCHANGED latePosts
  <2>1. faults' = faults \/ faults' = faults + 1
    BY RequestStepIs
  <2>2. PICK j \in JobId : j = x.job /\ OnlyRow(j)
                             /\ jobs'[j].announced = TRUE
    BY <1>3, <1>x, AnnounceDoes
  <2>3. j \notin S
    BY <1>a, <2>2 DEF Lost, Unannounced
  <2>4. S \subseteq Lost
    BY <1>a, <1>b, <1>x, <2>2, <2>3 DEF Lost, Unannounced, Present, OnlyRow
  <2>5. T \subseteq LateInserts
    BY <1>3, <1>t DEF LateInserts
  <2>6. QED
    BY <1>a, <1>t, <2>1, <2>4, <2>5, LossesPaidFor
<1>4. CASE RequestFails(r) /\ ~Announce(x) /\ UNCHANGED latePosts
  <2>1. faults' = faults + 1 /\ (Post(x) \/ UNCHANGED jobs)
    BY <1>4, <1>x DEF RequestFails
  <2>2. T \subseteq LateInserts
    BY <1>4, <1>t DEF LateInserts
  <2>3. PICK a : S \subseteq Lost \cup {a}
    <3>1. CASE \E j \in JobId : Insert(x, j)
      <4>1. PICK j \in JobId : Insert(x, j)
        BY <3>1
      <4>2. OnlyRow(j) /\ x.pc # "audit"
        BY <4>1, InsertDoes DEF Insert
      <4>3. S \subseteq Lost \cup {j}
        BY <1>a, <1>b, <1>x, <4>2 DEF Lost, Unannounced, Present, OnlyRow
      <4>4. QED
        BY <4>3
    <3>2. CASE UNCHANGED jobs
      <4>1. S \subseteq Lost \cup {x.job}
        BY <1>a, <1>b, <1>x, <3>2 DEF Lost, Unannounced, Present
      <4>2. QED
        BY <4>1
    <3>3. QED
      BY <1>4, <2>1, <3>1, <3>2 DEF Post
  <2>4. QED
    BY <1>a, <1>t, <2>1, <2>2, <2>3, LossesPaidFor
<1>5. CASE RequestFails(r) /\ UNCHANGED jobs
             /\ latePosts' = [latePosts EXCEPT ![faults + 1] = x]
  <2>1. faults' = faults + 1
    BY <1>5 DEF RequestFails
  <2>2. T \subseteq LateInserts \cup {faults + 1}
    BY <1>0, <1>5, <1>t DEF LateInserts
  <2>3. CASE x.pc = "audit"
    <3>1. S \subseteq Lost \cup {x.job}
      BY <1>5, <1>a, <1>b, <1>x DEF Lost, Unannounced, Present
    <3>2. T \subseteq LateInserts
      BY <1>0, <1>5, <1>t, <2>3 DEF LateInserts
    <3>3. QED
      BY <1>a, <1>t, <2>1, <2>2, <3>1, <3>2, LossesPaidFor
  <2>4. CASE x.pc # "audit"
    <3>1. S \subseteq Lost
      BY <1>5, <1>a, <1>b, <1>x, <2>4 DEF Lost, Unannounced, Present
    <3>2. QED
      BY <1>a, <1>t, <2>1, <2>2, <3>1, LossesPaidFor
  <2>5. QED
    BY <2>3, <2>4
<1>6. QED
  <2>1. AuditQueued(r) => Announce(x) /\ UNCHANGED latePosts
    BY <1>x DEF AuditQueued, late
  <2>2. RequestFails(r) =>
          \/ UNCHANGED latePosts
          \/ /\ latePosts' = [latePosts EXCEPT ![faults + 1] = x]
             /\ UNCHANGED jobs
    BY <1>x DEF RequestFails
  <2>3. QED
    BY <1>1, <1>2, <1>3, <1>4, <1>5, <2>1, <2>2 DEF RequestNext

LEMMA LatePostLoses ==
  ASSUME IInv, EventsAccounted, NEW n \in 1..MaxFaults, LatePost(n)
  PROVE  EventsAccounted'
<1>0. latePosts \in [1..MaxFaults -> RequestState]
  BY IInvParts DEF LateOK
<1>x. PICK x \in RequestState : x = latePosts[n] /\ Known(x)
  BY IInvParts DEF LateOK
<1>a. PICK S : S = Lost'
  OBVIOUS
<1>t. PICK T : T = LateInserts'
  OBVIOUS
<1>1. /\ Post(x) /\ latePosts' = [latePosts EXCEPT ![n] = Quiet]
      /\ UNCHANGED <<requests, faults>>
  BY <1>x DEF LatePost
<1>2. T \subseteq LateInserts \ {n} /\ T \subseteq LateInserts \cup {n}
  BY <1>0, <1>1, <1>t DEF LateInserts, Quiet
<1>3. CASE Announce(x)
  <2>1. PICK j \in JobId : j = x.job /\ OnlyRow(j)
                             /\ jobs'[j].announced = TRUE
    BY <1>3, <1>x, AnnounceDoes
  <2>2. j \notin S
    BY <1>a, <2>1 DEF Lost, Unannounced
  <2>3. S \subseteq Lost
    BY <1>1, <1>a, <2>1, <2>2 DEF Lost, Unannounced, Present, OnlyRow
  <2>4. QED
    BY <1>1, <1>2, <1>a, <1>t, <2>3, LossesPaidFor
<1>4. CASE \E j \in JobId : Insert(x, j)
  <2>1. PICK j \in JobId : Insert(x, j)
    BY <1>4
  <2>2. OnlyRow(j) /\ n \in LateInserts
    BY <1>x, <2>1, InsertDoes DEF LateInserts
  <2>3. S \subseteq Lost \cup {j}
    BY <1>1, <1>a, <2>2 DEF Lost, Unannounced, Present, OnlyRow
  <2>4. S = Lost' /\ T = LateInserts'
    BY <1>a, <1>t
  <2>5. n \in LateInserts /\ T \subseteq LateInserts \ {n}
    BY <1>2, <2>2
  <2>6. UNCHANGED faults
    BY <1>1
  <2>7. QED
    BY <2>3, <2>4, <2>5, <2>6, LateInsertPaidFor
<1>5. QED
  BY <1>1, <1>3, <1>4 DEF Post

LEMMA StepLoses ==
  ASSUME IInv, EventsAccounted, [Next]_vars
  PROVE  EventsAccounted'
<1>1. ASSUME NEW w \in Worker, Start(w) \/ WorkerStep(w)
      PROVE  EventsAccounted'
  BY <1>1, WorkerStepIs, WorkersPostNothing, NoPostNoLoss DEF late
<1>2. ASSUME NEW w \in Worker, Crash(w) \/ Stop(w) \/ CallFails(w)
      PROVE  EventsAccounted'
  <2>1. SamePosts
    BY <1>2, FaultIs, WorkersPostNothing
  <2>2. QED
    BY <1>2, <2>1, FaultIs, NoPostNoLoss
<1>3. ASSUME NEW j \in JobId, LeaseExpires(j)
      PROVE  EventsAccounted'
  <2>1. SamePosts
    BY <1>3, LeaseDoes DEF SamePosts, Present, OnlyRow
  <2>2. QED
    BY <1>3, <2>1, NoPostNoLoss DEF LeaseExpires, late
<1>4. ASSUME NEW n \in 1..MaxFaults, LateCall(n)
      PROVE  EventsAccounted'
  <2>1. lateCalls[n] \in WorkerState /\ Held(lateCalls[n])
    BY IInvParts DEF LateOK
  <2>2. /\ UNCHANGED <<requests, latePosts, faults>>
        /\ Perform(lateCalls[n], BesideLate(n))
    BY <1>4 DEF LateCall
  <2>3. SamePosts
    BY <2>1, <2>2, WorkersPostNothing
  <2>4. QED
    BY <2>2, <2>3, NoPostNoLoss
<1>5. CASE UNCHANGED vars
  BY <1>5, NoPostNoLoss DEF vars, SamePosts, Present
<1>6. QED
  BY <1>1, <1>2, <1>3, <1>4, <1>5, RequestStepLoses, LatePostLoses DEF Next

LEMMA InitLoses == Init => EventsAccounted
<1> SUFFICES ASSUME Init PROVE EventsAccounted
  OBVIOUS
<1>1. {j \in JobId : Unannounced(j)} = {} /\ LateInserts = {}
  BY DEF Init, Unannounced, Present, LateInserts, Quiet
<1>2. /\ Cardinality({j \in JobId : Unannounced(j)}) = 0
      /\ Cardinality(LateInserts) = 0
  BY <1>1, FS_EmptySet
<1>3. QED
  BY <1>2 DEF Init, EventsAccounted

LEMMA EventsBound == IInv /\ EventsAccounted => LostEventsAreFaults
<1> SUFFICES ASSUME IInv, EventsAccounted PROVE LostEventsAreFaults
  OBVIOUS
<1>1. Cardinality(Lost) \in Nat /\ Cardinality(LateInserts) \in Nat
  BY LostFinite, FS_CardinalityType, FewLateClaims
<1>2. Cardinality(Lost) + Cardinality(LateInserts) <= faults /\ faults \in Nat
  BY IInvTypes DEF EventsAccounted, Lost
<1>3. QED
  BY <1>1, <1>2 DEF LostEventsAreFaults, Lost

----------------------------------------------------------------------------
(* The theorems.                                                           *)

\* The rows, the workers and the requests always fit together: IInv is an
\* invariant of the job queue.
THEOREM QueueInvariant == Spec => []IInv
<1>1. IInv /\ [Next]_vars => IInv'
  BY StepKeeps
<1>2. QED
  BY InitIInv, <1>1, PTL DEF Spec

\* Every variable has its type in every reachable state.
THEOREM QueueTypes == Spec => []TypeOK
<1>1. IInv => TypeOK
  BY DEF IInv
<1>2. QED
  BY <1>1, QueueInvariant, PTL

\* Two workers never hold one attempt, however often leases expire.
THEOREM ClaimsAreExclusive == Spec => []OneHolderPerAttempt
<1>1. IInv => OneHolderPerAttempt
  BY DEF IInv
<1>2. QED
  BY <1>1, QueueInvariant, PTL

\* A job that succeeded names an attempt that registered its package.
THEOREM SuccessIsBacked == Spec => []OutputWasRegistered
<1>1. IInv => OutputWasRegistered
  BY DEF IInv
<1>2. QED
  BY <1>1, QueueInvariant, PTL

\* All callers answered for one key were answered with one job.
THEOREM KeysAreHonoured == Spec => []OneAnswerPerKey
<1>1. IInv => OneAnswerPerKey
  BY DEF IInv, JobsKnown, Known, KeysUnique, OneAnswerPerKey
<1>2. QED
  BY <1>1, QueueInvariant, PTL

\* No step of anybody changes the outcome of a terminal job.
THEOREM OutcomesAreFinal == Spec => TerminalIsFinal
<1>1. IInv /\ [Next]_vars =>
        [\A j \in JobId : jobs[j].status \in Ended =>
           /\ jobs'[j].status = jobs[j].status
           /\ jobs'[j].endedBy = jobs[j].endedBy
           /\ jobs'[j].attempts = jobs[j].attempts]_vars
  BY StepKeeps DEF DataKept
<1>2. QED
  BY <1>1, QueueInvariant, PTL DEF Spec, TerminalIsFinal

\* A job that has not ended was claimed no more often than there are workers
\* still on it and faults so far, for any number of workers.
THEOREM AttemptsAreAccounted == Spec => []NoWastedAttempt
<1>1. IInv /\ AttemptsAccounted /\ [Next]_vars => AttemptsAccounted'
  BY StepCounts
<1>2. QED
  BY InitCounts, CountsBound, <1>1, QueueInvariant, PTL DEF Spec

\* Every job without its "job.queued" event stands for a failed call.
THEOREM LostEventsAreAccounted == Spec => []LostEventsAreFaults
<1>1. IInv /\ EventsAccounted /\ [Next]_vars => EventsAccounted'
  BY StepLoses
<1>2. QED
  BY InitLoses, EventsBound, <1>1, QueueInvariant, PTL DEF Spec

----------------------------------------------------------------------------
(* The queue implements JobBoard.                                          *)

LEMMA InsertKeys ==
  ASSUME IInv, NEW x \in RequestState, NEW j \in JobId, Insert(x, j)
  PROVE  /\ jobs'[j].key = x.key /\ x.pc = "insert"
         /\ x.key # NoKey =>
              \A i \in JobId : Present(i) => jobs[i].key # x.key
<1>1. jobs \in [JobId -> JobRow]
  BY IInvTypes
<1>2. QED
  BY <1>1 DEF Insert, Holding, JobRow

LEMMA AnsweredHasJob ==
  ASSUME IInv, NEW r \in Request, requests[r].pc \in {"audit", "answered"}
  PROVE  /\ requests[r].job \in JobId /\ Present(requests[r].job)
         /\ jobs[requests[r].job].key = requests[r].key
BY DEF IInv, JobsKnown, Known

LEMMA UnkeyedStay ==
  ASSUME IInv, UnkeyedAreOwned, [Next]_vars
  PROVE  UnkeyedAreOwned'
<1>1. CASE requests' = requests
  BY <1>1 DEF UnkeyedAreOwned
<1>2. ASSUME NEW r \in Request, RequestNext(r) PROVE UnkeyedAreOwned'
  <2>0. requests \in [Request -> RequestState]
    BY IInvTypes
  <2>1. \A q \in Request \ {r} : requests'[q] = requests[q]
    BY <1>2, RequestStepIs
  <2>2. CASE requests'[r].pc \notin {"audit", "answered"}
    BY <2>1, <2>2 DEF UnkeyedAreOwned
  <2>3. CASE Lookup(r)
    <3>1. CASE requests'[r].pc = "answered"
      <4>1. PICK j \in Holding(requests[r].key) :
              requests' = [requests EXCEPT
                ![r] = [@ EXCEPT !.pc = "answered", !.job = j]]
        BY <2>0, <2>3, <3>1 DEF Lookup, RequestState
      <4>2. /\ requests'[r].job = j /\ requests'[r].key = requests[r].key
            /\ jobs[j].key = requests[r].key /\ requests[r].key # NoKey
        BY <2>0, <4>1 DEF Holding, RequestState
      <4>3. ASSUME NEW q \in Request \ {r},
                   requests[q].pc \in {"audit", "answered"}, requests[q].job = j
            PROVE  requests[q].key # NoKey
        BY <4>2, <4>3, AnsweredHasJob
      <4>4. QED
        BY <2>1, <4>2, <4>3 DEF UnkeyedAreOwned
    <3>2. QED
      BY <2>0, <2>2, <2>3, <3>1 DEF Lookup, RequestState
  <2>4. CASE CreateJob(r)
    <3>1. ASSUME NEW j \in JobId, Insert(requests[r], j),
                 Inserted(r, j, "audit")
          PROVE  UnkeyedAreOwned'
      <4>1. requests'[r].job = j /\ ~Present(j)
        BY <2>0, <3>1 DEF RequestState, Inserted, Insert, Place
      <4>2. \A q \in Request \ {r} : requests[q].pc \in {"audit", "answered"} =>
              requests[q].job # j
        BY <4>1, AnsweredHasJob
      <4>3. QED
        BY <2>1, <4>1, <4>2 DEF UnkeyedAreOwned
    <3>2. CASE Inserted(r, NoJob, "error")
      BY <2>0, <2>2, <3>2 DEF RequestState, Inserted
    <3>3. QED
      BY <2>4, <3>1, <3>2 DEF CreateJob
  <2>5. CASE AuditQueued(r)
    <3>1. /\ requests[r].pc = "audit"
          /\ requests'[r].job = requests[r].job
          /\ requests'[r].key = requests[r].key
      BY <2>0, <2>5 DEF AuditQueued, Announce, RequestState
    <3>2. QED
      BY <2>1, <3>1 DEF UnkeyedAreOwned
  <2>6. CASE RequestFails(r)
    <3>1. requests'[r].pc = "error"
      BY <2>0, <2>6 DEF RequestFails, RequestState, Inserted
    <3>2. QED
      BY <2>2, <3>1
  <2>7. ASSUME NEW k \in Key \cup {NoKey}, Submit(r, k)
        PROVE  UnkeyedAreOwned'
    <3>1. requests'[r].pc \in {"lookup", "insert"}
      BY <2>0, <2>7 DEF Submit
    <3>2. QED
      BY <2>2, <3>1
  <2>8. QED
    BY <1>2, <2>3, <2>4, <2>5, <2>6, <2>7 DEF RequestNext
<1>3. QED
  BY <1>1, <1>2, WorkerStepIs, FaultIs
     DEF Next, LateCall, LatePost, LeaseExpires, vars

\* What the board sees of a row and of a caller.
RowSame(j) ==
  /\ jobs'[j].key = jobs[j].key /\ OutcomeOf(j)' = OutcomeOf(j)
  /\ jobs'[j].attempts = jobs[j].attempts
  /\ jobs'[j].endedBy = jobs[j].endedBy

AnswersSame == \A r \in Request : AnswerOf(r)' = AnswerOf(r)

LEMMA BoardStutters ==
  ASSUME \A j \in JobId : RowSame(j), registered' = registered, AnswersSame
  PROVE  UNCHANGED Board!boardVars
<1>1. /\ [j \in JobId |-> jobs[j].key]' = [j \in JobId |-> jobs[j].key]
      /\ [j \in JobId |-> jobs[j].attempts]' = [j \in JobId |-> jobs[j].attempts]
      /\ [j \in JobId |-> jobs[j].endedBy]' = [j \in JobId |-> jobs[j].endedBy]
  BY DEF RowSame
<1>2. [j \in JobId |-> OutcomeOf(j)]' = [j \in JobId |-> OutcomeOf(j)]
  BY DEF RowSame
<1>3. [r \in Request |-> AnswerOf(r)]' = [r \in Request |-> AnswerOf(r)]
  BY DEF AnswersSame
<1>4. QED
  BY <1>1, <1>2, <1>3 DEF Board!boardVars

LEMMA OthersSame ==
  ASSUME NEW j \in JobId, OnlyRow(j)
  PROVE  \A i \in JobId \ {j} : RowSame(i)
BY DEF OnlyRow, RowSame, OutcomeOf

LEMMA BoardPosts ==
  ASSUME IInv, NEW x \in RequestState, NEW j \in JobId, Insert(x, j), AnswersSame,
         registered' = registered
  PROVE  Board!Next
<1>1. /\ OnlyRow(j) /\ ~Present(j) /\ jobs[j].attempts = 0
      /\ jobs'[j].status = "queued" /\ jobs'[j].attempts = 0
      /\ jobs'[j].endedBy = jobs[j].endedBy
  BY InsertDoes
<1>2. PICK k \in Key \cup {NoKey} : k = x.key
  BY DEF RequestState
<1>3. /\ jobs'[j].key = k
      /\ k # NoKey => \A i \in JobId : Present(i) => jobs[i].key # k
  BY <1>2, InsertKeys
<1>4. \A i \in JobId \ {j} : RowSame(i)
  BY <1>1, OthersSame
<1>5. [i \in JobId |-> jobs[i].key]' =
        [[i \in JobId |-> jobs[i].key] EXCEPT ![j] = k]
  BY <1>3, <1>4 DEF RowSame
<1>6. [i \in JobId |-> OutcomeOf(i)]' =
        [[i \in JobId |-> OutcomeOf(i)] EXCEPT ![j] = "open"]
  <2>1. OutcomeOf(j)' = "open"
    BY <1>1 DEF OutcomeOf
  <2>2. QED
    BY <1>4, <2>1 DEF RowSame
<1>7. /\ [i \in JobId |-> jobs[i].attempts]' = [i \in JobId |-> jobs[i].attempts]
      /\ [i \in JobId |-> jobs[i].endedBy]' = [i \in JobId |-> jobs[i].endedBy]
      /\ [q \in Request |-> AnswerOf(q)]' = [q \in Request |-> AnswerOf(q)]
  BY <1>1, <1>4 DEF RowSame, AnswersSame
<1>8. \A i \in JobId : Board!Posted(i) <=> Present(i)
  BY DEF Board!Posted, OutcomeOf, Present
<1>9. Board!Post(j, k)
  BY <1>1, <1>3, <1>5, <1>6, <1>7, <1>8 DEF Board!Post
<1>10. QED
  BY <1>1, <1>8, <1>9 DEF Board!Next

LEMMA BoardAnswers ==
  ASSUME IInv, NEW r \in Request, NEW j \in JobId, Present(j),
         \A i \in JobId : RowSame(i), registered' = registered,
         \A q \in Request \ {r} : AnswerOf(q)' = AnswerOf(q),
         AnswerOf(r)' = [key |-> jobs[j].key, job |-> j],
         jobs[j].key = NoKey => \A q \in Request : AnswerOf(q).job # j
  PROVE  Board!Next
<1>1. [q \in Request |-> AnswerOf(q)]' =
        [[q \in Request |-> AnswerOf(q)] EXCEPT
           ![r] = [key |-> jobs[j].key, job |-> j]]
  OBVIOUS
<1>2. /\ [i \in JobId |-> jobs[i].key]' = [i \in JobId |-> jobs[i].key]
      /\ [i \in JobId |-> jobs[i].attempts]' = [i \in JobId |-> jobs[i].attempts]
      /\ [i \in JobId |-> jobs[i].endedBy]' = [i \in JobId |-> jobs[i].endedBy]
  BY DEF RowSame
<1>3. [i \in JobId |-> OutcomeOf(i)]' = [i \in JobId |-> OutcomeOf(i)]
  BY DEF RowSame
<1>4. Board!Posted(j)
  BY DEF Board!Posted, OutcomeOf, Present
<1>5. Board!Answer(r, j)
  BY <1>1, <1>2, <1>3, <1>4 DEF Board!Answer
<1>6. QED
  BY <1>5 DEF Board!Next

LEMMA BoardAsks ==
  ASSUME NEW r \in Request,
         \A i \in JobId : RowSame(i), registered' = registered,
         \A q \in Request \ {r} : AnswerOf(q)' = AnswerOf(q),
         AnswerOf(r)' = [key |-> NoKey, job |-> NoJob]
  PROVE  Board!Next
<1>1. [q \in Request |-> AnswerOf(q)]' =
        [[q \in Request |-> AnswerOf(q)] EXCEPT ![r] = Board!Nothing]
  BY DEF Board!Nothing
<1>2. /\ [i \in JobId |-> jobs[i].key]' = [i \in JobId |-> jobs[i].key]
      /\ [i \in JobId |-> jobs[i].attempts]' = [i \in JobId |-> jobs[i].attempts]
      /\ [i \in JobId |-> jobs[i].endedBy]' = [i \in JobId |-> jobs[i].endedBy]
  BY DEF RowSame
<1>3. [i \in JobId |-> OutcomeOf(i)]' = [i \in JobId |-> OutcomeOf(i)]
  BY DEF RowSame
<1>4. Board!Ask(r)
  BY <1>1, <1>2, <1>3 DEF Board!Ask
<1>5. QED
  BY <1>4 DEF Board!Next

LEMMA BoardHandsOut ==
  ASSUME IInv, NEW x \in WorkerState, NEW j \in JobId, NEW calls,
         ClaimRow(x, j, calls), DataKept, AnswersSame
  PROVE  Board!Next
<1>1. /\ OnlyRow(j) /\ registered' = registered
      /\ OutcomeOf(j) = "open" /\ OutcomeOf(j)' = "open"
      /\ jobs'[j].attempts = jobs[j].attempts + 1
      /\ jobs'[j].endedBy = jobs[j].endedBy
  BY ClaimDoes DEF OutcomeOf
<1>2. jobs'[j].key = jobs[j].key
  BY ClaimDoes DEF DataKept, Present
<1>3. \A i \in JobId \ {j} : RowSame(i)
  BY <1>1, OthersSame
<1>4. [i \in JobId |-> jobs[i].attempts]' =
        [[i \in JobId |-> jobs[i].attempts] EXCEPT ![j] = @ + 1]
  BY <1>1, <1>3 DEF RowSame
<1>5. /\ [i \in JobId |-> jobs[i].key]' = [i \in JobId |-> jobs[i].key]
      /\ [i \in JobId |-> jobs[i].endedBy]' = [i \in JobId |-> jobs[i].endedBy]
      /\ [q \in Request |-> AnswerOf(q)]' = [q \in Request |-> AnswerOf(q)]
  BY <1>1, <1>2, <1>3 DEF RowSame, AnswersSame
<1>6. [i \in JobId |-> OutcomeOf(i)]' = [i \in JobId |-> OutcomeOf(i)]
  BY <1>1, <1>3 DEF RowSame
<1>7. Board!HandOut(j)
  BY <1>1, <1>4, <1>5, <1>6 DEF Board!HandOut
<1>8. QED
  BY <1>7 DEF Board!Next, Board!HandOut

\* The job and the attempt of a worker, as the board knows them.
LEMMA WorkersAttempt ==
  ASSUME IInv, NEW x \in WorkerState, Held(x), x.pc \notin {"down", "idle"}
  PROVE  x.job \in JobId /\ x.attempt \in 1..jobs[x.job].attempts
BY DEF Held

LEMMA BoardIsDelivered ==
  ASSUME IInv, NEW x \in WorkerState, Held(x), RegisterPackage(x), AnswersSame
  PROVE  Board!Next
<1>1. PICK j \in JobId : j = x.job
  BY WorkersAttempt DEF RegisterPackage
<1>2. PICK a \in 1..jobs[j].attempts : a = x.attempt
  BY <1>1, WorkersAttempt DEF RegisterPackage
<1>3. jobs' = jobs /\ registered' = registered \cup {<<j, a>>}
  BY <1>1, <1>2 DEF RegisterPackage
<1>4. \A i \in JobId : RowSame(i)
  BY <1>3 DEF RowSame, OutcomeOf
<1>5. /\ [i \in JobId |-> jobs[i].key]' = [i \in JobId |-> jobs[i].key]
      /\ [i \in JobId |-> jobs[i].attempts]' = [i \in JobId |-> jobs[i].attempts]
      /\ [i \in JobId |-> jobs[i].endedBy]' = [i \in JobId |-> jobs[i].endedBy]
      /\ [i \in JobId |-> OutcomeOf(i)]' = [i \in JobId |-> OutcomeOf(i)]
      /\ [q \in Request |-> AnswerOf(q)]' = [q \in Request |-> AnswerOf(q)]
  BY <1>4 DEF RowSame, AnswersSame
<1>6. Board!Deliver(j, a)
  BY <1>3, <1>5 DEF Board!Deliver
<1>7. QED
  BY <1>6 DEF Board!Next

LEMMA BoardCloses ==
  ASSUME IInv, NEW x \in WorkerState, Held(x),
         NEW result \in {"succeeded", "failed"},
         x.pc \notin {"down", "idle"}, FinishRow(x, result), DataKept,
         result = "succeeded" => x.pc = "registered", AnswersSame
  PROVE  Board!Next
<1>1. PICK j \in JobId : j = x.job
  BY WorkersAttempt
<1>2. PICK a \in 1..jobs[j].attempts : a = x.attempt
  BY <1>1, WorkersAttempt
<1>3. /\ OnlyRow(j) /\ registered' = registered
      /\ jobs[j].status = "running" /\ jobs'[j].status = result
      /\ jobs'[j].endedBy = a /\ jobs'[j].attempts = jobs[j].attempts
  BY <1>1, <1>2, FinishDoes
<1>4. jobs'[j].key = jobs[j].key
  BY <1>3 DEF DataKept, Present
<1>5. \A i \in JobId \ {j} : RowSame(i)
  BY <1>3, OthersSame
<1>6. OutcomeOf(j) = "open" /\ OutcomeOf(j)' = result
  BY <1>3 DEF OutcomeOf
<1>7. result = "succeeded" => <<j, a>> \in registered
  BY <1>1, <1>2 DEF Held
<1>8. [i \in JobId |-> OutcomeOf(i)]' =
        [[i \in JobId |-> OutcomeOf(i)] EXCEPT ![j] = result]
  BY <1>5, <1>6 DEF RowSame
<1>9. [i \in JobId |-> jobs[i].endedBy]' =
        [[i \in JobId |-> jobs[i].endedBy] EXCEPT ![j] = a]
  BY <1>3, <1>5 DEF RowSame
<1>10. /\ [i \in JobId |-> jobs[i].key]' = [i \in JobId |-> jobs[i].key]
       /\ [i \in JobId |-> jobs[i].attempts]' = [i \in JobId |-> jobs[i].attempts]
       /\ [q \in Request |-> AnswerOf(q)]' = [q \in Request |-> AnswerOf(q)]
  BY <1>3, <1>4, <1>5 DEF RowSame, AnswersSame
<1>11. Board!Close(j, a, result)
  BY <1>3, <1>6, <1>7, <1>8, <1>9, <1>10 DEF Board!Close
<1>12. QED
  BY <1>11 DEF Board!Next, Board!Close

\* Whatever a worker's call does, the board has a word for it.
LEMMA PerformOnBoard ==
  ASSUME IInv, NEW x \in WorkerState, Held(x), NEW calls,
         Perform(x, calls) \/ UNCHANGED <<jobs, registered>>,
         DataKept, AnswersSame
  PROVE  [Board!Next]_(Board!boardVars)
<1>1. CASE \E j \in JobId : ClaimRow(x, j, calls)
  BY <1>1, BoardHandsOut
<1>2. CASE PointWorkspace(x)
  <2>1. PICK j \in JobId : j = x.job
    BY <1>2, WorkspaceDoes
  <2>2. /\ OnlyRow(j) /\ registered' = registered
        /\ jobs'[j].status = jobs[j].status
        /\ jobs'[j].attempts = jobs[j].attempts
        /\ jobs'[j].endedBy = jobs[j].endedBy
    BY <1>2, <2>1, WorkspaceDoes
  <2>3. jobs'[j].key = jobs[j].key
    <3>1. jobs[j].attempts # 0
      BY <1>2, <2>1, WorkersAttempt, IInvTypes DEF PointWorkspace
    <3>2. QED
      BY <3>1 DEF DataKept, Present, IInv, RowsConsistent
  <2>4. RowSame(j)
    BY <2>2, <2>3 DEF RowSame, OutcomeOf
  <2>5. QED
    BY <2>2, <2>4, OthersSame, BoardStutters
<1>3. CASE RegisterPackage(x)
  BY <1>3, BoardIsDelivered
<1>4. CASE x.pc = "registered" /\ FinishRow(x, "succeeded")
  BY <1>4, BoardCloses
<1>5. CASE x.pc \in {"failing", "cancelling"} /\ FinishRow(x, "failed")
  BY <1>5, BoardCloses
<1>6. CASE UNCHANGED <<jobs, registered>>
  <2>1. \A j \in JobId : RowSame(j)
    BY <1>6 DEF RowSame, OutcomeOf
  <2>2. QED
    BY <1>6, <2>1, BoardStutters
<1>7. QED
  BY <1>1, <1>2, <1>3, <1>4, <1>5, <1>6 DEF Perform

LEMMA AnnouncedSame ==
  ASSUME IInv, NEW x \in RequestState, Known(x), Announce(x)
  PROVE  \A j \in JobId : RowSame(j)
<1>1. PICK j \in JobId : j = x.job
  BY AnnounceDoes
<1>2. OnlyRow(j) /\ jobs'[j] = [jobs[j] EXCEPT !.announced = TRUE]
  BY <1>1, AnnounceDoes
<1>3. jobs[j] \in JobRow
  BY IInvTypes
<1>4. RowSame(j)
  BY <1>2, <1>3 DEF RowSame, OutcomeOf, JobRow
<1>5. QED
  BY <1>2, <1>4, OthersSame

\* What a call of queue_job does unseen by its caller, late or failed.
LEMMA PostOnBoard ==
  ASSUME IInv, NEW x \in RequestState, Known(x), Post(x) \/ UNCHANGED jobs,
         registered' = registered, AnswersSame
  PROVE  [Board!Next]_(Board!boardVars)
<1>1. CASE \A j \in JobId : RowSame(j)
  BY <1>1, BoardStutters
<1>2. CASE UNCHANGED jobs
  BY <1>1, <1>2 DEF RowSame, OutcomeOf
<1>3. QED
  BY <1>1, <1>2, AnnouncedSame, BoardPosts DEF Post

LEMMA RequestOnBoard ==
  ASSUME IInv, UnkeyedAreOwned, NEW r \in Request, RequestNext(r)
  PROVE  [Board!Next]_(Board!boardVars)
<1>0. requests \in [Request -> RequestState] /\ NoJob \notin JobId
  BY IInvTypes
<1>1. \A q \in Request \ {r} : AnswerOf(q)' = AnswerOf(q)
  BY RequestStepIs DEF AnswerOf
<1>2. registered' = registered
  BY RequestStepIs
<1>3. jobs' = jobs => \A i \in JobId : RowSame(i)
  BY DEF RowSame, OutcomeOf
<1>4. CASE \E k \in Key \cup {NoKey} : Submit(r, k)
  <2>1. jobs' = jobs /\ requests'[r].pc # "answered"
    BY <1>0, <1>4 DEF Submit
  <2>2. AnswerOf(r)' = [key |-> NoKey, job |-> NoJob]
    BY <2>1 DEF AnswerOf
  <2>3. QED
    BY <1>1, <1>2, <1>3, <2>1, <2>2, BoardAsks
<1>5. ASSUME requests[r].pc # "answered", requests'[r].pc # "answered"
      PROVE  AnswersSame
  BY <1>1, <1>5 DEF AnswersSame, AnswerOf
<1>6. CASE Lookup(r)
  <2>1. requests[r].pc = "lookup" /\ jobs' = jobs
    BY <1>6 DEF Lookup
  <2>2. ASSUME NEW j \in Holding(requests[r].key),
               requests' = [requests EXCEPT
                 ![r] = [@ EXCEPT !.pc = "answered", !.job = j]]
        PROVE  Board!Next
    <3>1. /\ j \in JobId /\ Present(j) /\ jobs[j].key = requests[r].key
          /\ jobs[j].key # NoKey
      BY DEF Holding
    <3>2. AnswerOf(r)' = [key |-> jobs[j].key, job |-> j]
      <4>1. /\ requests'[r].pc = "answered" /\ requests'[r].job = j
            /\ requests'[r].key = requests[r].key
        BY <1>0, <2>2 DEF RequestState
      <4>2. QED
        BY <3>1, <4>1 DEF AnswerOf
    <3>3. QED
      BY <1>1, <1>2, <1>3, <2>1, <3>1, <3>2, BoardAnswers
  <2>3. CASE requests' = [requests EXCEPT
               ![r] = [@ EXCEPT !.pc = "insert", !.before = Posted]]
    <3>1. requests'[r].pc = "insert"
      BY <1>0, <2>3 DEF RequestState
    <3>2. QED
      BY <1>2, <1>3, <1>5, <2>1, <3>1, BoardStutters
  <2>4. QED
    BY <1>6, <2>2, <2>3 DEF Lookup
<1>x. PICK x \in RequestState : x = requests[r] /\ Known(x)
  BY RequestStepIs
<1>7. CASE CreateJob(r)
  <2>1. x.pc = "insert" /\ requests'[r].pc \in {"audit", "error"}
    <3>1. x.pc = "insert"
      BY <1>7, <1>x DEF CreateJob, Insert
    <3>2. \E j, label : Inserted(r, j, label) /\ label \in {"audit", "error"}
      BY <1>7 DEF CreateJob
    <3>3. QED
      BY <1>0, <3>1, <3>2 DEF Inserted, RequestState
  <2>2. AnswersSame
    BY <1>5, <1>x, <2>1
  <2>3. Post(x) \/ UNCHANGED jobs
    BY <1>7, <1>x DEF CreateJob, Post
  <2>4. QED
    BY <1>2, <1>x, <2>2, <2>3, PostOnBoard
<1>8. CASE AuditQueued(r)
  <2>1. /\ requests[r].pc = "audit" /\ Announce(x)
        /\ requests' = [requests EXCEPT ![r].pc = "answered"]
    BY <1>8, <1>x DEF AuditQueued, Announce
  <2>2. PICK j \in JobId : /\ j = requests[r].job /\ Present(j)
                           /\ jobs[j].key = requests[r].key
    BY <2>1, AnsweredHasJob
  <2>3. AnswerOf(r)' = [key |-> jobs[j].key, job |-> j]
    <3>1. /\ requests'[r].pc = "answered" /\ requests'[r].job = j
          /\ requests'[r].key = requests[r].key
      BY <1>0, <2>1, <2>2 DEF RequestState
    <3>2. QED
      BY <2>2, <3>1 DEF AnswerOf
  <2>4. ASSUME jobs[j].key = NoKey, NEW q \in Request, AnswerOf(q).job = j
        PROVE  FALSE
    <3>1. requests[q].pc = "answered" /\ requests[q].job = j
      BY <1>0, <2>4 DEF AnswerOf
    <3>2. q = r
      BY <2>1, <2>2, <2>4, <3>1 DEF UnkeyedAreOwned
    <3>3. QED
      BY <2>1, <3>1, <3>2
  <2>5. QED
    BY <1>1, <1>2, <1>x, <2>1, <2>2, <2>3, <2>4, AnnouncedSame, BoardAnswers
<1>9. CASE RequestFails(r)
  <2>1. x.pc \in {"lookup", "insert", "audit"} /\ requests'[r].pc = "error"
    BY <1>0, <1>9, <1>x DEF RequestFails, Inserted, RequestState
  <2>2. AnswersSame
    BY <1>5, <1>x, <2>1
  <2>3. Post(x) \/ UNCHANGED jobs
    BY <1>9, <1>x DEF RequestFails
  <2>4. QED
    BY <1>2, <1>x, <2>2, <2>3, PostOnBoard
<1>10. QED
  BY <1>4, <1>6, <1>7, <1>8, <1>9 DEF RequestNext

LEMMA StepOnBoard ==
  ASSUME IInv, UnkeyedAreOwned, [Next]_vars
  PROVE  [Board!Next]_(Board!boardVars)
<1>0. DataKept
  BY StepKeeps
<1>1. requests' = requests => AnswersSame
  BY DEF AnswersSame, AnswerOf
<1>2. ASSUME NEW w \in Worker, Start(w) \/ WorkerStep(w)
      PROVE  [Board!Next]_(Board!boardVars)
  BY <1>0, <1>1, <1>2, WorkerStepIs, PerformOnBoard
<1>3. ASSUME NEW w \in Worker, Crash(w) \/ Stop(w) \/ CallFails(w)
      PROVE  [Board!Next]_(Board!boardVars)
  BY <1>0, <1>1, <1>3, FaultIs, PerformOnBoard
<1>4. ASSUME NEW j \in JobId, LeaseExpires(j)
      PROVE  [Board!Next]_(Board!boardVars)
  <2>1. /\ OnlyRow(j) /\ jobs'[j].status = jobs[j].status
        /\ jobs'[j].attempts = jobs[j].attempts
        /\ jobs'[j].endedBy = jobs[j].endedBy
    BY <1>4, LeaseDoes
  <2>2. jobs'[j].key = jobs[j].key
    BY <1>0, <1>4 DEF LeaseExpires, DataKept, Present, IInv, RowsConsistent
  <2>3. RowSame(j)
    BY <2>1, <2>2 DEF RowSame, OutcomeOf
  <2>4. QED
    BY <1>1, <1>4, <2>1, <2>3, OthersSame, BoardStutters DEF LeaseExpires
<1>5. CASE UNCHANGED vars
  <2>1. \A j \in JobId : RowSame(j)
    BY <1>5 DEF vars, RowSame, OutcomeOf
  <2>2. QED
    BY <1>1, <1>5, <2>1, BoardStutters DEF vars
<1>6. ASSUME NEW n \in 1..MaxFaults, LateCall(n)
      PROVE  [Board!Next]_(Board!boardVars)
  <2>1. lateCalls[n] \in WorkerState /\ Held(lateCalls[n])
    BY IInvParts DEF LateOK
  <2>2. Perform(lateCalls[n], BesideLate(n)) /\ requests' = requests
    BY <1>6 DEF LateCall
  <2>3. QED
    BY <1>0, <1>1, <2>1, <2>2, PerformOnBoard
<1>7. ASSUME NEW n \in 1..MaxFaults, LatePost(n)
      PROVE  [Board!Next]_(Board!boardVars)
  <2>1. latePosts[n] \in RequestState /\ Known(latePosts[n])
    BY IInvParts DEF LateOK
  <2>2. Post(latePosts[n]) /\ UNCHANGED <<requests, registered>>
    BY <1>7 DEF LatePost
  <2>3. QED
    BY <1>1, <2>1, <2>2, PostOnBoard
<1>8. QED
  BY <1>2, <1>3, <1>4, <1>5, <1>6, <1>7, RequestOnBoard DEF Next

LEMMA InitOnBoard == Init => Board!Init /\ UnkeyedAreOwned
<1> SUFFICES ASSUME Init PROVE Board!Init /\ UnkeyedAreOwned
  OBVIOUS
<1>1. /\ \A j \in JobId : /\ jobs[j].key = NoKey /\ OutcomeOf(j) = "absent"
                          /\ jobs[j].attempts = 0 /\ jobs[j].endedBy = 0
      /\ \A r \in Request : AnswerOf(r) = [key |-> NoKey, job |-> NoJob]
      /\ registered = {} /\ UnkeyedAreOwned
  BY DEF Init, Quiet, OutcomeOf, AnswerOf, UnkeyedAreOwned
<1>2. Board!Init
  BY <1>1 DEF Board!Init, Board!Nothing
<1>3. QED
  BY <1>1, <1>2

\* The queue keeps what the board promises, for any number of workers, callers,
\* keys, jobs and faults.
THEOREM BoardImplemented == Spec => ImplementsBoard
<1>1. IInv /\ UnkeyedAreOwned /\ [Next]_vars => UnkeyedAreOwned'
  BY UnkeyedStay
<1>2. IInv /\ UnkeyedAreOwned /\ [Next]_vars => [Board!Next]_(Board!boardVars)
  BY StepOnBoard
<1>3. QED
  BY InitOnBoard, <1>1, <1>2, QueueInvariant, PTL
     DEF Spec, ImplementsBoard, Board!Spec

=============================================================================
