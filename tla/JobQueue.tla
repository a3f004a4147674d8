------------------------------ MODULE JobQueue ------------------------------
(***************************************************************************)
(* The jobs table, the requests that fill it and the workers that empty    *)
(* it: queue_job in apps/api/app/main.py, the functions                    *)
(* claim_next_skill_job and finish_skill_job of migration 0003, and        *)
(* JobWorker.run_once in workers/main.py.                                  *)
(*                                                                         *)
(* One action is one statement the database executes or one step of a      *)
(* worker between two of its calls.  A call that goes wrong (the worker    *)
(* dies, the operator stops it, or the reply does not come back) leaves it *)
(* open whether the database executed it, never will, or will when the     *)
(* caller has long gone on.                                                *)
(***************************************************************************)
EXTENDS Naturals, FiniteSets

CONSTANTS
  Worker,      \* worker processes
  Request,     \* concurrent callers of the POST /jobs routes
  Key,         \* idempotency keys
  EmptyKey,    \* the key "": present in a row, but falsy in queue_job
  NoKey,       \* a request without a key: never equal to another one
  Faults,      \* the kinds of fault that may happen
  MaxJobs,     \* bound: rows of the jobs table
  MaxFaults    \* bound: faults in one behaviour

ASSUME JobQueueAssumption ==
  /\ MaxJobs \in Nat
  /\ MaxFaults \in Nat
  /\ NoKey \notin Key
  /\ IsFiniteSet(Worker)
  /\ Faults \subseteq {"crash", "stop", "call", "late"}

JobId == 1..MaxJobs       \* in the order of created_at
NoJob == 0
Ended == {"succeeded", "failed"}

VARIABLES
  jobs,        \* the rows of the jobs table, "absent" until inserted
  requests,    \* what each caller is doing, and the job it was answered with
  workers,     \* what each worker is doing, and the attempt it works on
  registered,  \* the <<job, attempt>> pairs whose package became a version
  lateCalls,   \* the worker's call the n-th fault left for later, if any
  latePosts,   \* the same for the calls of requests
  faults       \* faults so far

late == <<lateCalls, latePosts>>
vars == <<jobs, requests, workers, registered, lateCalls, latePosts, faults>>

JobRow ==
  [status    : {"absent", "queued", "running"} \cup Ended,
   key       : Key \cup {NoKey},
   announced : BOOLEAN,                    \* its "job.queued" audit event
   attempts  : Nat,                        \* attempt_count
   lease     : {"none", "live", "expired"},
   workspace : Nat,                        \* attempt workspace_path names
   endedBy   : Nat]                        \* attempt whose worker ended it

RequestState ==
  [pc     : {"idle", "lookup", "insert", "audit", "answered", "error"},
   key    : Key \cup {NoKey},
   before : SUBSET JobId,        \* the rows there when it sent its insert
   job    : JobId \cup {NoJob}]

WorkerState ==
  [pc      : {"down", "idle", "claimed", "working", "registered", "failing",
              "cancelling"},
   job     : JobId \cup {NoJob},
   attempt : Nat]

TypeOK ==
  /\ jobs \in [JobId -> JobRow]
  /\ requests \in [Request -> RequestState]
  /\ workers \in [Worker -> WorkerState]
  /\ registered \subseteq JobId \X Nat
  /\ lateCalls \in [1..MaxFaults -> WorkerState]
  /\ latePosts \in [1..MaxFaults -> RequestState]
  /\ faults \in 0..MaxFaults

Down == [pc |-> "down", job |-> NoJob, attempt |-> 0]
Idle == [pc |-> "idle", job |-> NoJob, attempt |-> 0]
Quiet == [pc |-> "idle", key |-> NoKey, before |-> {}, job |-> NoJob]

Init ==
  /\ jobs = [j \in JobId |->
               [status |-> "absent", key |-> NoKey, announced |-> FALSE,
                attempts |-> 0, lease |-> "none", workspace |-> 0,
                endedBy |-> 0]]
  /\ requests = [r \in Request |-> Quiet]
  /\ workers = [w \in Worker |-> Down]
  /\ registered = {}
  /\ lateCalls = [n \in 1..MaxFaults |-> Down]
  /\ latePosts = [n \in 1..MaxFaults |-> Quiet]
  /\ faults = 0

----------------------------------------------------------------------------
(* Requests: queue_job.                                                    *)

Present(j) == jobs[j].status # "absent"
InFlight(r) == requests[r].pc \in {"lookup", "insert"}

Posted == {j \in JobId : Present(j)}

\* The rows still free cover the requests, and late inserts, that may take one.
RoomForRequest ==
  Cardinality(Posted) + Cardinality({r \in Request : InFlight(r)})
    + Cardinality({n \in 1..MaxFaults : latePosts[n].pc = "insert"}) < MaxJobs

\* A caller posts a job; only a truthy key is looked up first.
Submit(r, k) ==
  /\ requests[r].pc \in {"idle", "answered", "error"}
  /\ RoomForRequest
  /\ requests' = [requests EXCEPT ![r] =
        IF k \in {NoKey, EmptyKey}
        THEN [pc |-> "insert", key |-> k, before |-> Posted, job |-> NoJob]
        ELSE [pc |-> "lookup", key |-> k, before |-> {}, job |-> NoJob]]
  /\ UNCHANGED <<jobs, workers, registered, late, faults>>

Holding(k) == {j \in JobId : Present(j) /\ k # NoKey /\ jobs[j].key = k}

\* get_job_by_idempotency_key: an existing job is the answer.
Lookup(r) ==
  /\ requests[r].pc = "lookup"
  /\ \/ \E j \in Holding(requests[r].key) :
          requests' = [requests EXCEPT
            ![r] = [@ EXCEPT !.pc = "answered", !.job = j]]
     \/ /\ Holding(requests[r].key) = {}
        /\ requests' = [requests EXCEPT
             ![r] = [@ EXCEPT !.pc = "insert", !.before = Posted]]
  /\ UNCHANGED <<jobs, workers, registered, late, faults>>

Inserting ==
  Cardinality({r \in Request : requests[r].pc = "insert"})
    + Cardinality({n \in 1..MaxFaults : latePosts[n].pc = "insert"})

\* created_at is the start of the inserting transaction: later than the rows
\* there when the call was sent, not than all that were committed since.  The
\* rows left free below it are for the other inserts under way.
Place(x, j) ==
  /\ ~Present(j)
  /\ \A i \in x.before : i < j
  /\ Cardinality({i \in JobId : i < j /\ ~Present(i)}) < Inserting

\* Mutant: the unique index on idempotency_key is missing.
InsertDuplicate(x, j) ==
  /\ x.pc = "insert"
  /\ Place(x, j)
  /\ jobs' = [jobs EXCEPT ![j] =
       [@ EXCEPT !.status = "queued", !.key = x.key]]

\* The unique index lets one row in for a key; nulls are distinct.
Insert(x, j) ==
  /\ x.pc = "insert"
  /\ Holding(x.key) = {}
  /\ Place(x, j)
  /\ jobs' = [jobs EXCEPT ![j] =
       [@ EXCEPT !.status = "queued", !.key = x.key]]

\* The reply to the insert: the row, or the refusal of the unique index.
Inserted(r, j, label) ==
  requests' = [requests EXCEPT
    ![r] = [@ EXCEPT !.pc = label, !.before = {}, !.job = j]]

\* Mutant: the job is returned before its event is written.
CreateJobSilently(r) ==
  /\ \/ \E j \in JobId :
          Insert(requests[r], j) /\ Inserted(r, j, "answered")
     \/ /\ requests[r].pc = "insert"
        /\ Holding(requests[r].key) # {}
        /\ Inserted(r, NoJob, "error")
        /\ UNCHANGED jobs
  /\ UNCHANGED <<workers, registered, late, faults>>

\* create_job: the unique index decides between requests with one key.
CreateJob(r) ==
  /\ \/ \E j \in JobId :
          Insert(requests[r], j) /\ Inserted(r, j, "audit")
     \/ /\ requests[r].pc = "insert"
        /\ Holding(requests[r].key) # {}
        /\ Inserted(r, NoJob, "error")
        /\ UNCHANGED jobs
  /\ UNCHANGED <<workers, registered, late, faults>>

Announce(x) ==
  /\ x.pc = "audit"
  /\ jobs' = [jobs EXCEPT ![x.job].announced = TRUE]

\* create_audit_event("job.queued"), then the job is returned.
AuditQueued(r) ==
  /\ Announce(requests[r])
  /\ requests' = [requests EXCEPT ![r].pc = "answered"]
  /\ UNCHANGED <<workers, registered, late, faults>>

\* What the database does for a call of queue_job.
Post(x) == (\E j \in JobId : Insert(x, j)) \/ Announce(x)

\* A call of queue_job fails, or the API dies, and the call was executed, never
\* will be, or will be later: the caller gets an error.
RequestFails(r) ==
  /\ Faults \cap {"crash", "call"} # {}
  /\ faults < MaxFaults
  /\ requests[r].pc \in {"lookup", "insert", "audit"}
  /\ \/ (Post(requests[r]) \/ UNCHANGED jobs) /\ UNCHANGED latePosts
     \/ /\ "late" \in Faults /\ requests[r].pc \in {"insert", "audit"}
        /\ latePosts' = [latePosts EXCEPT ![faults + 1] = requests[r]]
        /\ UNCHANGED jobs
  /\ Inserted(r, NoJob, "error")
  /\ faults' = faults + 1
  /\ UNCHANGED <<workers, registered, lateCalls>>

\* It is executed when nobody waits for it any more.
LatePost(n) ==
  /\ Post(latePosts[n])
  /\ latePosts' = [latePosts EXCEPT ![n] = Quiet]
  /\ UNCHANGED <<requests, workers, registered, lateCalls, faults>>

----------------------------------------------------------------------------
(* The database side of a worker's calls.                                  *)

JobOf(w) == workers[w].job

\* Mutant: an expired lease does not make a job claimable again.
ClaimableOnce(j) == jobs[j].status = "queued"

Claimable(j) ==
  \/ jobs[j].status = "queued"
  \/ jobs[j].status = "running" /\ jobs[j].lease = "expired"

\* The calls that may be in execution beside one of w's, or the late n-th.
Beside(w) == {workers[v] : v \in Worker \ {w}}
               \cup {lateCalls[n] : n \in 1..MaxFaults}
BesideLate(n) == {workers[w] : w \in Worker}
                   \cup {lateCalls[m] : m \in (1..MaxFaults) \ {n}}

\* The row may be locked by one of the calls now being executed.
Contended(j, calls) ==
  \E x \in calls :
    \/ x.pc = "idle"
    \/ (x.job = j /\ x.pc \notin {"down", "working"})

\* Mutant: a claim does not count as an attempt.
ClaimRowUncounted(x, j, calls) ==
  /\ x.pc = "idle"
  /\ Claimable(j)
  /\ \A i \in JobId : i < j /\ Claimable(i) => Contended(i, calls)
  /\ jobs' = [jobs EXCEPT ![j] =
       [@ EXCEPT !.status = "running", !.lease = "live"]]
  /\ UNCHANGED registered

\* claim_next_skill_job: the oldest claimable row that is not locked.
ClaimRow(x, j, calls) ==
  /\ x.pc = "idle"
  /\ Claimable(j)
  /\ \A i \in JobId : i < j /\ Claimable(i) => Contended(i, calls)
  /\ jobs' = [jobs EXCEPT ![j] =
       [@ EXCEPT !.status = "running", !.lease = "live",
                 !.attempts = jobs[j].attempts + 1]]
  /\ UNCHANGED registered

\* set_job_workspace: a PATCH by id, whatever has become of the job.
PointWorkspace(x) ==
  /\ x.pc = "claimed"
  /\ jobs' = [jobs EXCEPT ![x.job].workspace = x.attempt]
  /\ UNCHANGED registered

\* import_skill and its siblings: the package becomes a registered version.
RegisterPackage(x) ==
  /\ x.pc = "working"
  /\ registered' = registered \cup {<<x.job, x.attempt>>}
  /\ UNCHANGED jobs

\* Mutant: the update of finish_skill_job does not ask for a running job.
FinishRowAlways(x, outcome) ==
  /\ jobs' = [jobs EXCEPT ![x.job] =
       [@ EXCEPT !.status = outcome, !.lease = "none",
                 !.endedBy = x.attempt]]
  /\ UNCHANGED registered

\* finish_skill_job: refused unless the job runs, whoever runs it.
Finishable(w) == jobs[JobOf(w)].status = "running"

FinishRow(x, outcome) ==
  /\ jobs[x.job].status = "running"
  /\ jobs' = [jobs EXCEPT ![x.job] =
       [@ EXCEPT !.status = outcome, !.lease = "none",
                 !.endedBy = x.attempt]]
  /\ UNCHANGED registered

\* What the database does for the call of a worker that is where x is.
Perform(x, calls) ==
  \/ \E j \in JobId : ClaimRow(x, j, calls)
  \/ PointWorkspace(x)
  \/ RegisterPackage(x)
  \/ x.pc = "registered" /\ FinishRow(x, "succeeded")
  \/ x.pc \in {"failing", "cancelling"} /\ FinishRow(x, "failed")

----------------------------------------------------------------------------
(* Workers: JobWorker.run_once, without and with faults.                   *)

Goto(w, label) == workers' = [workers EXCEPT ![w].pc = label]
Quit(w) == workers' = [workers EXCEPT ![w] = Down]

Start(w) ==
  /\ workers[w].pc = "down"
  /\ workers' = [workers EXCEPT ![w] = Idle]
  /\ UNCHANGED <<jobs, requests, registered, late, faults>>

\* Mutant: the claim returns the row as it was before its update.
ClaimOldRow(w) ==
  /\ \E j \in JobId :
       /\ ClaimRow(workers[w], j, Beside(w))
       /\ workers' = [workers EXCEPT ![w] =
            [pc |-> "claimed", job |-> j, attempt |-> jobs[j].attempts]]
  /\ UNCHANGED <<requests, late, faults>>

Claim(w) ==
  /\ \E j \in JobId :
       /\ ClaimRow(workers[w], j, Beside(w))
       /\ workers' = [workers EXCEPT ![w] =
            [pc |-> "claimed", job |-> j, attempt |-> jobs[j].attempts + 1]]
  /\ UNCHANGED <<requests, late, faults>>

\* Mutant: the row is not told about the workspace.
OpenWorkspaceUnsaved(w) ==
  /\ workers[w].pc = "claimed"
  /\ Goto(w, "working")
  /\ UNCHANGED <<jobs, requests, registered, late, faults>>

OpenWorkspace(w) ==
  /\ PointWorkspace(workers[w])
  /\ Goto(w, "working")
  /\ UNCHANGED <<requests, late, faults>>

\* The engine produced a package and its registration went through.
Register(w) ==
  /\ RegisterPackage(workers[w])
  /\ Goto(w, "registered")
  /\ UNCHANGED <<requests, late, faults>>

\* Mutant: the exception is swallowed.
BodyFailureSwallowed(w) ==
  /\ workers[w].pc = "working"
  /\ Goto(w, "registered")
  /\ UNCHANGED <<jobs, requests, registered, late, faults>>

\* Mutant: there is no except block, the process ends.
BodyFailureUncaught(w) ==
  /\ workers[w].pc = "working"
  /\ Quit(w)
  /\ UNCHANGED <<jobs, requests, registered, late, faults>>

\* Preparing, running or registering raised before a version existed.
BodyFails(w) ==
  /\ workers[w].pc = "working"
  /\ Goto(w, "failing")
  /\ UNCHANGED <<jobs, requests, registered, late, faults>>

\* Mutant: the outcome is not reported.
FinishForgotten(w) ==
  /\ workers[w].pc = "registered"
  /\ workers' = [workers EXCEPT ![w] = Idle]
  /\ UNCHANGED <<jobs, requests, registered, late, faults>>

FinishSucceeded(w) ==
  /\ workers[w].pc = "registered"
  /\ FinishRow(workers[w], "succeeded")
  /\ workers' = [workers EXCEPT ![w] = Idle]
  /\ UNCHANGED <<requests, late, faults>>

\* The refusal is an exception of the try block.
FinishRefused(w) ==
  /\ workers[w].pc = "registered"
  /\ ~Finishable(w)
  /\ Goto(w, "failing")
  /\ UNCHANGED <<jobs, requests, registered, late, faults>>

\* The except block; a refusal there ends the process.
FinishFailed(w) ==
  /\ workers[w].pc = "failing"
  /\ \/ /\ FinishRow(workers[w], "failed")
        /\ workers' = [workers EXCEPT ![w] = Idle]
     \/ /\ ~Finishable(w)
        /\ Quit(w)
        /\ UNCHANGED <<jobs, registered>>
  /\ UNCHANGED <<requests, late, faults>>

\* The CancelledError handler, which then lets the process end.
RecordInterrupted(w) ==
  /\ workers[w].pc = "cancelling"
  /\ \/ FinishRow(workers[w], "failed")
     \/ ~Finishable(w) /\ UNCHANGED <<jobs, registered>>
  /\ Quit(w)
  /\ UNCHANGED <<requests, late, faults>>

\* 300 seconds have passed since the claim; nothing renews a lease.
LeaseExpires(j) ==
  /\ jobs[j].lease = "live"
  /\ jobs' = [jobs EXCEPT ![j].lease = "expired"]
  /\ UNCHANGED <<requests, workers, registered, late, faults>>

\* The call a worker waits for was executed, never will be, or will be later.
Fault(w, kind) ==
  /\ kind \in Faults
  /\ faults < MaxFaults
  /\ faults' = faults + 1
  /\ workers[w].pc # "down"
  /\ \/ /\ Perform(workers[w], Beside(w)) \/ UNCHANGED <<jobs, registered>>
        /\ UNCHANGED lateCalls
     \/ /\ "late" \in Faults
        /\ lateCalls' = [lateCalls EXCEPT ![faults + 1] = workers[w]]
        /\ UNCHANGED <<jobs, registered>>
  /\ UNCHANGED <<requests, latePosts>>

LateCall(n) ==
  /\ Perform(lateCalls[n], BesideLate(n))
  /\ lateCalls' = [lateCalls EXCEPT ![n] = Down]
  /\ UNCHANGED <<requests, workers, latePosts, faults>>

InTry(w) == workers[w].pc \in {"working", "registered"}

\* The process dies.
Crash(w) == Fault(w, "crash") /\ Quit(w)

\* The operator interrupts it: CancelledError at whatever it awaits.
Stop(w) ==
  /\ Fault(w, "stop")
  /\ IF InTry(w) THEN Goto(w, "cancelling") ELSE Quit(w)

\* A call raises: inside the try block the except block runs.
CallFails(w) ==
  /\ Fault(w, "call")
  /\ IF InTry(w) THEN Goto(w, "failing") ELSE Quit(w)

----------------------------------------------------------------------------
RequestNext(r) ==
  \/ \E k \in Key \cup {NoKey} : Submit(r, k)
  \/ Lookup(r) \/ CreateJob(r) \/ AuditQueued(r) \/ RequestFails(r)

WorkerStep(w) ==
  \/ Claim(w) \/ OpenWorkspace(w) \/ Register(w) \/ BodyFails(w)
  \/ FinishSucceeded(w) \/ FinishRefused(w) \/ FinishFailed(w)
  \/ RecordInterrupted(w)

Next ==
  \/ \E r \in Request : RequestNext(r)
  \/ \E w \in Worker : Start(w) \/ WorkerStep(w)
  \/ \E w \in Worker : Crash(w) \/ Stop(w) \/ CallFails(w)
  \/ \E n \in 1..MaxFaults : LateCall(n) \/ LatePost(n)
  \/ \E j \in JobId : LeaseExpires(j)

Spec == Init /\ [][Next]_vars

\* Time passes, every call of the database returns within its 30 seconds, and
\* the operator starts a worker that is down.  Nothing bounds what happens in
\* "working": after its timeout an engine is killed, but then waited for.
Fairness ==
  /\ \A w \in Worker :
       /\ WF_vars(Start(w))
       /\ WF_vars(workers[w].pc # "working" /\ WorkerStep(w))
  /\ \A j \in JobId : WF_vars(LeaseExpires(j))

FairSpec == Spec /\ Fairness

----------------------------------------------------------------------------
(* Properties.                                                             *)

Holders(j) == {w \in Worker : JobOf(w) = j}

\* Two workers never work on one attempt of one job: the claim is atomic
\* (select for update skip locked, 0003_job_claiming.sql:16-33).
OneHolderPerAttempt ==
  \A v, w \in Worker :
    JobOf(v) = JobOf(w) /\ JobOf(v) # NoJob
      /\ workers[v].attempt = workers[w].attempt => v = w

\* The attempt whose worker reported success did register its package, even
\* when leases expire and a late worker ends a job another one works on.
OutputWasRegistered ==
  \A j \in JobId : jobs[j].status = "succeeded" =>
    <<j, jobs[j].endedBy>> \in registered

\* All callers answered for one idempotency key got the same job, however
\* their lookups and inserts interleave (queue_job, main.py:106-125).
OneAnswerPerKey ==
  \A r, s \in Request :
    /\ requests[r].pc = "answered" /\ requests[s].pc = "answered"
    /\ requests[r].key = requests[s].key /\ requests[r].key # NoKey
    => requests[r].job = requests[s].job

\* Without a fault no attempt is wasted: a job that has not ended was claimed
\* no more often than there are workers still on it and faults so far.
NoWastedAttempt ==
  \A j \in JobId : jobs[j].status \in {"queued", "running"} =>
    jobs[j].attempts <= Cardinality(Holders(j)) + faults

Unannounced(j) ==
  /\ Present(j) /\ ~jobs[j].announced
  /\ \A r \in Request : ~(requests[r].pc = "audit" /\ requests[r].job = j)

\* Only a failed call of queue_job leaves a job without "job.queued" event.
LostEventsAreFaults ==
  Cardinality({j \in JobId : Unannounced(j)}) <= faults

\* A terminal job keeps its outcome: a late worker, a second claim or a lost
\* reply never reopens it or changes who ended it (0003:18-19, 55-65).
TerminalIsFinal ==
  [][\A j \in JobId : jobs[j].status \in Ended =>
       /\ jobs'[j].status = jobs[j].status
       /\ jobs'[j].endedBy = jobs[j].endedBy
       /\ jobs'[j].attempts = jobs[j].attempts]_vars

\* What the queue is to those who post jobs and read them: JobBoard.
OutcomeOf(j) ==
  IF jobs[j].status \in {"queued", "running"} THEN "open" ELSE jobs[j].status

AnswerOf(r) ==
  IF requests[r].pc = "answered"
  THEN [key |-> requests[r].key, job |-> requests[r].job]
  ELSE [key |-> NoKey, job |-> NoJob]

Board == INSTANCE JobBoard WITH
  key      <- [j \in JobId |-> jobs[j].key],
  outcome  <- [j \in JobId |-> OutcomeOf(j)],
  handed   <- [j \in JobId |-> jobs[j].attempts],
  endedBy  <- [j \in JobId |-> jobs[j].endedBy],
  packages <- registered,
  answers  <- [r \in Request |-> AnswerOf(r)]

\* Whatever dies, expires, races or is lost, the queue keeps to the board: a key
\* has one job (0002:12), a caller without one has a job of its own, a job
\* is handed out only while it is open and closed once (0003:18-19, 55-65), and
\* a success has a package.
ImplementsBoard == Board!Spec

\* With one worker, an ended job was ended by its last attempt.
EndedByLastAttempt ==
  \A j \in JobId : jobs[j].status \in Ended =>
    jobs[j].endedBy = jobs[j].attempts

\* With one worker, the logs GET /jobs/{id}/logs shows of an ended job are
\* those of the attempt that ended it.
LogsMatchOutcome ==
  \A j \in JobId : jobs[j].status \in Ended =>
    jobs[j].workspace = jobs[j].endedBy

\* With one worker, before the first fault, a job registers at most one package
\* and a failed job none, whatever the engine takes compared with the lease
\* (both are 300 seconds).
RegisteredAtMostOnce ==
  faults = 0 => \A p \in registered :
    /\ jobs[p[1]].status # "failed"
    /\ \A q \in registered : p[1] = q[1] => p = q

\* A stopped worker does not leave its job running: README.md:28-29 "a
\* stopped worker records its claimed job as failed rather than leaving it
\* running", workers/main.py:80-82.
NoAbandonedJob ==
  \A j \in JobId : jobs[j].status = "running" => Holders(j) # {}

\* Every job ends, whatever dies on the way (0003:1-2: the lease makes a
\* crashed worker recoverable), if no worker stays in an engine for ever.
EveryJobEnds ==
  (\A w \in Worker : []<>(workers[w].pc # "working"))
    => \A j \in JobId : Present(j) ~> jobs[j].status \in Ended

----------------------------------------------------------------------------
(* The inductive invariant.                                                *)

\* A worker in the middle of run_once, or a late call of one, is at an attempt
\* its row has counted; about to report success means having registered.
Held(x) ==
  /\ IF x.pc \in {"down", "idle"}
     THEN x.job = NoJob
     ELSE /\ x.job \in JobId
          /\ x.attempt \in 1..jobs[x.job].attempts
  /\ x.pc = "registered" => <<x.job, x.attempt>> \in registered

AttemptsHeld ==
  /\ \A w \in Worker : Held(workers[w])
  /\ \A n \in 1..MaxFaults : Held(lateCalls[n])

\* Only a running job has a lease; only a claimed one has attempts.
RowsConsistent ==
  \A j \in JobId :
    /\ jobs[j].lease # "none" <=> jobs[j].status = "running"
    /\ jobs[j].status \in {"absent", "queued"} => jobs[j].attempts = 0

\* The unique index on idempotency_key.
KeysUnique ==
  \A i, j \in JobId :
    /\ Present(i) /\ Present(j)
    /\ jobs[i].key = jobs[j].key /\ jobs[i].key # NoKey
    => i = j

\* What a request, or a late call of one, knows of the job it refers to.
Known(x) ==
  x.pc \in {"audit", "answered"} =>
    /\ x.job \in JobId
    /\ Present(x.job)
    /\ jobs[x.job].key = x.key

JobsKnown ==
  /\ \A r \in Request : Known(requests[r])
  /\ \A n \in 1..MaxFaults : Known(latePosts[n])

IInv ==
  /\ TypeOK
  /\ AttemptsHeld
  /\ OneHolderPerAttempt
  /\ RowsConsistent
  /\ OutputWasRegistered
  /\ KeysUnique
  /\ JobsKnown

\* NoWastedAttempt with the claims still to be executed.
LateClaims == {n \in 1..MaxFaults : lateCalls[n].pc = "idle"}
AttemptsAccounted ==
  /\ Cardinality(LateClaims) <= faults
  /\ \A j \in JobId : jobs[j].status \in {"queued", "running"} =>
       jobs[j].attempts + Cardinality(LateClaims)
         <= Cardinality(Holders(j)) + faults

\* LostEventsAreFaults with the inserts still to be executed.
LateInserts == {n \in 1..MaxFaults : latePosts[n].pc = "insert"}
EventsAccounted ==
  Cardinality({j \in JobId : Unannounced(j)}) + Cardinality(LateInserts)
    <= faults

\* A job without a key belongs to the one caller that posted it.
UnkeyedAreOwned ==
  \A q, r \in Request :
    /\ requests[q].pc \in {"audit", "answered"}
    /\ requests[r].pc \in {"audit", "answered"}
    /\ requests[q].job = requests[r].job /\ requests[r].key = NoKey
    => q = r

----------------------------------------------------------------------------
(* One worker, the deployment of README.md:24-31: what it adds to IInv.    *)

SoleWorker == \A v, w \in Worker : v = w

\* What ends a call ends it for the database too.
NoLateCalls == "late" \notin Faults

\* Nobody claims a job again or ends it while the worker is on it, and the row
\* names its workspace from the moment it works there.
Current(w) ==
  workers[w].pc \notin {"down", "idle"} =>
    LET row == jobs[JobOf(w)]
    IN  /\ row.attempts = workers[w].attempt
        /\ workers[w].pc \in {"claimed", "working", "registered"} =>
             row.status = "running"
        /\ workers[w].pc # "claimed" => row.workspace = workers[w].attempt

WorkerIsCurrent == \A w \in Worker : Current(w)

\* A row that runs or has ended was claimed.
RowsWereClaimed ==
  \A j \in JobId : jobs[j].status \in {"running"} \cup Ended =>
    jobs[j].attempts > 0

\* Before the first fault a package is registered by the attempt that will
\* report it, or has.
RegistrationsReported ==
  faults = 0 =>
    /\ \A p \in registered :
         \/ jobs[p[1]].status = "succeeded"
         \/ \E w \in Worker : workers[w].pc = "registered" /\ JobOf(w) = p[1]
    /\ \A w \in Worker :
         /\ workers[w].pc # "cancelling"
         /\ workers[w].pc \in {"claimed", "working", "failing"} =>
              /\ jobs[JobOf(w)].status = "running"
              /\ \A p \in registered : p[1] # JobOf(w)

SoleInv ==
  /\ WorkerIsCurrent
  /\ RowsWereClaimed
  /\ RegistrationsReported
  /\ EndedByLastAttempt
  /\ LogsMatchOutcome
  /\ RegisteredAtMostOnce

=============================================================================
