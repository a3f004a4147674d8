------------------------------ MODULE JobBoard ------------------------------
(***************************************************************************)
(* What the job queue promises to those who post jobs and read them,       *)
(* without rows, leases, workers, calls or faults: a job is posted once    *)
(* for a key and is the answer to whoever comes with that key, a caller    *)
(* without a key has a job of its own, attempts are numbered and handed    *)
(* out while the job is open, packages come from attempts that were handed *)
(* out, and a job is closed once, as succeeded only on a package.          *)
(***************************************************************************)
EXTENDS Naturals

CONSTANTS JobId, Request, Key, NoKey, NoJob

VARIABLES
  key,        \* the key each job was posted with
  outcome,    \* what is known of each job
  handed,     \* the attempts at each job handed out so far
  endedBy,    \* the attempt that closed it
  packages,   \* the <<job, attempt>> pairs that delivered a package
  answers     \* the job each caller was answered with, and for which key

boardVars == <<key, outcome, handed, endedBy, packages, answers>>

Nothing == [key |-> NoKey, job |-> NoJob]

Init ==
  /\ key = [j \in JobId |-> NoKey]
  /\ outcome = [j \in JobId |-> "absent"]
  /\ handed = [j \in JobId |-> 0]
  /\ endedBy = [j \in JobId |-> 0]
  /\ packages = {}
  /\ answers = [r \in Request |-> Nothing]

Posted(j) == outcome[j] # "absent"

Post(j, k) ==
  /\ ~Posted(j)
  /\ k # NoKey => \A i \in JobId : Posted(i) => key[i] # k
  /\ key' = [key EXCEPT ![j] = k]
  /\ outcome' = [outcome EXCEPT ![j] = "open"]
  /\ UNCHANGED <<handed, endedBy, packages, answers>>

\* Only a key lets two callers share a job.
Answer(r, j) ==
  /\ Posted(j)
  /\ key[j] = NoKey => \A q \in Request : answers[q].job # j
  /\ answers' = [answers EXCEPT ![r] = [key |-> key[j], job |-> j]]
  /\ UNCHANGED <<key, outcome, handed, endedBy, packages>>

\* A caller asks again and has no answer yet.
Ask(r) ==
  /\ answers' = [answers EXCEPT ![r] = Nothing]
  /\ UNCHANGED <<key, outcome, handed, endedBy, packages>>

HandOut(j) ==
  /\ outcome[j] = "open"
  /\ handed' = [handed EXCEPT ![j] = @ + 1]
  /\ UNCHANGED <<key, outcome, endedBy, packages, answers>>

\* Late or repeated, also of a job that is closed.
Deliver(j, a) ==
  /\ packages' = packages \cup {<<j, a>>}
  /\ UNCHANGED <<key, outcome, handed, endedBy, answers>>

Close(j, a, result) ==
  /\ outcome[j] = "open"
  /\ result = "succeeded" => <<j, a>> \in packages
  /\ outcome' = [outcome EXCEPT ![j] = result]
  /\ endedBy' = [endedBy EXCEPT ![j] = a]
  /\ UNCHANGED <<key, handed, packages, answers>>

Next ==
  \/ \E j \in JobId : ~Posted(j) /\ \E k \in Key \cup {NoKey} : Post(j, k)
  \/ \E r \in Request : Ask(r) \/ \E j \in JobId : Answer(r, j)
  \/ \E j \in JobId :
       /\ outcome[j] = "open"
       /\ \/ HandOut(j)
          \/ \E a \in 1..handed[j], result \in {"succeeded", "failed"} :
               Close(j, a, result)
  \/ \E j \in JobId : \E a \in 1..handed[j] : Deliver(j, a)

Spec == Init /\ [][Next]_boardVars

=============================================================================
