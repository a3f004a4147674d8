----------------------------- MODULE Comparison -----------------------------
(***************************************************************************)
(* What a benchmark promises, without processes, files, labels or calls:   *)
(* every case of a run is assessed once, by its checks if they tell the    *)
(* two sides apart and by an opinion on the two sides otherwise; a run is  *)
(* reported with the tally of all its cases, or it fails.                  *)
(***************************************************************************)
EXTENDS Naturals, FiniteSets

CONSTANTS Run, Case, CasesOf, Unjudged

Side == {"candidate", "baseline"}
Verdict == [winner : Side \cup {"tie"}, pass : [Side -> BOOLEAN]]
Checks == [Side -> BOOLEAN]   \* does a side pass all checks of the case?
Assessment == [checks : Checks, opinion : Verdict, verdict : Verdict]

VARIABLES
  runs,      \* the status and the summary of each run
  assessed   \* how each case of each run was assessed

comparisonVars == <<runs, assessed>>

NoSummary == [candidate |-> 0, baseline |-> 0, candidateWins |-> 0,
              baselineWins |-> 0, ties |-> 0]

Tally(verdicts) ==
  LET Passes(side) == Cardinality({c \in DOMAIN verdicts : verdicts[c].pass[side]})
      Wins(winner) == Cardinality({c \in DOMAIN verdicts :
                                     verdicts[c].winner = winner})
  IN  [candidate |-> Passes("candidate"), baseline |-> Passes("baseline"),
       candidateWins |-> Wins("candidate"), baselineWins |-> Wins("baseline"),
       ties |-> Wins("tie")]

Init ==
  /\ runs = [r \in Run |-> [status |-> "absent", summary |-> NoSummary]]
  /\ assessed = [r \in Run |-> [c \in Case |-> Unjudged]]

\* Checks that both sides pass decide nothing.
Decisive(checks) == \E s \in Side : ~checks[s]

\* The only side that passes its checks wins.
Justified(a) ==
  IF Decisive(a.checks)
  THEN /\ a.verdict.pass = a.checks
       /\ {s \in Side : a.checks[s]} = {a.verdict.winner} \cap Side
  ELSE a.verdict = a.opinion

Open(r) ==
  /\ runs[r].status = "absent"
  /\ runs' = [runs EXCEPT ![r].status = "running"]
  /\ UNCHANGED assessed

Assess(r, c) ==
  /\ runs[r].status = "running"
  /\ c \in CasesOf[r] /\ assessed[r][c] = Unjudged
  /\ assessed'[r][c] \in Assessment
  /\ Justified(assessed'[r][c])
  /\ assessed' = [assessed EXCEPT ![r][c] = assessed'[r][c]]
  /\ UNCHANGED runs

Report(r) ==
  /\ runs[r].status = "running"
  /\ \A c \in CasesOf[r] : assessed[r][c] # Unjudged
  /\ runs' = [runs EXCEPT ![r] =
       [status |-> "succeeded",
        summary |-> Tally([c \in CasesOf[r] |-> assessed[r][c].verdict])]]
  /\ UNCHANGED assessed

\* Also after a report whose author never learned of it.
Fail(r) ==
  /\ runs[r].status \in {"running", "succeeded"}
  /\ runs' = [runs EXCEPT ![r] = [status |-> "failed", summary |-> NoSummary]]
  /\ UNCHANGED assessed

Next ==
  \E r \in Run : \/ Open(r) \/ Report(r) \/ Fail(r)
                 \/ \E c \in Case : Assess(r, c)

Spec == Init /\ [][Next]_comparisonVars

=============================================================================
