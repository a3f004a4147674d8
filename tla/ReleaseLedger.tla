---------------------------- MODULE ReleaseLedger ----------------------------
(***************************************************************************)
(* What the release transitions of migration 0002 promise, without their   *)
(* statements, locks and transactions: each skill has at most one          *)
(* production version; it changes to a version that passed its gate at     *)
(* that very moment, by an explicit override, or back to a version that    *)
(* was in production before.                                               *)
(***************************************************************************)
CONSTANTS Skill, Version, SkillOf, NoRelease

Grade == {"draft", "candidate", "passed", "failed"}

VARIABLES
  status,      \* the gate status of each version
  production,  \* the production release of each skill
  shipped      \* the versions each skill has had in production

ledgerVars == <<status, production, shipped>>

Init ==
  /\ status = [v \in Version |-> "draft"]
  /\ production = [s \in Skill |-> NoRelease]
  /\ shipped = [s \in Skill |-> {}]

SetStatus(v, grade) ==
  /\ status' = [status EXCEPT ![v] = grade]
  /\ UNCHANGED <<production, shipped>>

Ship(s, v, grounds) ==
  /\ production' = [production EXCEPT ![s] = [version |-> v, grounds |-> grounds]]
  /\ shipped' = [shipped EXCEPT ![s] = @ \cup {v}]
  /\ UNCHANGED status

Promote(v) == status[v] = "passed" /\ Ship(SkillOf[v], v, "gate")

Override(v) == Ship(SkillOf[v], v, "override")

Rollback(s, v) == v \in shipped[s] /\ Ship(s, v, "rollback")

Next ==
  \/ \E v \in Version, grade \in Grade \ {"draft"} : SetStatus(v, grade)
  \/ \E v \in Version : Promote(v) \/ Override(v)
  \/ \E s \in Skill, v \in Version : Rollback(s, v)

Spec == Init /\ [][Next]_ledgerVars

=============================================================================
