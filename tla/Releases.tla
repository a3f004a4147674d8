------------------------------ MODULE Releases ------------------------------
(***************************************************************************)
(* Production releases: LifecycleService.promote and rollback              *)
(* (apps/api/app/services.py) and the transactions promote_skill_version   *)
(* and rollback_skill_release (migration 0002), statement by statement,    *)
(* with the row locks they take, beside evaluations that change the status *)
(* of versions.                                                            *)
(*                                                                         *)
(* A transaction reads what is committed and the variables hold committed  *)
(* rows; its own writes are kept in its call until it commits.             *)
(***************************************************************************)
EXTENDS Naturals, Sequences, FiniteSets

CONSTANTS
  Skill, Version,
  SkillOf,       \* the skill of each version
  Caller,        \* concurrent requests to the API
  NoOne,         \* the holder of a free lock
  NoRelease,     \* the production release of a skill never released
  MaxCalls       \* bound: transactions in one behaviour

ASSUME ReleasesAssumption ==
  /\ SkillOf \in [Version -> Skill]
  /\ Version # {}
  /\ NoOne \notin Caller
  /\ MaxCalls \in Nat

VARIABLES
  status,       \* skill_versions.status
  promoted,     \* skill_versions.promoted_at is set
  releases,     \* the releases of each skill, in the order of their commits
  versionLock,  \* who holds a version row FOR UPDATE
  skillLock,    \* who holds a skill row FOR UPDATE
  calls,        \* what each caller is doing
  started       \* transactions begun

locks == <<versionLock, skillLock>>
vars == <<status, promoted, releases, locks, calls, started>>

Grade == {"draft", "candidate", "passed", "failed"}
Answered == {"released", "refused", "aborted"}

Row ==
  [version : Version,
   grounds : {"gate", "override", "rollback"},
   reason  : {"none", "blank", "text"},
   from    : Nat,          \* the release rolled back to, 0 if none
   active  : BOOLEAN]      \* superseded_at is null

Call ==
  [pc      : {"idle", "reading", "called", "begun", "versioned", "ready",
              "writing"} \cup Answered,
   kind    : {"gate", "override", "rollback"},
   skill   : Skill,
   version : Version,      \* promoted, or the version of the target release
   target  : Skill \X Nat, \* the release to roll back to
   reason  : {"none", "blank", "text"},
   mine    : SUBSET Nat]   \* releases this transaction has superseded

TypeOK ==
  /\ status \in [Version -> Grade]
  /\ promoted \in [Version -> BOOLEAN]
  /\ releases \in [Skill -> Seq(Row)]
  /\ versionLock \in [Version -> Caller \cup {NoOne}]
  /\ skillLock \in [Skill -> Caller \cup {NoOne}]
  /\ calls \in [Caller -> Call]
  /\ started \in Nat

Quiet(label) ==
  LET v == CHOOSE v \in Version : TRUE
  IN  [pc |-> label, kind |-> "gate", skill |-> SkillOf[v], version |-> v,
       target |-> <<SkillOf[v], 0>>, reason |-> "none", mine |-> {}]

Init ==
  /\ status = [v \in Version |-> "draft"]
  /\ promoted = [v \in Version |-> FALSE]
  /\ releases = [s \in Skill |-> <<>>]
  /\ versionLock = [v \in Version |-> NoOne]
  /\ skillLock = [s \in Skill |-> NoOne]
  /\ calls = [c \in Caller |-> Quiet("idle")]
  /\ started = 0

----------------------------------------------------------------------------
(* Calls of the API and the checks made before the database is asked.      *)

tables == <<status, promoted, releases>>

\* Calls not begun yet keep their place within the bound.
MayCall(c) ==
  /\ calls[c].pc \in {"idle"} \cup Answered
  /\ started + Cardinality({d \in Caller : calls[d].pc \in {"reading", "called"}})
       < MaxCalls

CallPromote(c, v, override, reason) ==
  /\ MayCall(c)
  /\ override \/ reason = "none"
  /\ calls' = [calls EXCEPT ![c] =
       [Quiet("reading") EXCEPT !.kind = IF override THEN "override" ELSE "gate",
                                !.skill = SkillOf[v], !.version = v,
                                !.reason = reason]]
  /\ UNCHANGED <<tables, locks, started>>

\* The model of the request demands a non-empty reason, maybe blank.
CallRollback(c, s, t, reason) ==
  /\ MayCall(c)
  /\ reason \in {"blank", "text"}
  /\ t[2] \in DOMAIN releases[t[1]]
  /\ calls' = [calls EXCEPT ![c] =
       [Quiet("called") EXCEPT !.kind = "rollback", !.skill = s, !.target = t,
                               !.version = releases[t[1]][t[2]].version,
                               !.reason = reason]]
  /\ UNCHANGED <<tables, locks, started>>

Goto(c, label) == calls' = [calls EXCEPT ![c].pc = label]

\* LifecycleService.promote: the status of a moment ago decides, and an
\* override needs a reason that is not empty.
CheckPromote(c) ==
  LET call == calls[c]
      sound == IF call.kind = "override" THEN call.reason # "none"
                                         ELSE status[call.version] = "passed"
  IN  /\ call.pc = "reading"
      /\ Goto(c, IF sound THEN "called" ELSE "refused")
      /\ UNCHANGED <<tables, locks, started>>

----------------------------------------------------------------------------
(* The transactions.                                                       *)

FreeFor(lock, c) == lock \in {NoOne, c}
Unlocked(lock, c) ==
  [x \in DOMAIN lock |-> IF lock[x] = c THEN NoOne ELSE lock[x]]

\* The transaction ends: its locks go, the caller has its answer.
End(c, label) ==
  /\ versionLock' = Unlocked(versionLock, c)
  /\ skillLock' = Unlocked(skillLock, c)
  /\ calls' = [calls EXCEPT ![c] = Quiet(label)]
  /\ UNCHANGED started

\* A rollback with a blank reason is refused before anything is locked.
Begin(c) ==
  /\ calls[c].pc = "called"
  /\ started' = started + 1
  /\ calls' = [calls EXCEPT ![c] =
       IF calls[c].kind = "rollback" /\ calls[c].reason = "blank"
       THEN Quiet("refused")
       ELSE [@ EXCEPT !.pc = "begun"]]
  /\ UNCHANGED <<tables, locks>>

\* Mutant: all versions of the skill are locked.
LockVersions(c) ==
  LET siblings == {v \in Version : SkillOf[v] = calls[c].skill}
  IN  /\ calls[c].pc = "begun" /\ calls[c].kind # "rollback"
      /\ \A v \in siblings : versionLock[v] = NoOne
      /\ versionLock' = [v \in Version |-> IF v \in siblings THEN c
                                                          ELSE versionLock[v]]
      /\ Goto(c, "versioned")
      /\ UNCHANGED <<tables, skillLock, started>>

\* A promotion takes its version first ...
LockVersion(c) ==
  /\ calls[c].pc = "begun" /\ calls[c].kind # "rollback"
  /\ versionLock[calls[c].version] = NoOne
  /\ versionLock' = [versionLock EXCEPT ![calls[c].version] = c]
  /\ Goto(c, "versioned")
  /\ UNCHANGED <<tables, skillLock, started>>

\* Mutant: the skill is read without "for update".
ReadSkill(c) ==
  /\ calls[c].pc = IF calls[c].kind = "rollback" THEN "begun" ELSE "versioned"
  /\ Goto(c, "ready")
  /\ UNCHANGED <<tables, locks, started>>

\* ... and then its skill, which is all a rollback takes.
LockSkill(c) ==
  /\ calls[c].pc = IF calls[c].kind = "rollback" THEN "begun" ELSE "versioned"
  /\ skillLock[calls[c].skill] = NoOne
  /\ skillLock' = [skillLock EXCEPT ![calls[c].skill] = c]
  /\ Goto(c, "ready")
  /\ UNCHANGED <<tables, versionLock, started>>

\* Mutant: the function relies on the API for the status.
SoundByApi(c) ==
  LET call == calls[c]
  IN  CASE call.kind = "gate"     -> TRUE
        [] call.kind = "override" -> call.reason = "text"
        [] call.kind = "rollback" -> call.target[1] = call.skill

\* Mutant: the reason of an override is not trimmed.
SoundUntrimmed(c) ==
  LET call == calls[c]
  IN  CASE call.kind = "gate"     -> status[call.version] = "passed"
        [] call.kind = "override" -> call.reason # "none"
        [] call.kind = "rollback" -> call.target[1] = call.skill

\* Mutant: a rollback does not ask whose release it goes back to.
SoundAnyTarget(c) ==
  LET call == calls[c]
  IN  CASE call.kind = "gate"     -> status[call.version] = "passed"
        [] call.kind = "override" -> call.reason = "text"
        [] call.kind = "rollback" -> TRUE

\* What the function asks once it has its locks.
Sound(c) ==
  LET call == calls[c]
  IN  CASE call.kind = "gate"     -> status[call.version] = "passed"
        [] call.kind = "override" -> call.reason = "text"
        [] call.kind = "rollback" -> call.target[1] = call.skill

Refuse(c) ==
  /\ calls[c].pc = "ready"
  /\ ~Sound(c)
  /\ End(c, "refused")
  /\ UNCHANGED tables

ActiveRows(s) == {i \in DOMAIN releases[s] : releases[s][i].active}

\* The update works on the rows committed when it starts.
Supersede(c) ==
  LET s == calls[c].skill
  IN  /\ calls[c].pc = "ready"
      /\ Sound(c)
      /\ calls' = [calls EXCEPT ![c] = [@ EXCEPT !.pc = "writing",
                                                !.mine = ActiveRows(s)]]
      /\ UNCHANGED <<tables, locks, started>>

\* The foreign key of the new row wants its version row not locked by another.
MayInsert(c) ==
  /\ calls[c].pc = "writing"
  /\ FreeFor(versionLock[calls[c].version], c)

Closed(rows, mine) ==
  [i \in DOMAIN rows |-> [rows[i] EXCEPT !.active = @ /\ i \notin mine]]

NewRow(c) ==
  LET call == calls[c]
  IN  [version |-> call.version, grounds |-> call.kind, reason |-> call.reason,
       from |-> IF call.kind = "rollback" THEN call.target[2] ELSE 0,
       active |-> TRUE]

\* The unique index lets the row in if it is then the only active one.
IndexAllows(c) == ActiveRows(calls[c].skill) \subseteq calls[c].mine

\* Mutant: a rollback makes its target active again.
CommitReactivating(c) ==
  LET s == calls[c].skill
      closed == Closed(releases[s], calls[c].mine)
  IN  /\ MayInsert(c)
      /\ IndexAllows(c)
      /\ releases' = [releases EXCEPT ![s] =
           IF calls[c].kind = "rollback"
           THEN [closed EXCEPT ![calls[c].target[2]].active = TRUE]
           ELSE Append(closed, NewRow(c))]
      /\ promoted' = [promoted EXCEPT ![calls[c].version] =
                        @ \/ calls[c].kind # "rollback"]
      /\ End(c, "released")
      /\ UNCHANGED status

Commit(c) ==
  LET s == calls[c].skill
  IN  /\ MayInsert(c)
      /\ IndexAllows(c)
      /\ releases' = [releases EXCEPT ![s] =
                        Append(Closed(@, calls[c].mine), NewRow(c))]
      /\ promoted' = [promoted EXCEPT ![calls[c].version] =
                        @ \/ calls[c].kind # "rollback"]
      /\ End(c, "released")
      /\ UNCHANGED status

InTransaction(c) == calls[c].pc \in {"begun", "versioned", "ready", "writing"}

\* The connection is lost or the statement is cancelled.
Abort(c) ==
  /\ InTransaction(c)
  /\ End(c, "aborted")
  /\ UNCHANGED tables

WaitsFor(c, d) ==
  LET call == calls[c]
  IN  /\ c # d
      /\ \/ call.pc = "begun" /\ call.kind # "rollback"
              /\ versionLock[call.version] = d
         \/ call.pc = (IF call.kind = "rollback" THEN "begun" ELSE "versioned")
              /\ skillLock[call.skill] = d
         \/ call.pc = "writing" /\ versionLock[call.version] = d

Deadlocked(c) == \E d \in Caller : WaitsFor(c, d) /\ WaitsFor(d, c)

\* The deadlock detector of the database gives up one of them.
BreakDeadlock(c) ==
  /\ Deadlocked(c)
  /\ End(c, "aborted")
  /\ UNCHANGED tables

\* EvaluationService writes a status: an update the row lock holds back.
SetStatus(v, grade) ==
  /\ versionLock[v] = NoOne
  /\ status' = [status EXCEPT ![v] = grade]
  /\ UNCHANGED <<promoted, releases, locks, calls, started>>

----------------------------------------------------------------------------
Targets == UNION {{s} \X DOMAIN releases[s] : s \in Skill}

NewCall(c) ==
  \/ \E v \in Version, o \in BOOLEAN, why \in {"none", "blank", "text"} :
       CallPromote(c, v, o, why)
  \/ \E s \in Skill, t \in Targets, why \in {"blank", "text"} :
       CallRollback(c, s, t, why)

Step(c) ==
  \/ CheckPromote(c) \/ Begin(c) \/ LockVersion(c) \/ LockSkill(c)
  \/ Refuse(c) \/ Supersede(c) \/ Commit(c)

Next ==
  \/ \E c \in Caller : NewCall(c) \/ Step(c) \/ Abort(c) \/ BreakDeadlock(c)
  \/ \E v \in Version, grade \in Grade \ {"draft"} : SetStatus(v, grade)

Spec == Init /\ [][Next]_vars

----------------------------------------------------------------------------
(* Properties.                                                             *)

\* A skill that was released has exactly one production release, and it is
\* the one committed last (prd.md 15.3, one_active_release_per_environment).
OneProductionRelease ==
  \A s \in Skill :
    ActiveRows(s) = IF releases[s] = <<>> THEN {} ELSE {Len(releases[s])}

\* The row locks keep transactions apart: what one of them superseded is still
\* all that is active when it inserts its row, so that the unique index behind
\* them never has to refuse a release (0002:40-56 and 84-103).
IndexNeverRefuses == \A c \in Caller : MayInsert(c) => IndexAllows(c)

\* Every release is accounted for: it belongs to its skill, an override says
\* why, a rollback names an earlier release of the skill with its version.
ReleasesAccountable ==
  \A s \in Skill : \A i \in DOMAIN releases[s] :
    LET row == releases[s][i]
    IN  /\ SkillOf[row.version] = s
        /\ promoted[row.version]
        /\ row.grounds # "gate" => row.reason = "text"
        /\ row.grounds = "rollback" =>
             /\ row.from \in 1..(i - 1)
             /\ releases[s][row.from].version = row.version

\* A version is promoted without an override only if it is passed at the
\* commit, whatever evaluations wrote since the API looked (AC-V1-09,
\* services.py:134 against 0002:36-43).
PromotedOnMerit ==
  [][\A s \in Skill :
       LET rows == releases'[s]
       IN  /\ Len(rows) > Len(releases[s])
           /\ rows[Len(rows)].grounds = "gate"
           => status[rows[Len(rows)].version] = "passed"]_vars

\* The history is append only: a release never changes or comes back, a
\* rollback is a new release (prd.md 1990, "immutable/auditable").
HistoryGrows ==
  [][\A s \in Skill :
       /\ Len(releases'[s]) >= Len(releases[s])
       /\ \A i \in DOMAIN releases[s] :
            \/ releases'[s][i] = releases[s][i]
            \/ releases'[s][i] = [releases[s][i] EXCEPT !.active = FALSE]]_vars

\* Only a promotion and a rollback to the same version can deadlock.
DeadlocksNeedOneVersion ==
  \A c, d \in Caller : WaitsFor(c, d) /\ WaitsFor(d, c) =>
    /\ calls[c].version = calls[d].version
    /\ (calls[c].kind = "rollback") # (calls[d].kind = "rollback")

\* The transactions implement the ledger.
Production(s) ==
  IF ActiveRows(s) = {} THEN NoRelease
  ELSE LET row == releases[s][CHOOSE i \in ActiveRows(s) : TRUE]
       IN  [version |-> row.version, grounds |-> row.grounds]

Ledger == INSTANCE ReleaseLedger WITH
  production <- [s \in Skill |-> Production(s)],
  shipped <- [s \in Skill |-> {releases[s][i].version : i \in DOMAIN releases[s]}]

ImplementsLedger == Ledger!Spec

----------------------------------------------------------------------------
(* The inductive invariant.                                                *)

\* What a transaction holds at each of its statements, and that a lock has a
\* transaction that took it.
LocksHeld ==
  /\ \A v \in Version : \A c \in Caller :
       versionLock[v] = c <=> /\ calls[c].pc \in {"versioned", "ready", "writing"}
                              /\ calls[c].kind # "rollback"
                              /\ calls[c].version = v
  /\ \A s \in Skill : \A c \in Caller :
       skillLock[s] = c <=> /\ calls[c].pc \in {"ready", "writing"}
                            /\ calls[c].skill = s

\* What a call carries from the request to its commit.
CallsSane ==
  \A c \in Caller :
    LET call == calls[c]
    IN  /\ call.kind # "rollback" => call.skill = SkillOf[call.version]
        /\ call.kind = "rollback" =>
             /\ call.pc \notin {"reading", "versioned"}
             /\ call.target[2] \in DOMAIN releases[call.target[1]]
             /\ releases[call.target[1]][call.target[2]].version = call.version
             /\ call.reason # "none"
             /\ InTransaction(c) => call.reason = "text"

\* What a transaction has asked and read is still so when it writes.
WritesSound ==
  \A c \in Caller : calls[c].pc = "writing" =>
    /\ Sound(c)
    /\ calls[c].mine = ActiveRows(calls[c].skill)

IInv ==
  /\ TypeOK
  /\ LocksHeld
  /\ CallsSane
  /\ WritesSound
  /\ OneProductionRelease
  /\ ReleasesAccountable

=============================================================================
