--------------------------- MODULE ReleasesProofs ---------------------------
(***************************************************************************)
(* Theorems about Releases, for any number of callers, skills, versions    *)
(* and transactions, and that Releases implements ReleaseLedger.           *)
(*                                                                         *)
(* The row locks keep a writing transaction alone with its skill and, for  *)
(* a promotion, with its version: what it has asked and read (WritesSound) *)
(* is still so when it commits.                                            *)
(***************************************************************************)
EXTENDS Releases, TLAPS, SequenceTheorems

Sane(c) ==
  /\ calls[c].kind # "rollback" => calls[c].skill = SkillOf[calls[c].version]
  /\ calls[c].kind = "rollback" =>
       /\ calls[c].pc \notin {"reading", "versioned"}
       /\ calls[c].target[2] \in DOMAIN releases[calls[c].target[1]]
       /\ releases[calls[c].target[1]][calls[c].target[2]].version = calls[c].version
       /\ calls[c].reason # "none"
       /\ InTransaction(c) => calls[c].reason = "text"

WriteSound(c) ==
  calls[c].pc = "writing" =>
    /\ Sound(c)
    /\ calls[c].mine = ActiveRows(calls[c].skill)

LocksTyped ==
  /\ versionLock \in [Version -> Caller \cup {NoOne}]
  /\ skillLock \in [Skill -> Caller \cup {NoOne}]

TablesTyped ==
  /\ status \in [Version -> Grade]
  /\ promoted \in [Version -> BOOLEAN]
  /\ releases \in [Skill -> Seq(Row)]

Holding == {"versioned", "ready", "writing"}

\* The caller c goes on as x; the others stay where they are.
Becomes(c, x) == x \in Call /\ calls' = [calls EXCEPT ![c] = x]

LEMMA Frame ==
  ASSUME TypeOK, NEW c \in Caller, NEW x, Becomes(c, x)
  PROVE  /\ calls' \in [Caller -> Call]
         /\ calls'[c] = x
         /\ \A d \in Caller \ {c} : calls'[d] = calls[d]
BY DEF TypeOK, Becomes

LEMMA SoundMeans ==
  ASSUME NEW c \in Caller, calls[c] \in Call
  PROVE  Sound(c) <=>
           /\ calls[c].kind = "gate" => status[calls[c].version] = "passed"
           /\ calls[c].kind = "override" => calls[c].reason = "text"
           /\ calls[c].kind = "rollback" => calls[c].target[1] = calls[c].skill
BY DEF Sound, Call

LEMMA QuietTyped ==
  ASSUME NEW label \in {"idle", "reading", "called"} \cup Answered
  PROVE  /\ Quiet(label) \in Call /\ Quiet(label).pc = label
         /\ Quiet(label).kind = "gate"
         /\ Quiet(label).skill = SkillOf[Quiet(label).version]
<1> DEFINE v == CHOOSE v \in Version : TRUE
<1>1. v \in Version /\ SkillOf[v] \in Skill
  BY ReleasesAssumption
<1>2. Quiet(label) = [pc |-> label, kind |-> "gate", skill |-> SkillOf[v], version |-> v,
                      target |-> <<SkillOf[v], 0>>, reason |-> "none",
                      mine |-> {}]
  BY DEF Quiet
<1> HIDE DEF v
<1>3. QED
  BY <1>1, <1>2 DEF Call, Answered

\* A step that leaves the tables alone.
LEMMA MoveStep ==
  ASSUME IInv, NEW c \in Caller, NEW x, Becomes(c, x), UNCHANGED tables,
         started' \in Nat, LocksTyped', LocksHeld', Sane(c)', WriteSound(c)'
  PROVE  IInv'
<1>1. /\ calls' \in [Caller -> Call]
      /\ \A d \in Caller \ {c} : calls'[d] = calls[d]
  BY Frame DEF IInv
<1>2. status' = status /\ promoted' = promoted /\ releases' = releases
  BY DEF tables
<1>3. TypeOK'
  BY <1>1, <1>2 DEF IInv, TypeOK, LocksTyped
<1>4. CallsSane'
  <2>1. ASSUME NEW d \in Caller \ {c} PROVE Sane(d)'
    <3>1. Sane(d)
      BY DEF IInv, CallsSane, Sane
    <3>2. QED
      BY <1>1, <1>2, <3>1 DEF Sane, InTransaction
  <2>2. QED
    BY <2>1 DEF CallsSane, Sane
<1>5. WritesSound'
  <2>1. ASSUME NEW d \in Caller \ {c} PROVE WriteSound(d)'
    <3>1. WriteSound(d)
      BY DEF IInv, WritesSound, WriteSound
    <3>2. QED
      BY <1>1, <1>2, <3>1 DEF WriteSound, Sound, ActiveRows
  <2>2. QED
    BY <2>1 DEF WritesSound, WriteSound
<1>6. OneProductionRelease' /\ ReleasesAccountable'
  BY <1>2 DEF IInv, OneProductionRelease, ActiveRows, ReleasesAccountable
<1>7. QED
  BY <1>3, <1>4, <1>5, <1>6 DEF IInv

----------------------------------------------------------------------------
(* The locks.                                                              *)

\* A step that takes and frees nothing.
LEMMA LocksStay ==
  ASSUME IInv, NEW c \in Caller, NEW x, Becomes(c, x), UNCHANGED locks,
         \/ calls[c].pc \notin Holding /\ x.pc \notin Holding
         \/ /\ calls[c].pc \in {"ready", "writing"} /\ x.pc \in {"ready", "writing"}
            /\ x.kind = calls[c].kind /\ x.version = calls[c].version
            /\ x.skill = calls[c].skill
  PROVE  LocksTyped' /\ LocksHeld'
<1>1. /\ calls'[c] = x
      /\ \A d \in Caller \ {c} : calls'[d] = calls[d]
  BY Frame DEF IInv
<1>2. versionLock' = versionLock /\ skillLock' = skillLock
  BY DEF locks
<1>3. QED
  BY <1>1, <1>2 DEF IInv, TypeOK, LocksTyped, LocksHeld, Holding

\* The end of a transaction frees what it holds.
LEMMA EndFrees ==
  ASSUME IInv, NEW c \in Caller, NEW label \in Answered, End(c, label)
  PROVE  /\ LocksTyped' /\ LocksHeld'
         /\ Becomes(c, Quiet(label)) /\ started' \in Nat
         /\ WriteSound(c)' /\ Sane(c)'
<1>1. /\ Quiet(label) \in Call /\ Quiet(label).pc = label
      /\ Quiet(label).kind = "gate"
      /\ Quiet(label).skill = SkillOf[Quiet(label).version]
      /\ label \notin Holding
  BY QuietTyped DEF Answered, Holding
<1>2. Becomes(c, Quiet(label))
  BY <1>1 DEF End, Becomes
<1>3. /\ calls'[c] = Quiet(label)
      /\ \A d \in Caller \ {c} : calls'[d] = calls[d]
  BY <1>2, Frame DEF IInv
<1>4. /\ versionLock \in [Version -> Caller \cup {NoOne}]
      /\ skillLock \in [Skill -> Caller \cup {NoOne}]
  BY DEF IInv, TypeOK
<1>5. /\ versionLock' = [v \in Version |-> IF versionLock[v] = c THEN NoOne
                                           ELSE versionLock[v]]
      /\ skillLock' = [s \in Skill |-> IF skillLock[s] = c THEN NoOne
                                       ELSE skillLock[s]]
  BY <1>4 DEF End, Unlocked
<1>6. LocksTyped'
  BY <1>4, <1>5 DEF LocksTyped
<1>7. LocksHeld'
  <2>1. ASSUME NEW v \in Version, NEW d \in Caller
        PROVE  versionLock'[v] = d <=>
                 /\ calls'[d].pc \in {"versioned", "ready", "writing"}
                 /\ calls'[d].kind # "rollback"
                 /\ calls'[d].version = v
    BY <1>1, <1>3, <1>5, ReleasesAssumption DEF IInv, LocksHeld, Holding
  <2>2. ASSUME NEW s \in Skill, NEW d \in Caller
        PROVE  skillLock'[s] = d <=>
                 /\ calls'[d].pc \in {"ready", "writing"}
                 /\ calls'[d].skill = s
    BY <1>1, <1>3, <1>5, ReleasesAssumption DEF IInv, LocksHeld, Holding
  <2>3. QED
    BY <2>1, <2>2 DEF LocksHeld
<1>8. WriteSound(c)' /\ Sane(c)'
  BY <1>1, <1>3 DEF WriteSound, Sane, Holding
<1>9. started' \in Nat
  BY DEF End, IInv, TypeOK
<1>10. QED
  BY <1>2, <1>6, <1>7, <1>8, <1>9

LEMMA EndStep ==
  ASSUME IInv, NEW c \in Caller, NEW label \in Answered, End(c, label),
         UNCHANGED tables
  PROVE  IInv'
BY EndFrees, MoveStep

----------------------------------------------------------------------------
(* Requests.                                                               *)

LEMMA RequestStep ==
  ASSUME IInv, NEW c \in Caller, NEW x, Becomes(c, x), calls[c].pc \notin Holding,
         x.pc \in {"reading", "called"} \cup Answered,
         x.kind # "rollback" => x.skill = SkillOf[x.version],
         x.kind = "rollback" =>
           /\ x.pc # "reading"
           /\ x.target[2] \in DOMAIN releases[x.target[1]]
           /\ releases[x.target[1]][x.target[2]].version = x.version
           /\ x.reason # "none",
         UNCHANGED <<tables, locks>>, started' \in Nat
  PROVE  IInv'
<1>1. calls'[c] = x
  BY Frame DEF IInv
<1>2. LocksTyped' /\ LocksHeld'
  BY LocksStay DEF Holding, Answered
<1>3. Sane(c)'
  BY <1>1 DEF Sane, InTransaction, Answered, tables
<1>4. WriteSound(c)'
  BY <1>1 DEF WriteSound, Answered
<1>5. QED
  BY <1>2, <1>3, <1>4, MoveStep

LEMMA CallPromoteKeeps ==
  ASSUME IInv, NEW c \in Caller, NEW v \in Version, NEW override \in BOOLEAN,
         NEW reason \in {"none", "blank", "text"},
         CallPromote(c, v, override, reason)
  PROVE  IInv'
<1> DEFINE x == [Quiet("reading") EXCEPT
                   !.kind = IF override THEN "override" ELSE "gate",
                   !.skill = SkillOf[v], !.version = v, !.reason = reason]
<1>1. Quiet("reading") \in Call /\ Quiet("reading").pc = "reading"
  BY QuietTyped
<1>2. SkillOf[v] \in Skill
  BY ReleasesAssumption
<1>3. /\ x \in Call /\ x.pc = "reading" /\ x.kind # "rollback"
      /\ x.skill = SkillOf[v] /\ x.version = v
  BY <1>1, <1>2 DEF Call
<1>4. calls' = [calls EXCEPT ![c] = x]
  BY DEF CallPromote
<1> HIDE DEF x
<1>5. UNCHANGED <<tables, locks>> /\ started' \in Nat /\ calls[c].pc \notin Holding
  BY DEF CallPromote, MayCall, IInv, TypeOK, Holding, Answered
<1>6. QED
  BY <1>3, <1>4, <1>5, RequestStep DEF Becomes

LEMMA CallRollbackKeeps ==
  ASSUME IInv, NEW c \in Caller, NEW s \in Skill, NEW t \in Targets,
         NEW reason \in {"blank", "text"}, CallRollback(c, s, t, reason)
  PROVE  IInv'
<1> DEFINE v == releases[t[1]][t[2]].version
           x == [Quiet("called") EXCEPT !.kind = "rollback", !.skill = s,
                                        !.target = t, !.version = v,
                                        !.reason = reason]
<1>1. Quiet("called") \in Call /\ Quiet("called").pc = "called"
  BY QuietTyped
<1>2. PICK u \in Skill : t \in {u} \X DOMAIN releases[u]
  BY DEF Targets
<1>3. /\ t[1] \in Skill /\ t[2] \in DOMAIN releases[t[1]] /\ t = <<t[1], t[2]>>
  BY <1>2
<1>4. releases[t[1]] \in Seq(Row)
  BY <1>3 DEF IInv, TypeOK
<1>5. t[2] \in 1..Len(releases[t[1]]) /\ releases[t[1]][t[2]] \in Row
  BY <1>3, <1>4, LenProperties, ElementOfSeq
<1>6. v \in Version /\ t[2] \in Nat /\ t \in Skill \X Nat
  BY <1>3, <1>4, <1>5, LenProperties DEF Row
<1> HIDE DEF v
<1>7. /\ x \in Call /\ x.pc = "called" /\ x.kind = "rollback"
      /\ x.target = t /\ x.version = v /\ x.reason # "none"
  BY <1>1, <1>6 DEF Call
<1>8. calls' = [calls EXCEPT ![c] = x]
  BY DEF CallRollback, v
<1> HIDE DEF x
<1>9. UNCHANGED <<tables, locks>> /\ started' \in Nat /\ calls[c].pc \notin Holding
  BY DEF CallRollback, MayCall, IInv, TypeOK, Holding, Answered
<1>10. QED
  BY <1>3, <1>7, <1>8, <1>9, RequestStep DEF Becomes, v

LEMMA CheckPromoteKeeps ==
  ASSUME IInv, NEW c \in Caller, CheckPromote(c)
  PROVE  IInv'
<1>1. PICK label \in {"called", "refused"} : Goto(c, label)
  BY DEF CheckPromote
<1> DEFINE x == [calls[c] EXCEPT !.pc = label]
<1>2. calls[c] \in Call /\ Sane(c)
  BY DEF IInv, TypeOK, CallsSane, Sane
<1>3. /\ x \in Call /\ x.pc = label /\ x.kind = calls[c].kind
      /\ x.skill = calls[c].skill /\ x.version = calls[c].version
      /\ x.target = calls[c].target /\ x.reason = calls[c].reason
  BY <1>2 DEF Call, Answered
<1>4. calls' = [calls EXCEPT ![c] = x]
  BY <1>1 DEF Goto
<1> HIDE DEF x
<1>5. /\ calls[c].pc = "reading" /\ UNCHANGED <<tables, locks>>
      /\ started' \in Nat
  BY DEF CheckPromote, IInv, TypeOK
<1>6. QED
  BY <1>2, <1>3, <1>4, <1>5, RequestStep DEF Becomes, Sane, Holding, Answered

----------------------------------------------------------------------------
(* The statements before the write.                                        *)

LEMMA BeginKeeps ==
  ASSUME IInv, NEW c \in Caller, Begin(c)
  PROVE  IInv'
<1>1. /\ calls[c].pc = "called" /\ calls[c].pc \notin Holding
      /\ UNCHANGED <<tables, locks>> /\ started' \in Nat
  <2>1. started \in Nat /\ started' = started + 1
    BY DEF Begin, IInv, TypeOK
  <2>2. QED
    BY <2>1 DEF Begin, Holding
<1>2. CASE calls[c].kind = "rollback" /\ calls[c].reason = "blank"
  <2>1. calls' = [calls EXCEPT ![c] = Quiet("refused")]
    BY <1>2 DEF Begin
  <2>2. /\ Quiet("refused") \in Call /\ Quiet("refused").pc = "refused"
        /\ Quiet("refused").kind = "gate"
        /\ Quiet("refused").skill = SkillOf[Quiet("refused").version]
    BY QuietTyped DEF Answered
  <2>3. QED
    BY <1>1, <2>1, <2>2, RequestStep DEF Becomes, Answered
<1>3. CASE ~(calls[c].kind = "rollback" /\ calls[c].reason = "blank")
  <2> DEFINE x == [calls[c] EXCEPT !.pc = "begun"]
  <2>1. calls[c] \in Call /\ Sane(c)
    BY DEF IInv, TypeOK, CallsSane, Sane
  <2>2. /\ x \in Call /\ x.pc = "begun" /\ x.kind = calls[c].kind
        /\ x.skill = calls[c].skill /\ x.version = calls[c].version
        /\ x.target = calls[c].target /\ x.reason = calls[c].reason
    BY <1>1, <2>1 DEF Call
  <2>3. calls' = [calls EXCEPT ![c] = x]
    BY <1>3 DEF Begin
  <2> HIDE DEF x
  <2>4. calls'[c] = x
    BY <2>2, <2>3, Frame DEF IInv, Becomes
  <2>5. calls[c].kind = "rollback" => calls[c].reason = "text"
    <3>1. calls[c].kind = "rollback" => calls[c].reason # "none"
      BY <1>1 DEF IInv, CallsSane
    <3>2. QED
      BY <1>3, <2>1, <3>1 DEF Call
  <2>6. LocksTyped' /\ LocksHeld'
    BY <1>1, <2>2, <2>3, LocksStay DEF Becomes, Holding
  <2>7. Sane(c)' /\ WriteSound(c)'
    BY <1>1, <2>1, <2>2, <2>4, <2>5 DEF Sane, WriteSound, tables
  <2>8. QED
    BY <1>1, <2>2, <2>3, <2>6, <2>7, MoveStep DEF Becomes
<1>4. QED
  BY <1>2, <1>3

LEMMA LockVersionKeeps ==
  ASSUME IInv, NEW c \in Caller, LockVersion(c)
  PROVE  IInv'
<1> DEFINE x == [calls[c] EXCEPT !.pc = "versioned"]
<1>1. calls[c] \in Call /\ Sane(c)
  BY DEF IInv, TypeOK, CallsSane, Sane
<1>2. /\ x \in Call /\ x.pc = "versioned" /\ x.kind = calls[c].kind
      /\ x.skill = calls[c].skill /\ x.version = calls[c].version
  BY <1>1 DEF Call
<1>3. calls' = [calls EXCEPT ![c] = x]
  BY DEF LockVersion, Goto
<1> HIDE DEF x
<1>4. /\ calls'[c] = x
      /\ \A d \in Caller \ {c} : calls'[d] = calls[d]
  BY <1>2, <1>3, Frame DEF IInv, Becomes
<1>5. /\ calls[c].pc = "begun" /\ calls[c].kind # "rollback"
      /\ versionLock[calls[c].version] = NoOne
      /\ versionLock' = [versionLock EXCEPT ![calls[c].version] = c]
      /\ UNCHANGED tables /\ skillLock' = skillLock /\ started' \in Nat
  BY DEF LockVersion, IInv, TypeOK
<1>6. LocksTyped'
  BY <1>5 DEF IInv, TypeOK, LocksTyped
<1>7. LocksHeld'
  <2>0. /\ versionLock \in [Version -> Caller \cup {NoOne}]
        /\ NoOne \notin Caller /\ calls[c].version \in Version
    BY <1>1, ReleasesAssumption DEF IInv, TypeOK, Call
  <2>1. ASSUME NEW v \in Version, NEW d \in Caller
        PROVE  versionLock'[v] = d <=>
                 /\ calls'[d].pc \in {"versioned", "ready", "writing"}
                 /\ calls'[d].kind # "rollback"
                 /\ calls'[d].version = v
    <3>1. versionLock[v] = d <=>
                 /\ calls[d].pc \in {"versioned", "ready", "writing"}
                 /\ calls[d].kind # "rollback"
                 /\ calls[d].version = v
      BY DEF IInv, LocksHeld
    <3>2. CASE d = c
      BY <1>2, <1>4, <1>5, <2>0, <3>1, <3>2
    <3>3. CASE d # c
      BY <1>2, <1>4, <1>5, <2>0, <3>1, <3>3
    <3>4. QED
      BY <3>2, <3>3
  <2>2. ASSUME NEW s \in Skill, NEW d \in Caller
        PROVE  skillLock'[s] = d <=>
                 /\ calls'[d].pc \in {"ready", "writing"}
                 /\ calls'[d].skill = s
    BY <1>2, <1>4, <1>5 DEF IInv, LocksHeld
  <2>3. QED
    BY <2>1, <2>2 DEF LocksHeld
<1>8. Sane(c)' /\ WriteSound(c)'
  BY <1>1, <1>2, <1>4, <1>5 DEF Sane, WriteSound
<1>9. QED
  BY <1>2, <1>3, <1>5, <1>6, <1>7, <1>8, MoveStep DEF Becomes

LEMMA LockSkillKeeps ==
  ASSUME IInv, NEW c \in Caller, LockSkill(c)
  PROVE  IInv'
<1> DEFINE x == [calls[c] EXCEPT !.pc = "ready"]
<1>1. calls[c] \in Call /\ Sane(c)
  BY DEF IInv, TypeOK, CallsSane, Sane
<1>2. /\ x \in Call /\ x.pc = "ready" /\ x.kind = calls[c].kind
      /\ x.skill = calls[c].skill /\ x.version = calls[c].version
      /\ x.target = calls[c].target /\ x.reason = calls[c].reason
  BY <1>1 DEF Call
<1>3. calls' = [calls EXCEPT ![c] = x]
  BY DEF LockSkill, Goto
<1> HIDE DEF x
<1>4. /\ calls'[c] = x
      /\ \A d \in Caller \ {c} : calls'[d] = calls[d]
  BY <1>2, <1>3, Frame DEF IInv, Becomes
<1>5. /\ calls[c].pc = IF calls[c].kind = "rollback" THEN "begun" ELSE "versioned"
      /\ skillLock[calls[c].skill] = NoOne
      /\ skillLock' = [skillLock EXCEPT ![calls[c].skill] = c]
      /\ UNCHANGED tables /\ versionLock' = versionLock /\ started' \in Nat
  BY DEF LockSkill, IInv, TypeOK
<1>6. LocksTyped'
  BY <1>5 DEF IInv, TypeOK, LocksTyped
<1>7. LocksHeld'
  <2>0. /\ skillLock \in [Skill -> Caller \cup {NoOne}]
        /\ NoOne \notin Caller /\ calls[c].skill \in Skill
    BY <1>1, ReleasesAssumption DEF IInv, TypeOK, Call
  <2>1. ASSUME NEW v \in Version, NEW d \in Caller
        PROVE  versionLock'[v] = d <=>
                 /\ calls'[d].pc \in {"versioned", "ready", "writing"}
                 /\ calls'[d].kind # "rollback"
                 /\ calls'[d].version = v
    BY <1>2, <1>4, <1>5 DEF IInv, LocksHeld
  <2>2. ASSUME NEW s \in Skill, NEW d \in Caller
        PROVE  skillLock'[s] = d <=>
                 /\ calls'[d].pc \in {"ready", "writing"}
                 /\ calls'[d].skill = s
    <3>1. skillLock[s] = d <=> /\ calls[d].pc \in {"ready", "writing"}
                               /\ calls[d].skill = s
      BY DEF IInv, LocksHeld
    <3>2. CASE d = c
      BY <1>2, <1>4, <1>5, <2>0, <3>1, <3>2
    <3>3. CASE d # c
      BY <1>2, <1>4, <1>5, <2>0, <3>1, <3>3
    <3>4. QED
      BY <3>2, <3>3
  <2>3. QED
    BY <2>1, <2>2 DEF LocksHeld
<1>8. Sane(c)' /\ WriteSound(c)'
  BY <1>1, <1>2, <1>4, <1>5 DEF Sane, WriteSound, InTransaction, tables
<1>9. QED
  BY <1>2, <1>3, <1>5, <1>6, <1>7, <1>8, MoveStep DEF Becomes

LEMMA SupersedeKeeps ==
  ASSUME IInv, NEW c \in Caller, Supersede(c)
  PROVE  IInv'
<1> DEFINE s == calls[c].skill
           x == [calls[c] EXCEPT !.pc = "writing", !.mine = ActiveRows(s)]
<1>1. calls[c] \in Call /\ Sane(c) /\ s \in Skill
  BY DEF IInv, TypeOK, CallsSane, Sane, Call
<1>2. ActiveRows(s) \in SUBSET Nat
  <2>1. releases[s] \in Seq(Row)
    BY <1>1 DEF IInv, TypeOK
  <2>2. QED
    BY <2>1, LenProperties DEF ActiveRows
<1>3. /\ x \in Call /\ x.pc = "writing" /\ x.kind = calls[c].kind
      /\ x.skill = calls[c].skill /\ x.version = calls[c].version
      /\ x.target = calls[c].target /\ x.reason = calls[c].reason
      /\ x.mine = ActiveRows(s)
  BY <1>1, <1>2 DEF Call
<1>4. calls' = [calls EXCEPT ![c] = x]
  BY DEF Supersede
<1> HIDE DEF x
<1>5. calls'[c] = x
  BY <1>3, <1>4, Frame DEF IInv, Becomes
<1>6. /\ calls[c].pc = "ready" /\ Sound(c)
      /\ UNCHANGED <<tables, locks>> /\ started' \in Nat
  BY DEF Supersede, IInv, TypeOK
<1>7. LocksTyped' /\ LocksHeld'
  BY <1>3, <1>4, <1>6, LocksStay DEF Becomes
<1>8. Sane(c)'
  BY <1>1, <1>3, <1>5, <1>6 DEF Sane, InTransaction, tables
<1>9. WriteSound(c)'
  <2>1. status' = status /\ releases' = releases
    BY <1>6 DEF tables
  <2>2. Sound(c)'
    BY <1>3, <1>5, <1>6, <2>1 DEF Sound
  <2>3. calls'[c].mine = ActiveRows(calls[c].skill)'
    BY <1>3, <1>5, <2>1 DEF ActiveRows
  <2>4. QED
    BY <1>3, <1>5, <2>1, <2>2 DEF WriteSound, ActiveRows
<1>10. QED
  BY <1>3, <1>4, <1>6, <1>7, <1>8, <1>9, MoveStep DEF Becomes

----------------------------------------------------------------------------
(* The commit.                                                             *)

LEMMA ClosedRows ==
  ASSUME NEW rows \in Seq(Row), NEW mine
  PROVE  /\ Closed(rows, mine) \in Seq(Row)
         /\ Len(Closed(rows, mine)) = Len(rows)
         /\ \A i \in 1..Len(rows) : Closed(rows, mine)[i] =
              [rows[i] EXCEPT !.active = rows[i].active /\ i \notin mine]
<1> DEFINE n == Len(rows)
           closed == Closed(rows, mine)
<1>1. n \in Nat /\ DOMAIN rows = 1..n
  BY LenProperties
<1>2. closed = [i \in 1..n |-> [rows[i] EXCEPT !.active = rows[i].active /\ i \notin mine]]
  BY <1>1 DEF Closed
<1>3. ASSUME NEW i \in 1..n
      PROVE  [rows[i] EXCEPT !.active = rows[i].active /\ i \notin mine] \in Row
  <2>1. rows[i] \in Row
    BY ElementOfSeq
  <2>2. (rows[i].active /\ i \notin mine) \in BOOLEAN
    OBVIOUS
  <2>3. QED
    BY <2>1, <2>2 DEF Row
<1>4. closed \in [1..n -> Row]
  BY <1>2, <1>3
<1>5. closed \in Seq(Row)
  BY <1>1, <1>4, SeqDef
<1>6. Len(closed) = n
  <2>1. DOMAIN closed = 1..n /\ DOMAIN closed = 1..Len(closed) /\ Len(closed) \in Nat
    BY <1>4, <1>5, LenProperties
  <2>2. QED
    BY <1>1, <2>1
<1>7. QED
  BY <1>2, <1>5, <1>6

\* The releases of the skill before and after a commit.
Shipped(c) ==
  LET s == calls[c].skill
      n == Len(releases[s])
  IN  /\ s \in Skill /\ n \in Nat
      /\ DOMAIN releases[s] = 1..n /\ DOMAIN releases'[s] = 1..(n + 1)
      /\ Len(releases'[s]) = n + 1
      /\ releases'[s] # <<>>
      /\ \A i \in 1..n : /\ releases[s][i] \in Row
                         /\ releases'[s][i] = [releases[s][i] EXCEPT !.active = FALSE]
      /\ releases'[s][n + 1] = NewRow(c)
      /\ NewRow(c) \in Row
      /\ \A t \in Skill \ {s} : releases'[t] = releases[t]

LEMMA CommitShips ==
  ASSUME IInv, NEW c \in Caller, Commit(c)
  PROVE  Shipped(c) /\ releases' \in [Skill -> Seq(Row)]
<1> DEFINE s == calls[c].skill
           n == Len(releases[s])
           mine == calls[c].mine
           closed == Closed(releases[s], mine)
           new == NewRow(c)
<1>1. calls[c] \in Call /\ s \in Skill
  BY DEF IInv, TypeOK, Call
<1>2. /\ releases \in [Skill -> Seq(Row)] /\ releases[s] \in Seq(Row)
      /\ n \in Nat /\ DOMAIN releases[s] = 1..n
  BY <1>1, LenProperties DEF IInv, TypeOK
<1>3. new \in Row
  <2>1. calls[c].target[2] \in Nat
    BY <1>1 DEF Call
  <2>2. QED
    BY <1>1, <2>1 DEF NewRow, Row, Call
<1>4. /\ closed \in Seq(Row) /\ Len(closed) = n
      /\ \A i \in 1..n : closed[i] =
           [releases[s][i] EXCEPT !.active = releases[s][i].active /\ i \notin mine]
  BY <1>2, ClosedRows
<1>5. mine = ActiveRows(s)
  BY DEF IInv, WritesSound, Commit, MayInsert
<1>6. ASSUME NEW i \in 1..n
      PROVE  /\ releases[s][i] \in Row
             /\ closed[i] = [releases[s][i] EXCEPT !.active = FALSE]
  <2>1. releases[s][i] \in Row
    BY <1>2, ElementOfSeq
  <2>2. releases[s][i].active <=> i \in mine
    BY <1>2, <1>5 DEF ActiveRows
  <2>3. (releases[s][i].active /\ i \notin mine) = FALSE
    BY <2>2
  <2>4. QED
    BY <1>4, <2>1, <2>3
<1>7. releases' = [releases EXCEPT ![s] = Append(closed, new)]
  BY DEF Commit
<1> HIDE DEF closed, new, n, mine
<1>8. /\ Append(closed, new) \in Seq(Row) /\ Append(closed, new) # <<>>
      /\ Len(Append(closed, new)) = n + 1
      /\ \A i \in 1..n : Append(closed, new)[i] = closed[i]
      /\ Append(closed, new)[n + 1] = new
      /\ DOMAIN Append(closed, new) = 1..(n + 1)
  BY <1>3, <1>4, AppendProperties, LenProperties
<1>9. /\ releases' \in [Skill -> Seq(Row)]
      /\ releases'[s] = Append(closed, new)
      /\ \A t \in Skill \ {s} : releases'[t] = releases[t]
  BY <1>1, <1>2, <1>7, <1>8
<1>10. QED
  BY <1>1, <1>2, <1>3, <1>6, <1>8, <1>9 DEF Shipped, n, new

LEMMA CommitKeeps ==
  ASSUME IInv, NEW c \in Caller, Commit(c)
  PROVE  IInv'
<1> DEFINE s == calls[c].skill
           n == Len(releases[s])
           v == calls[c].version
<1>1. calls[c] \in Call /\ Sane(c) /\ WriteSound(c) /\ s \in Skill /\ v \in Version
  BY DEF IInv, TypeOK, CallsSane, Sane, WritesSound, WriteSound, Call
<1>2. calls[c].pc = "writing" /\ Sound(c) /\ End(c, "released") /\ status' = status
  BY <1>1 DEF Commit, MayInsert, WriteSound
<1>3. /\ s \in Skill /\ n \in Nat
      /\ DOMAIN releases[s] = 1..n /\ DOMAIN releases'[s] = 1..(n + 1)
      /\ Len(releases'[s]) = n + 1
      /\ releases'[s] # <<>>
      /\ \A i \in 1..n : /\ releases[s][i] \in Row
                         /\ releases'[s][i] = [releases[s][i] EXCEPT !.active = FALSE]
      /\ releases'[s][n + 1] = NewRow(c)
      /\ NewRow(c) \in Row
      /\ \A t \in Skill \ {s} : releases'[t] = releases[t]
      /\ releases' \in [Skill -> Seq(Row)]
  BY CommitShips DEF Shipped
<1>4. /\ LocksTyped' /\ LocksHeld' /\ started' \in Nat
      /\ Becomes(c, Quiet("released")) /\ WriteSound(c)' /\ Sane(c)'
  BY <1>2, EndFrees DEF Answered
<1>5. /\ calls' \in [Caller -> Call]
      /\ \A d \in Caller \ {c} : calls'[d] = calls[d]
  BY <1>4, Frame DEF IInv
<1>6. /\ promoted' \in [Version -> BOOLEAN]
      /\ \A u \in Version : promoted[u] => promoted'[u]
      /\ calls[c].kind # "rollback" => promoted'[v]
  <2>1. /\ promoted \in [Version -> BOOLEAN]
        /\ promoted' = [promoted EXCEPT ![v] = promoted[v] \/ calls[c].kind # "rollback"]
    BY DEF IInv, TypeOK, Commit
  <2>2. (promoted[v] \/ calls[c].kind # "rollback") \in BOOLEAN
    OBVIOUS
  <2>3. QED
    BY <1>1, <2>1, <2>2
<1>7. TypeOK'
  BY <1>2, <1>3, <1>4, <1>5, <1>6 DEF IInv, TypeOK, LocksTyped
<1>8. ASSUME NEW t \in Skill, NEW i \in DOMAIN releases[t]
      PROVE  /\ i \in DOMAIN releases'[t]
             /\ releases'[t][i].version = releases[t][i].version
             /\ releases'[t][i].grounds = releases[t][i].grounds
             /\ releases'[t][i].reason = releases[t][i].reason
             /\ releases'[t][i].from = releases[t][i].from
  <2>1. CASE t # s
    BY <1>3, <2>1
  <2>2. CASE t = s
    <3>1. i \in 1..n /\ i \in 1..(n + 1)
      BY <1>3, <2>2
    <3>2. QED
      BY <1>3, <2>2, <3>1 DEF Row
  <2>3. QED
    BY <2>1, <2>2
<1>9. CallsSane'
  <2>1. ASSUME NEW d \in Caller \ {c} PROVE Sane(d)'
    <3>1. Sane(d) /\ calls[d].target[1] \in Skill
      BY DEF IInv, TypeOK, CallsSane, Sane, Call
    <3>2. QED
      BY <1>5, <1>8, <3>1 DEF Sane, InTransaction
  <2>2. QED
    BY <1>4, <2>1 DEF CallsSane, Sane
<1>10. WritesSound'
  <2>1. ASSUME NEW d \in Caller \ {c}, calls[d].pc = "writing"
        PROVE  WriteSound(d)'
    <3>1. calls[d].skill \in Skill /\ Sound(d)
          /\ calls[d].mine = ActiveRows(calls[d].skill)
      BY <2>1 DEF IInv, TypeOK, Call, WritesSound
    <3>2. skillLock[calls[d].skill] = d /\ skillLock[s] = c
      BY <1>1, <1>2, <2>1, <3>1 DEF IInv, LocksHeld
    <3>3. releases'[calls[d].skill] = releases[calls[d].skill]
      BY <1>3, <3>1, <3>2
    <3>4. calls'[d] = calls[d]
      BY <1>5
    <3>5. QED
      BY <1>2, <3>1, <3>3, <3>4 DEF WriteSound, Sound, ActiveRows
  <2>2. ASSUME NEW d \in Caller \ {c} PROVE WriteSound(d)'
    BY <1>5, <2>1 DEF WriteSound
  <2>3. QED
    BY <1>4, <2>2 DEF WritesSound, WriteSound
<1>11. OneProductionRelease'
  <2>1. {i \in DOMAIN releases'[s] : releases'[s][i].active} = {n + 1}
    <3>1. ASSUME NEW i \in 1..n PROVE releases'[s][i].active = FALSE
      BY <1>3 DEF Row
    <3>2. releases'[s][n + 1].active = TRUE
      BY <1>3 DEF NewRow
    <3>3. DOMAIN releases'[s] = 1..n \cup {n + 1}
      BY <1>3
    <3> HIDE DEF s, n
    <3>4. QED
      BY <3>1, <3>2, <3>3
  <2>2. ASSUME NEW t \in Skill
        PROVE  {i \in DOMAIN releases'[t] : releases'[t][i].active}
                 = IF releases'[t] = <<>> THEN {} ELSE {Len(releases'[t])}
    <3>1. CASE t = s
      BY <1>3, <2>1, <3>1
    <3>2. CASE t # s
      BY <1>3, <3>2 DEF IInv, OneProductionRelease, ActiveRows
    <3>3. QED
      BY <3>1, <3>2
  <2>3. QED
    BY <2>2 DEF OneProductionRelease, ActiveRows
<1>12. ReleasesAccountable'
  <2>1. ASSUME NEW t \in Skill, NEW i \in DOMAIN releases[t]
        PROVE  /\ SkillOf[releases'[t][i].version] = t
               /\ promoted'[releases'[t][i].version]
               /\ releases'[t][i].grounds # "gate" => releases'[t][i].reason = "text"
               /\ releases'[t][i].grounds = "rollback" =>
                    /\ releases'[t][i].from \in 1..(i - 1)
                    /\ releases'[t][releases'[t][i].from].version
                         = releases'[t][i].version
    <3>1. releases[t] \in Seq(Row)
      BY DEF IInv, TypeOK
    <3>2. i \in 1..Len(releases[t]) /\ DOMAIN releases[t] = 1..Len(releases[t])
          /\ Len(releases[t]) \in Nat
      BY <3>1, LenProperties
    <3>3. releases[t][i].version \in Version
      <4>1. releases[t][i] \in Row
        BY <3>1, <3>2, ElementOfSeq
      <4>2. QED
        BY <4>1 DEF Row
    <3>4. /\ SkillOf[releases[t][i].version] = t
          /\ promoted[releases[t][i].version]
          /\ releases[t][i].grounds # "gate" => releases[t][i].reason = "text"
          /\ releases[t][i].grounds = "rollback" =>
               /\ releases[t][i].from \in 1..(i - 1)
               /\ releases[t][releases[t][i].from].version = releases[t][i].version
      BY DEF IInv, ReleasesAccountable
    <3>5. ASSUME releases[t][i].grounds = "rollback"
          PROVE  releases[t][i].from \in DOMAIN releases[t]
      BY <3>2, <3>4, <3>5
    <3>6. QED
      BY <1>6, <1>8, <3>3, <3>4, <3>5
  <2>2. LET row == NewRow(c)
        IN  /\ SkillOf[row.version] = s
            /\ promoted'[row.version]
            /\ row.grounds # "gate" => row.reason = "text"
            /\ row.grounds = "rollback" =>
                 /\ row.from \in 1..n
                 /\ releases'[s][row.from].version = row.version
    <3>1. /\ NewRow(c).version = v /\ NewRow(c).grounds = calls[c].kind
          /\ NewRow(c).reason = calls[c].reason
          /\ calls[c].kind = "rollback" => NewRow(c).from = calls[c].target[2]
      BY DEF NewRow
    <3>2. /\ calls[c].kind = "override" => calls[c].reason = "text"
          /\ calls[c].kind = "rollback" => calls[c].target[1] = s
      BY <1>1, <1>2, SoundMeans
    <3>3. CASE calls[c].kind = "rollback"
      <4>1. /\ calls[c].target[2] \in 1..n
            /\ releases[s][calls[c].target[2]].version = v
            /\ calls[c].reason = "text"
        BY <1>1, <1>2, <1>3, <3>2, <3>3 DEF Sane, InTransaction
      <4>2. SkillOf[v] = s /\ promoted[v]
        BY <1>1, <1>3, <4>1 DEF IInv, ReleasesAccountable
      <4>3. releases'[s][calls[c].target[2]].version = v
        BY <1>1, <1>3, <1>8, <4>1
      <4>4. QED
        BY <1>1, <1>6, <3>1, <3>3, <4>1, <4>2, <4>3
    <3>4. CASE calls[c].kind # "rollback"
      <4>1. SkillOf[v] = s /\ promoted'[v]
        BY <1>1, <1>6, <3>4 DEF Sane
      <4>2. calls[c].kind # "gate" => calls[c].reason = "text"
        BY <1>1, <3>2, <3>4 DEF Call
      <4>3. QED
        BY <3>1, <3>4, <4>1, <4>2
    <3>5. QED
      BY <3>3, <3>4
  <2>3. (n + 1) - 1 = n
    BY <1>3
  <2>4. ASSUME NEW t \in Skill, NEW i \in DOMAIN releases'[t]
        PROVE  /\ SkillOf[releases'[t][i].version] = t
               /\ promoted'[releases'[t][i].version]
               /\ releases'[t][i].grounds # "gate" => releases'[t][i].reason = "text"
               /\ releases'[t][i].grounds = "rollback" =>
                    /\ releases'[t][i].from \in 1..(i - 1)
                    /\ releases'[t][releases'[t][i].from].version
                         = releases'[t][i].version
    <3>1. CASE i \in DOMAIN releases[t]
      BY <2>1, <3>1
    <3>2. CASE i \notin DOMAIN releases[t]
      <4>1. t = s /\ i = n + 1
        BY <1>3, <3>2
      <4>2. QED
        BY <1>3, <2>2, <2>3, <4>1
    <3>3. QED
      BY <3>1, <3>2
  <2>5. QED
    BY <2>4 DEF ReleasesAccountable
<1>13. QED
  BY <1>4, <1>7, <1>9, <1>10, <1>11, <1>12 DEF IInv

\* An evaluation cannot write the status of a version a promotion holds.
LEMMA SetStatusKeeps ==
  ASSUME IInv, NEW v \in Version, NEW grade \in Grade, SetStatus(v, grade)
  PROVE  IInv'
<1>1. /\ status \in [Version -> Grade] /\ versionLock[v] = NoOne
      /\ status' = [status EXCEPT ![v] = grade]
      /\ UNCHANGED <<promoted, releases, versionLock, skillLock, calls, started>>
  BY DEF SetStatus, locks, IInv, TypeOK
<1>2. TypeOK'
  BY <1>1 DEF IInv, TypeOK
<1>3. LocksHeld' /\ CallsSane'
  BY <1>1 DEF IInv, LocksHeld, CallsSane, InTransaction
<1>4. OneProductionRelease' /\ ReleasesAccountable'
  BY <1>1 DEF IInv, OneProductionRelease, ActiveRows, ReleasesAccountable
<1>5. WritesSound'
  <2>1. ASSUME NEW c \in Caller, calls[c].pc = "writing"
        PROVE  WriteSound(c)'
    <3>1. /\ Sound(c) /\ calls[c].mine = ActiveRows(calls[c].skill)
          /\ calls[c] \in Call /\ calls[c].version \in Version
      BY <2>1 DEF IInv, WritesSound, TypeOK, Call
    <3>2. calls[c].kind = "gate" => versionLock[calls[c].version] = c
      BY <2>1, <3>1 DEF IInv, LocksHeld
    <3>3. calls[c].kind = "gate" => status'[calls[c].version] = status[calls[c].version]
      BY <1>1, <3>1, <3>2, ReleasesAssumption
    <3>4. calls' = calls /\ releases' = releases
      BY <1>1
    <3>5. Sound(c)'
      <4>1. calls[c].kind \in {"gate", "override", "rollback"}
        BY <3>1 DEF Call
      <4>2. CASE calls[c].kind = "gate"
        BY <3>1, <3>3, <3>4, <4>2 DEF Sound
      <4>3. CASE calls[c].kind # "gate"
        BY <3>1, <3>4, <4>1, <4>3 DEF Sound
      <4>4. QED
        BY <4>2, <4>3
    <3>6. QED
      BY <3>1, <3>4, <3>5 DEF WriteSound, ActiveRows
  <2>2. QED
    BY <1>1, <2>1 DEF WritesSound, WriteSound
<1>6. QED
  BY <1>2, <1>3, <1>4, <1>5 DEF IInv

----------------------------------------------------------------------------
(* The theorems.                                                           *)

LEMMA Initially ==
  ASSUME Init
  PROVE  IInv
<1>1. /\ Quiet("idle") \in Call /\ Quiet("idle").pc = "idle"
      /\ Quiet("idle").kind = "gate"
      /\ Quiet("idle").skill = SkillOf[Quiet("idle").version]
  BY QuietTyped
<1>2. /\ \A c \in Caller : calls[c] = Quiet("idle")
      /\ \A s \in Skill : releases[s] = <<>>
  BY DEF Init
<1>3. TypeOK
  <2>1. <<>> \in Seq(Row)
    BY EmptySeq
  <2>2. QED
    BY <1>1, <2>1 DEF Init, TypeOK, Grade
<1>4. LocksHeld
  BY <1>1, <1>2, ReleasesAssumption DEF Init, LocksHeld
<1>5. CallsSane /\ WritesSound
  BY <1>1, <1>2 DEF CallsSane, WritesSound
<1>6. OneProductionRelease /\ ReleasesAccountable
  BY <1>2, EmptySeq DEF OneProductionRelease, ActiveRows, ReleasesAccountable
<1>7. QED
  BY <1>3, <1>4, <1>5, <1>6 DEF IInv

LEMMA NextKeeps ==
  ASSUME IInv, [Next]_vars
  PROVE  IInv'
<1>1. CASE UNCHANGED vars
  <2>1. UNCHANGED <<status, promoted, releases, versionLock, skillLock, calls, started>>
    BY <1>1 DEF vars, locks
  <2>2. TypeOK' /\ LocksHeld' /\ CallsSane'
    BY <2>1 DEF IInv, TypeOK, LocksHeld, CallsSane, InTransaction
  <2>3. WritesSound'
    BY <2>1 DEF IInv, WritesSound, Sound, ActiveRows
  <2>4. OneProductionRelease' /\ ReleasesAccountable'
    BY <2>1 DEF IInv, OneProductionRelease, ActiveRows, ReleasesAccountable
  <2>5. QED
    BY <2>2, <2>3, <2>4 DEF IInv
<1>2. ASSUME NEW c \in Caller, NewCall(c) PROVE IInv'
  BY <1>2, CallPromoteKeeps, CallRollbackKeeps DEF NewCall
<1>3. ASSUME NEW c \in Caller, Refuse(c) \/ Abort(c) \/ BreakDeadlock(c) PROVE IInv'
  BY <1>3, EndStep DEF Refuse, Abort, BreakDeadlock, Answered
<1>4. ASSUME NEW c \in Caller, Step(c) PROVE IInv'
  BY <1>3, <1>4, CheckPromoteKeeps, BeginKeeps, LockVersionKeeps, LockSkillKeeps,
     SupersedeKeeps, CommitKeeps DEF Step
<1>5. ASSUME NEW v \in Version, NEW grade \in Grade \ {"draft"}, SetStatus(v, grade)
      PROVE  IInv'
  BY <1>5, SetStatusKeeps
<1>6. QED
  BY <1>1, <1>2, <1>3, <1>4, <1>5 DEF Next

\* The invariant holds of every behaviour, whatever callers and evaluations
\* interleave and whichever transactions abort.
THEOREM Invariance == Spec => []IInv
<1>1. Init => IInv
  BY Initially
<1>2. IInv /\ [Next]_vars => IInv'
  BY NextKeeps
<1>3. QED
  BY <1>1, <1>2, PTL DEF Spec

\* Every variable keeps its type.
THEOREM TypeCorrect == Spec => []TypeOK
<1>1. IInv => TypeOK
  BY DEF IInv
<1>2. QED
  BY <1>1, Invariance, PTL

\* A skill that was released has one production release, the last committed:
\* whoever inserts a release has closed all active ones under the lock of the
\* skill (0002:48-56, 95-103).
THEOREM OneInProduction == Spec => []OneProductionRelease
<1>1. IInv => OneProductionRelease
  BY DEF IInv
<1>2. QED
  BY <1>1, Invariance, PTL

\* The unique index one_active_release_per_environment (0001:140-141) is a
\* second line that is never reached, because the skill row is locked first.
THEOREM LocksSuffice == Spec => []IndexNeverRefuses
<1>1. IInv => IndexNeverRefuses
  BY DEF IInv, WritesSound, IndexNeverRefuses, MayInsert, IndexAllows
<1>2. QED
  BY <1>1, Invariance, PTL

\* Every release of a skill is of a version of it and says what it rests on:
\* what a transaction asked (0002:41-46, 84-93) is still so when it commits.
THEOREM Accountable == Spec => []ReleasesAccountable
<1>1. IInv => ReleasesAccountable
  BY DEF IInv
<1>2. QED
  BY <1>1, Invariance, PTL

\* Two promotions cannot deadlock, nor two rollbacks: a promotion locks its
\* version before its skill and a rollback only the skill (0002:36-40, 83).
THEOREM DeadlockShape == Spec => []DeadlocksNeedOneVersion
<1>1. ASSUME IInv, NEW c \in Caller, NEW d \in Caller, WaitsFor(c, d), WaitsFor(d, c)
      PROVE  /\ calls[c].version = calls[d].version
             /\ (calls[c].kind = "rollback") # (calls[d].kind = "rollback")
  <2>1. /\ calls[c].version \in Version /\ calls[c].skill \in Skill
        /\ calls[d].version \in Version /\ calls[d].skill \in Skill
    BY <1>1 DEF IInv, TypeOK, Call
  <2>2. /\ \A v \in Version : \A e \in {c, d} :
             versionLock[v] = e <=> /\ calls[e].pc \in {"versioned", "ready", "writing"}
                                    /\ calls[e].kind # "rollback"
                                    /\ calls[e].version = v
        /\ \A s \in Skill : \A e \in {c, d} :
             skillLock[s] = e <=> /\ calls[e].pc \in {"ready", "writing"}
                                  /\ calls[e].skill = s
    BY <1>1 DEF IInv, LocksHeld
  <2>3. QED
    BY <1>1, <2>1, <2>2 DEF WaitsFor
<1>2. IInv => DeadlocksNeedOneVersion
  BY <1>1 DEF DeadlocksNeedOneVersion
<1>3. QED
  BY <1>2, Invariance, PTL

----------------------------------------------------------------------------
(* What a step may do to the releases.                                     *)

LEMMA OnlyCommitsShip ==
  ASSUME IInv, [Next]_vars
  PROVE  \/ \E c \in Caller : Commit(c)
         \/ releases' = releases
<1>1. CASE UNCHANGED vars
  BY <1>1 DEF vars
<1>2. ASSUME NEW c \in Caller, NewCall(c) PROVE releases' = releases
  BY <1>2 DEF NewCall, CallPromote, CallRollback, tables
<1>3. ASSUME NEW c \in Caller, Refuse(c) \/ Abort(c) \/ BreakDeadlock(c)
      PROVE  releases' = releases
  BY <1>3 DEF Refuse, Abort, BreakDeadlock, tables
<1>4. ASSUME NEW c \in Caller, Step(c) PROVE Commit(c) \/ releases' = releases
  BY <1>3, <1>4 DEF Step, CheckPromote, Begin, LockVersion, LockSkill, Supersede, tables
<1>5. ASSUME NEW v \in Version, NEW grade \in Grade \ {"draft"}, SetStatus(v, grade)
      PROVE  releases' = releases
  BY <1>5 DEF SetStatus
<1>6. QED
  BY <1>1, <1>2, <1>3, <1>4, <1>5 DEF Next

\* A commit without an override is of a version that is passed at that moment,
\* although the API looked at its status before (services.py:134): no evaluation
\* can write it between the check under the lock (0002:41-43) and the commit.
THEOREM OnMerit == Spec => PromotedOnMerit
<1> DEFINE Merited(s) ==
      /\ Len(releases'[s]) > Len(releases[s])
      /\ releases'[s][Len(releases'[s])].grounds = "gate"
      => status[releases'[s][Len(releases'[s])].version] = "passed"
<1>1. ASSUME IInv, [Next]_vars, NEW s \in Skill
      PROVE  Merited(s)
  <2>0. releases[s] \in Seq(Row) /\ Len(releases[s]) \in Nat
    BY <1>1, LenProperties DEF IInv, TypeOK
  <2>1. CASE releases'[s] = releases[s]
    BY <2>0, <2>1
  <2>2. ASSUME NEW c \in Caller, Commit(c), releases'[s] # releases[s]
        PROVE  Merited(s)
    <3>1. Shipped(c)
      BY <1>1, <2>2, CommitShips
    <3>2. s = calls[c].skill
      BY <2>2, <3>1 DEF Shipped
    <3>3. releases'[s][Len(releases'[s])] = NewRow(c)
      BY <3>1, <3>2 DEF Shipped
    <3>4. NewRow(c).grounds = calls[c].kind /\ NewRow(c).version = calls[c].version
      BY DEF NewRow
    <3>5. Sound(c) /\ calls[c] \in Call
      BY <1>1, <2>2 DEF Commit, MayInsert, IInv, WritesSound, TypeOK
    <3>6. calls[c].kind = "gate" => status[calls[c].version] = "passed"
      BY <3>5, SoundMeans
    <3>7. QED
      BY <3>3, <3>4, <3>6
  <2>3. QED
    BY <1>1, <2>1, <2>2, OnlyCommitsShip
<1>2. IInv /\ [Next]_vars => \A s \in Skill : Merited(s)
  BY <1>1
<1>3. QED
  BY <1>2, Invariance, PTL DEF Spec, PromotedOnMerit

\* A step adds a release, supersedes releases or leaves them: the update of
\* 0002:48-50 and the inserts are all that ever touches the table.
THEOREM AppendOnly == Spec => HistoryGrows
<1> DEFINE Grows(s) ==
      /\ Len(releases'[s]) >= Len(releases[s])
      /\ \A i \in DOMAIN releases[s] :
           \/ releases'[s][i] = releases[s][i]
           \/ releases'[s][i] = [releases[s][i] EXCEPT !.active = FALSE]
<1>1. ASSUME IInv, [Next]_vars, NEW s \in Skill
      PROVE  Grows(s)
  <2>0. releases[s] \in Seq(Row) /\ Len(releases[s]) \in Nat
    BY <1>1, LenProperties DEF IInv, TypeOK
  <2>1. CASE releases'[s] = releases[s]
    BY <2>0, <2>1
  <2>2. ASSUME NEW c \in Caller, Commit(c), releases'[s] # releases[s]
        PROVE  Grows(s)
    <3>1. Shipped(c)
      BY <1>1, <2>2, CommitShips
    <3>2. s = calls[c].skill
      BY <2>2, <3>1 DEF Shipped
    <3>3. /\ Len(releases'[s]) = Len(releases[s]) + 1
          /\ DOMAIN releases[s] = 1..Len(releases[s])
          /\ \A i \in 1..Len(releases[s]) :
               releases'[s][i] = [releases[s][i] EXCEPT !.active = FALSE]
      BY <3>1, <3>2 DEF Shipped
    <3>4. Len(releases'[s]) >= Len(releases[s])
      BY <2>0, <3>3
    <3>5. QED
      BY <3>3, <3>4
  <2>3. QED
    BY <1>1, <2>1, <2>2, OnlyCommitsShip
<1>2. IInv /\ [Next]_vars => \A s \in Skill : Grows(s)
  BY <1>1
<1>3. QED
  BY <1>2, Invariance, PTL DEF Spec, HistoryGrows

----------------------------------------------------------------------------
(* The ledger.                                                             *)

\* What the ledger sees of a skill, given one production release.
LEMMA ProductionIsLast ==
  ASSUME IInv, NEW s \in Skill
  PROVE  Production(s) =
           IF releases[s] = <<>> THEN NoRelease
           ELSE [version |-> releases[s][Len(releases[s])].version,
                 grounds |-> releases[s][Len(releases[s])].grounds]
<1>1. ActiveRows(s) = IF releases[s] = <<>> THEN {} ELSE {Len(releases[s])}
  BY DEF IInv, OneProductionRelease
<1>2. CASE releases[s] = <<>>
  BY <1>1, <1>2 DEF Production
<1>3. CASE releases[s] # <<>>
  <2>1. ActiveRows(s) = {Len(releases[s])} /\ ActiveRows(s) # {}
    BY <1>1, <1>3
  <2>2. (CHOOSE i \in ActiveRows(s) : TRUE) = Len(releases[s])
    BY <2>1
  <2>3. QED
    BY <1>3, <2>1, <2>2 DEF Production
<1>4. QED
  BY <1>2, <1>3

LEMMA ProductionIsLastNext ==
  ASSUME IInv', NEW s \in Skill
  PROVE  Production(s)' =
           IF releases'[s] = <<>> THEN NoRelease
           ELSE [version |-> releases'[s][Len(releases'[s])].version,
                 grounds |-> releases'[s][Len(releases'[s])].grounds]
<1>1. {i \in DOMAIN releases'[s] : releases'[s][i].active}
        = IF releases'[s] = <<>> THEN {} ELSE {Len(releases'[s])}
  BY DEF IInv, OneProductionRelease, ActiveRows
<1>2. ActiveRows(s)' = {i \in DOMAIN releases'[s] : releases'[s][i].active}
  BY DEF ActiveRows
<1>3. CASE releases'[s] = <<>>
  BY <1>1, <1>2, <1>3 DEF Production
<1>4. CASE releases'[s] # <<>>
  <2>1. ActiveRows(s)' = {Len(releases'[s])}
    BY <1>1, <1>2, <1>4
  <2>2. (CHOOSE i \in ActiveRows(s)' : TRUE) = Len(releases'[s])
    BY <2>1
  <2>3. QED
    BY <1>4, <2>1, <2>2 DEF Production
<1>5. QED
  BY <1>3, <1>4

\* The versions a skill has had in production.
ShippedVersions(s) == {releases[s][i].version : i \in DOMAIN releases[s]}

LEMMA LedgerCommit ==
  ASSUME IInv, IInv', NEW c \in Caller, Commit(c)
  PROVE  Ledger!Next
<1>1. Shipped(c)
  BY CommitShips
<1>2. /\ Sane(c) /\ Sound(c) /\ calls[c] \in Call
      /\ calls[c].pc = "writing"
  BY DEF IInv, TypeOK, CallsSane, Sane, WritesSound, Commit, MayInsert
<1>0. PICK s \in Skill, v \in Version, k \in {"gate", "override", "rollback"} :
        s = calls[c].skill /\ v = calls[c].version /\ k = calls[c].kind
  BY <1>2 DEF Call
<1> DEFINE n == Len(releases[s])
<1>3. NewRow(c).version = v /\ NewRow(c).grounds = k
  BY <1>0 DEF NewRow
<1>4. /\ n \in Nat /\ DOMAIN releases[s] = 1..n
      /\ DOMAIN releases'[s] = 1..(n + 1) /\ Len(releases'[s]) = n + 1
      /\ releases'[s] # <<>>
      /\ \A i \in 1..n : releases'[s][i].version = releases[s][i].version
      /\ releases'[s][n + 1] = NewRow(c)
      /\ \A t \in Skill \ {s} : releases'[t] = releases[t]
  <2>1. \A i \in 1..n : releases'[s][i].version = releases[s][i].version
    BY <1>0, <1>1 DEF Shipped, Row
  <2>2. QED
    BY <1>0, <1>1, <2>1 DEF Shipped
<1> HIDE DEF n
<1>5. [t \in Skill |-> Production(t)]' =
        [[t \in Skill |-> Production(t)] EXCEPT ![s] = [version |-> v, grounds |-> k]]
  <2>1. ASSUME NEW t \in Skill, t # s PROVE Production(t)' = Production(t)
    BY <1>4, <2>1 DEF Production, ActiveRows
  <2>2. ASSUME NEW t \in Skill, t = s
        PROVE  Production(t)' = [version |-> v, grounds |-> k]
    BY <1>3, <1>4, <2>2, ProductionIsLastNext
  <2>3. QED
    BY <1>2, <2>1, <2>2
<1>6. [t \in Skill |-> ShippedVersions(t)]' =
        [[t \in Skill |-> ShippedVersions(t)] EXCEPT ![s] =
           ShippedVersions(s) \cup {v}]
  <2>1. ASSUME NEW t \in Skill, t # s PROVE ShippedVersions(t)' = ShippedVersions(t)
    BY <1>4, <2>1 DEF ShippedVersions
  <2>2. {releases'[s][i].version : i \in DOMAIN releases'[s]} =
          {releases[s][i].version : i \in DOMAIN releases[s]} \cup {v}
    <3>1. 1..(n + 1) = 1..n \cup {n + 1}
      BY <1>4
    <3>2. QED
      BY <1>3, <1>4, <3>1
  <2>3. ASSUME NEW t \in Skill, t = s
        PROVE  ShippedVersions(t)' = ShippedVersions(s) \cup {v}
    BY <2>2, <2>3 DEF ShippedVersions
  <2>4. QED
    BY <1>2, <2>1, <2>3
<1>7. status' = status
  BY DEF Commit
<1>8. Ledger!Ship(s, v, k)
  BY <1>2, <1>5, <1>6, <1>7 DEF Ledger!Ship, ShippedVersions
<1>9. CASE k = "gate"
  <2>1. s = SkillOf[v] /\ status[v] = "passed"
    BY <1>2, <1>9, <1>0, SoundMeans DEF Sane
  <2>2. Ledger!Promote(v)
    BY <1>8, <1>9, <2>1 DEF Ledger!Promote, Ledger!Ship
  <2>3. QED
    BY <1>2, <2>2 DEF Ledger!Next
<1>10. CASE k = "override"
  <2>1. s = SkillOf[v]
    BY <1>2, <1>0, <1>10 DEF Sane
  <2>2. Ledger!Override(v)
    BY <1>8, <1>10, <2>1 DEF Ledger!Override, Ledger!Ship
  <2>3. QED
    BY <1>2, <2>2 DEF Ledger!Next
<1>11. CASE k = "rollback"
  <2>1. \E i \in DOMAIN releases[s] : releases[s][i].version = v
    BY <1>2, <1>11, <1>0, SoundMeans DEF Sane
  <2>2. v \in [t \in Skill |-> ShippedVersions(t)][s]
    BY <1>2, <2>1 DEF ShippedVersions
  <2>3. Ledger!Rollback(s, v)
    BY <1>8, <1>11, <2>2 DEF Ledger!Rollback, Ledger!Ship, ShippedVersions
  <2>4. QED
    BY <1>2, <2>3 DEF Ledger!Next
<1>12. QED
  BY <1>2, <1>9, <1>10, <1>11

LEMMA OthersLeaveLedger ==
  ASSUME IInv, [Next]_vars
  PROVE  \/ \E c \in Caller : Commit(c)
         \/ /\ releases' = releases
            /\ \/ status' = status
               \/ \E v \in Version, grade \in Grade \ {"draft"} :
                    status' = [status EXCEPT ![v] = grade]
<1>1. CASE UNCHANGED vars
  BY <1>1 DEF vars
<1>2. ASSUME NEW c \in Caller, NewCall(c)
      PROVE  releases' = releases /\ status' = status
  BY <1>2 DEF NewCall, CallPromote, CallRollback, tables
<1>3. ASSUME NEW c \in Caller, Refuse(c) \/ Abort(c) \/ BreakDeadlock(c)
      PROVE  releases' = releases /\ status' = status
  BY <1>3 DEF Refuse, Abort, BreakDeadlock, tables
<1>4. ASSUME NEW c \in Caller, Step(c)
      PROVE  Commit(c) \/ (releases' = releases /\ status' = status)
  BY <1>3, <1>4 DEF Step, CheckPromote, Begin, LockVersion, LockSkill, Supersede, tables
<1>5. ASSUME NEW v \in Version, NEW grade \in Grade \ {"draft"}, SetStatus(v, grade)
      PROVE  releases' = releases /\ status' = [status EXCEPT ![v] = grade]
  BY <1>5 DEF SetStatus
<1>6. QED
  BY <1>1, <1>2, <1>3, <1>4, <1>5 DEF Next

\* The transactions of 0002, with their locks, implement the ledger: a commit is
\* one promotion, override or rollback of it, and every other step but an
\* evaluation's stutters.
THEOREM LedgerImplemented == Spec => ImplementsLedger
<1>1. Init => Ledger!Init
  <2>1. ASSUME Init, NEW s \in Skill
        PROVE  Production(s) = NoRelease /\ ShippedVersions(s) = {}
    <3>1. releases[s] = <<>> /\ DOMAIN releases[s] = {}
      BY <2>1, EmptySeq DEF Init
    <3>2. QED
      BY <3>1 DEF Production, ActiveRows, ShippedVersions
  <2>2. QED
    BY <2>1 DEF Init, Ledger!Init, ShippedVersions
<1>2. ASSUME IInv, IInv', [Next]_vars
      PROVE  [Ledger!Next]_(Ledger!ledgerVars)
  <2>1. CASE \E c \in Caller : Commit(c)
    BY <1>2, <2>1, LedgerCommit
  <2>2. CASE ~ \E c \in Caller : Commit(c)
    <3>0. /\ releases' = releases
          /\ \/ status' = status
             \/ \E v \in Version, grade \in Grade \ {"draft"} :
                  status' = [status EXCEPT ![v] = grade]
      BY <1>2, <2>2, OthersLeaveLedger
    <3>1. /\ [t \in Skill |-> Production(t)]' = [t \in Skill |-> Production(t)]
          /\ [t \in Skill |-> ShippedVersions(t)]' = [t \in Skill |-> ShippedVersions(t)]
      BY <3>0 DEF Production, ActiveRows, ShippedVersions
    <3>2. CASE status' = status
      BY <3>1, <3>2 DEF Ledger!ledgerVars, ShippedVersions
    <3>3. ASSUME NEW v \in Version, NEW grade \in Grade \ {"draft"},
                 status' = [status EXCEPT ![v] = grade]
          PROVE  Ledger!Next
      BY <3>1, <3>3 DEF Ledger!Next, Ledger!SetStatus, Ledger!Grade, Grade, ShippedVersions
    <3>4. QED
      BY <3>0, <3>2, <3>3
  <2>3. QED
    BY <2>1, <2>2
<1>3. QED
  BY <1>1, <1>2, Invariance, PTL DEF Spec, ImplementsLedger, Ledger!Spec

=============================================================================
