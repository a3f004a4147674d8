--------------------------- MODULE RegistryProofs ---------------------------
(***************************************************************************)
(* Theorems about Registry, for any number of requests, skills, version    *)
(* numbers and faults.                                                     *)
(*                                                                         *)
(* Every table only grows, so that what one request has done stays done    *)
(* for the others; a step therefore has to show only what it does to the   *)
(* request that takes it (Combine).  A statement is treated once, whatever *)
(* becomes of the request after it: the next step, a failure or a crash.   *)
(***************************************************************************)
EXTENDS Registry, TLAPS

Store == PackagesBelong /\ PathsUnique /\ RowsBacked

TablesTyped ==
  /\ artifacts \subseteq Artifact
  /\ skills \in [Request -> Slug \cup {NoSlug}]
  /\ versions \subseteq VersionRow
  /\ sourced \subseteq Request
  /\ lineage \subseteq Request \X Request
  /\ audited \subseteq Request \X Event
  /\ faults \in 0..MaxFaults

SkillKnown(r) ==
  /\ CreatesSkill(r) => /\ calls[r].skill = r
                        /\ calls[r].pc # "idle" => calls[r].slug \in Slug
  /\ calls[r].pc = "skill" => CreatesSkill(r)
  /\ calls[r].pc \in FromVersion \/ (~CreatesSkill(r) /\ calls[r].pc \in {"list", "put"})
       => Exists(calls[r].skill)

Ordered(r) ==
  /\ calls[r].pc = "idle" => /\ calls[r].kind = "skill"
                             /\ calls[r].parents = {}
  /\ calls[r].pc \in FromSource => r \in Versioned
  /\ calls[r].pc \in FromAudit => r \in sourced
  /\ calls[r].pc \in FromAudit \ {"audit"} => <<r, "imported">> \in audited
  /\ (calls[r].parents \ calls[r].left) \X {r} \subseteq lineage
  /\ calls[r].left \subseteq calls[r].parents
  /\ calls[r].pc \in {"derived", "done"} => calls[r].left = {}
  /\ calls[r].pc \notin {"lineage", "derived", "done", "failed", "lost"}
       => calls[r].left = calls[r].parents
  /\ calls[r].pc = "done" /\ calls[r].parents # {} => <<r, "derived">> \in audited

\* The request r becomes c and the others stay as they are.
Becomes(r, c) == c \in Call /\ calls' = [calls EXCEPT ![r] = c]

\* ... still about the same registration.
Same(r, c) ==
  /\ c.kind = calls[r].kind /\ c.skill = calls[r].skill
  /\ c.number = calls[r].number /\ c.slug = calls[r].slug
  /\ c.parents = calls[r].parents

Grows ==
  /\ versions \subseteq versions' /\ sourced \subseteq sourced'
  /\ lineage \subseteq lineage' /\ audited \subseteq audited'
  /\ \A s \in Request : Exists(s) => Exists(s)'

LEMMA Frame ==
  ASSUME TypeOK, NEW r \in Request, NEW c, Becomes(r, c)
  PROVE  /\ calls' \in [Request -> Call]
         /\ calls'[r] = c
         /\ \A q \in Request \ {r} : calls'[q] = calls[q]
BY DEF TypeOK, Becomes

LEMMA VersionedGrows ==
  ASSUME versions \subseteq versions' PROVE Versioned \subseteq Versioned'
BY DEF Versioned

\* One request has at most one row, at the path it works on.
LEMMA OwnRow ==
  ASSUME IInv, NEW v \in versions
  PROVE  /\ v.id \in Request
         /\ v.skill = calls[v.id].skill /\ v.number = calls[v.id].number
         /\ calls[v.id].pc \notin Unstored \cup {"skill", "version"}
<1>1. v.id \in Request /\ v.skill \in Request
  BY DEF IInv, TypeOK, VersionRow
<1>2. [skill |-> v.skill, number |-> v.number, package |-> v.id] \in artifacts
  BY DEF IInv, RowsBacked
<1>3. v.skill = calls[v.id].skill /\ v.number = calls[v.id].number
  BY <1>2 DEF IInv, PackagesBelong
<1>4. QED
  BY <1>1, <1>3 DEF IInv, RegisteredOnce

LEMMA VersionedFar ==
  ASSUME IInv, NEW r \in Versioned
  PROVE  r \in Request /\ calls[r].pc \notin Unstored \cup {"skill", "version"}
BY OwnRow DEF Versioned

LEMMA Combine ==
  ASSUME IInv, NEW r \in Request, NEW c, Becomes(r, c), Grows,
         TablesTyped', Store', SkillsBelong', RegisteredOnce', FamilyOrdered',
         SkillKnown(r)', Ordered(r)'
  PROVE  IInv'
<1>1. /\ calls' \in [Request -> Call]
      /\ \A q \in Request \ {r} : calls'[q] = calls[q]
  BY Frame DEF IInv
<1>2. TypeOK'
  BY <1>1 DEF TypeOK, TablesTyped
<1>3. SkillFirst'
  <2>1. ASSUME NEW q \in Request \ {r} PROVE SkillKnown(q)'
    <3>1. SkillKnown(q) /\ calls[q].skill \in Request
      BY DEF IInv, SkillFirst, SkillKnown, TypeOK, Call
    <3>2. QED
      BY <1>1, <3>1 DEF Grows, SkillKnown, CreatesSkill
  <2>2. QED
    BY <2>1 DEF SkillFirst, SkillKnown
<1>4. InOrder'
  <2>1. ASSUME NEW q \in Request \ {r} PROVE Ordered(q)'
    <3>1. Ordered(q)
      BY DEF IInv, InOrder, Ordered
    <3>2. Versioned \subseteq Versioned'
      BY VersionedGrows DEF Grows
    <3>3. QED
      BY <1>1, <3>1, <3>2 DEF Grows, Ordered
  <2>2. QED
    BY <2>1 DEF InOrder, Ordered
<1>5. QED
  BY <1>2, <1>3, <1>4 DEF IInv, Store

----------------------------------------------------------------------------
(* What a step keeps, conjunct by conjunct.                                *)

\* Either the request stays at the path of its package, or it has none yet.
Settled(r, c) ==
  \/ /\ Same(r, c) /\ c.pc \notin Unstored
     /\ c.pc \in {"skill", "version"} => calls[r].pc \in {"skill", "version"}
  \/ calls[r].pc \in Unstored /\ c.pc \notin {"skill", "version"}

LEMMA StoreKept ==
  ASSUME IInv, NEW r \in Request, NEW c, Becomes(r, c), Settled(r, c),
         artifacts' = artifacts, versions' = versions
  PROVE  Store'
<1>1. /\ calls'[r] = c
      /\ \A q \in Request \ {r} : calls'[q] = calls[q]
  BY Frame DEF IInv
<1>2. PathsUnique' /\ RowsBacked'
  BY DEF IInv, PathsUnique, RowsBacked
<1>3. ASSUME NEW a \in artifacts
      PROVE  /\ calls'[a.package].pc \notin Unstored
             /\ a.skill = calls'[a.package].skill
             /\ a.number = calls'[a.package].number
  <2>1. a.package \in Request
    BY DEF IInv, TypeOK, Artifact
  <2>2. /\ calls[a.package].pc \notin Unstored
        /\ a.skill = calls[a.package].skill
        /\ a.number = calls[a.package].number
    BY DEF IInv, PackagesBelong
  <2>3. QED
    BY <1>1, <2>1, <2>2 DEF Settled, Same
<1>4. ASSUME NEW q \in Request, calls'[q].pc \in {"skill", "version"}
      PROVE  [skill |-> calls'[q].skill, number |-> calls'[q].number,
              package |-> q] \in artifacts
  BY <1>1, <1>4 DEF IInv, PackagesBelong, Settled, Same
<1>5. QED
  BY <1>2, <1>3, <1>4 DEF Store, PackagesBelong

LEMMA StorePut ==
  ASSUME IInv, NEW r \in Request, NEW c, Becomes(r, c), Same(r, c),
         c.pc \notin Unstored, PutObject(r)
  PROVE  Store'
<1> DEFINE new == [skill |-> calls[r].skill, number |-> calls[r].number,
                   package |-> r]
<1>1. /\ calls'[r] = c
      /\ \A q \in Request \ {r} : calls'[q] = calls[q]
  BY Frame DEF IInv
<1>2. /\ artifacts' = artifacts \cup {new} /\ versions' = versions
      /\ ~PathTaken(calls[r].skill, calls[r].number)
      /\ calls[r].pc = "put"
  BY DEF PutObject, tables
<1>3. new.skill = calls[r].skill /\ new.number = calls[r].number /\ new.package = r
  OBVIOUS
<1>4. PathsUnique'
  BY <1>2, <1>3 DEF IInv, PathsUnique, PathTaken
<1>5. RowsBacked'
  BY <1>2 DEF IInv, RowsBacked
<1>6. ASSUME NEW a \in artifacts'
      PROVE  /\ calls'[a.package].pc \notin Unstored
             /\ a.skill = calls'[a.package].skill
             /\ a.number = calls'[a.package].number
  <2>1. CASE a = new
    BY <1>1, <1>3, <2>1 DEF Same
  <2>2. CASE a \in artifacts
    <3>1. a.package \in Request
      BY <2>2 DEF IInv, TypeOK, Artifact
    <3>2. /\ calls[a.package].pc \notin Unstored
          /\ a.skill = calls[a.package].skill
          /\ a.number = calls[a.package].number
      BY <2>2 DEF IInv, PackagesBelong
    <3>3. QED
      BY <1>1, <3>1, <3>2 DEF Same
  <2>3. QED
    BY <1>2, <2>1, <2>2
<1>7. ASSUME NEW q \in Request, calls'[q].pc \in {"skill", "version"}
      PROVE  [skill |-> calls'[q].skill, number |-> calls'[q].number,
              package |-> q] \in artifacts'
  <2>1. CASE q = r
    BY <1>1, <1>2, <2>1 DEF Same
  <2>2. CASE q # r
    BY <1>1, <1>2, <1>7, <2>2 DEF IInv, PackagesBelong
  <2>3. QED
    BY <2>1, <2>2
<1>8. QED
  BY <1>4, <1>5, <1>6, <1>7 DEF Store, PackagesBelong

LEMMA SkillsKept ==
  ASSUME IInv, NEW r \in Request, NEW c, Becomes(r, c),
         c.pc \notin Unstored \/ calls[r].pc \in Unstored,
         skills' = skills
  PROVE  SkillsBelong'
<1>1. /\ calls'[r] = c
      /\ \A q \in Request \ {r} : calls'[q] = calls[q]
  BY Frame DEF IInv
<1>2. QED
  BY <1>1 DEF IInv, SkillsBelong, Exists

LEMMA RegisteredKept ==
  ASSUME IInv, NEW r \in Request, NEW c, Becomes(r, c), Grows,
         \/ c.pc \notin Unstored \cup {"skill", "version"}
         \/ calls[r].pc \in Unstored \cup {"skill", "version"},
         versions' = versions
  PROVE  RegisteredOnce'
<1>1. /\ calls'[r] = c
      /\ \A q \in Request \ {r} : calls'[q] = calls[q]
  BY Frame DEF IInv
<1>2. SUFFICES ASSUME NEW v \in versions
               PROVE  /\ calls'[v.id].pc \notin Unstored \cup {"skill", "version"}
                      /\ Exists(v.skill)'
  BY DEF RegisteredOnce
<1>3. /\ v.id \in Request /\ v.skill \in Request
      /\ calls[v.id].pc \notin Unstored \cup {"skill", "version"}
      /\ Exists(v.skill)
  BY DEF IInv, TypeOK, VersionRow, RegisteredOnce
<1>4. QED
  BY <1>1, <1>3 DEF Grows

\* The family of a request that stays with its registration.
LEMMA FamilyKept ==
  ASSUME IInv, NEW r \in Request, NEW c, Becomes(r, c), Same(r, c), Grows,
         Versioned' \subseteq Versioned \cup {r},
         c.pc \in {"put", "skill", "version"} \/ r \in Versioned' =>
           calls[r].pc \in {"put", "skill", "version"} \/ r \in Versioned,
         \A pair \in lineage' \ lineage :
           pair[2] = r /\ pair[1] \in calls[r].parents /\ r \in Versioned
  PROVE  FamilyOrdered'
<1>1. /\ calls'[r] = c
      /\ \A q \in Request \ {r} : calls'[q] = calls[q]
  BY Frame DEF IInv
<1>2. \A q \in Request :
        /\ calls'[q].skill = calls[q].skill /\ calls'[q].number = calls[q].number
        /\ calls'[q].parents = calls[q].parents
        /\ calls'[q].pc \in {"put", "skill", "version"} \/ q \in Versioned' =>
             calls[q].pc \in {"put", "skill", "version"} \/ q \in Versioned
  BY <1>1 DEF Same
<1>3. Versioned \subseteq Versioned'
  BY VersionedGrows DEF Grows
<1>4. \A q \in Request : calls[q].parents \subseteq Request
  BY DEF IInv, TypeOK, Call
<1>5. ASSUME NEW q \in Request, NEW p \in calls'[q].parents
      PROVE  /\ p \in Versioned'
             /\ /\ calls'[p].skill = calls'[q].skill
                /\ calls'[q].pc \in {"put", "skill", "version"} \/ q \in Versioned'
                => Before(calls'[p].number, calls'[q].number)
  <2>1. p \in calls[q].parents /\ p \in Request
    BY <1>2, <1>4
  <2>2. QED
    BY <1>2, <1>3, <2>1 DEF IInv, FamilyOrdered
<1>6. ASSUME NEW pair \in lineage'
      PROVE  pair[1] \in calls'[pair[2]].parents /\ pair[2] \in Versioned'
  <2>1. CASE pair \in lineage
    <3>1. pair[2] \in Request
      BY <2>1 DEF IInv, TypeOK
    <3>2. QED
      BY <1>2, <1>3, <2>1, <3>1 DEF IInv, FamilyOrdered
  <2>2. CASE pair \notin lineage
    BY <1>2, <1>3, <2>2
  <2>3. QED
    BY <2>1, <2>2
<1>7. QED
  BY <1>5, <1>6 DEF FamilyOrdered

----------------------------------------------------------------------------
(* The statements, whatever becomes of the request after them.             *)

Fault == {"failed", "lost"}

LEMMA QuietMove ==
  ASSUME IInv, NEW r \in Request, NEW c, Becomes(r, c), Same(r, c),
         c.left = calls[r].left, calls[r].pc # "idle",
         \/ c.pc \in Fault
         \/ calls[r].pc = "put" /\ c.pc = "refused"
         \/ calls[r].pc = "source" /\ c.pc = "link",
         UNCHANGED <<artifacts, tables>>, faults' \in 0..MaxFaults
  PROVE  IInv'
<1>1. calls'[r] = c
  BY Frame DEF IInv
<1>2. /\ artifacts' = artifacts /\ skills' = skills /\ versions' = versions
      /\ sourced' = sourced /\ lineage' = lineage /\ audited' = audited
  BY DEF tables
<1>3. Grows /\ TablesTyped' /\ Versioned' = Versioned
  BY <1>2 DEF Grows, Exists, TablesTyped, IInv, TypeOK, Versioned
<1>4. Settled(r, c)
  BY DEF Settled, Fault, Unstored
<1>5. Store' /\ SkillsBelong' /\ RegisteredOnce'
  BY <1>2, <1>3, <1>4, StoreKept, SkillsKept, RegisteredKept
     DEF Settled, Unstored, Fault
<1>6. FamilyOrdered'
  BY <1>2, <1>3, FamilyKept DEF Fault
<1>7. SkillKnown(r)'
  <2>1. SkillKnown(r)
    BY DEF IInv, SkillFirst, SkillKnown
  <2>2. calls[r].skill \in Request
    BY DEF IInv, TypeOK, Call
  <2>3. QED
    BY <1>1, <1>3, <2>1, <2>2
       DEF Grows, SkillKnown, CreatesSkill, Same, Fault, FromVersion
<1>8. Ordered(r)'
  <2>1. Ordered(r)
    BY DEF IInv, InOrder, Ordered
  <2>2. QED
    BY <1>1, <1>2, <1>3, <2>1 DEF Ordered, Same, Fault, FromAudit, FromSource, FromVersion
<1>9. QED
  BY <1>3, <1>5, <1>6, <1>7, <1>8, Combine

LEMMA PutMove ==
  ASSUME IInv, NEW r \in Request, NEW c, Becomes(r, c), Same(r, c),
         c.left = calls[r].left,
         c.pc \in Fault \/ c.pc = IF CreatesSkill(r) THEN "skill" ELSE "version",
         PutObject(r), faults' \in 0..MaxFaults
  PROVE  IInv'
<1>1. calls'[r] = c
  BY Frame DEF IInv
<1>2. /\ calls[r].pc = "put"
      /\ skills' = skills /\ versions' = versions
      /\ sourced' = sourced /\ lineage' = lineage /\ audited' = audited
  BY DEF PutObject, tables
<1>3. artifacts' \subseteq Artifact
  BY DEF PutObject, IInv, TypeOK, Artifact, Call
<1>4. Grows /\ TablesTyped' /\ Versioned' = Versioned
  BY <1>2, <1>3 DEF Grows, Exists, TablesTyped, IInv, TypeOK, Versioned
<1>5. c.pc \notin Unstored
  BY DEF Fault, Unstored
<1>6. Store' /\ SkillsBelong' /\ RegisteredOnce'
  BY <1>2, <1>4, <1>5, StorePut, SkillsKept, RegisteredKept DEF Unstored
<1>7. FamilyOrdered'
  BY <1>2, <1>4, FamilyKept
<1>8. SkillKnown(r)'
  <2>1. SkillKnown(r)
    BY DEF IInv, SkillFirst, SkillKnown
  <2>2. calls[r].skill \in Request
    BY DEF IInv, TypeOK, Call
  <2>3. QED
    BY <1>1, <1>2, <1>4, <2>1, <2>2
       DEF Grows, SkillKnown, CreatesSkill, Same, Fault, FromVersion
<1>9. Ordered(r)'
  <2>1. Ordered(r)
    BY DEF IInv, InOrder, Ordered
  <2>2. QED
    BY <1>1, <1>2, <1>4, <2>1 DEF Ordered, Same, Fault, FromAudit, FromSource, FromVersion
<1>10. QED
  BY <1>4, <1>6, <1>7, <1>8, <1>9, Combine

LEMMA SkillMove ==
  ASSUME IInv, NEW r \in Request, NEW c, Becomes(r, c), Same(r, c),
         c.left = calls[r].left, c.pc \in Fault \cup {"version"},
         InsertSkill(r), faults' \in 0..MaxFaults, CreatesSkill(r)
  PROVE  IInv'
<1>1. calls'[r] = c /\ \A q \in Request \ {r} : calls'[q] = calls[q]
  BY Frame DEF IInv
<1>2. /\ calls[r].pc = "skill"
      /\ artifacts' = artifacts /\ versions' = versions
      /\ sourced' = sourced /\ lineage' = lineage /\ audited' = audited
  BY DEF InsertSkill
<1>3. SkillKnown(r)
  BY DEF IInv, SkillFirst, SkillKnown
<1>4. /\ calls[r].skill = r /\ calls[r].slug \in Slug /\ calls[r].slug # NoSlug
  BY <1>2, <1>3, RegistryAssumption DEF SkillKnown
<1>5. /\ skills' \in [Request -> Slug \cup {NoSlug}]
      /\ \A s \in Request : Exists(s)' <=> Exists(s) \/ s = r
  BY <1>4 DEF InsertSkill, IInv, TypeOK, Exists
<1>6. Grows /\ TablesTyped' /\ Versioned' = Versioned
  BY <1>2, <1>5 DEF Grows, TablesTyped, IInv, TypeOK, Versioned
<1>7. c.pc \notin Unstored
  BY DEF Fault, Unstored
<1>8. SkillsBelong'
  BY <1>1, <1>5, <1>7 DEF IInv, SkillsBelong
<1>9. Store' /\ RegisteredOnce'
  BY <1>2, <1>6, <1>7, StoreKept, RegisteredKept DEF Settled
<1>10. FamilyOrdered'
  BY <1>2, <1>6, FamilyKept
<1>11. SkillKnown(r)'
  BY <1>1, <1>3, <1>4, <1>5, <1>6 DEF SkillKnown, CreatesSkill, Same, Fault
<1>12. Ordered(r)'
  <2>1. Ordered(r)
    BY DEF IInv, InOrder, Ordered
  <2>2. QED
    BY <1>1, <1>2, <1>6, <2>1 DEF Ordered, Same, Fault, FromAudit, FromSource, FromVersion
<1>13. QED
  BY <1>6, <1>8, <1>9, <1>10, <1>11, <1>12, Combine

LEMMA VersionMove ==
  ASSUME IInv, NEW r \in Request, NEW c, Becomes(r, c), Same(r, c),
         c.left = calls[r].left, c.pc \in Fault \cup {"source"},
         InsertVersion(r), faults' \in 0..MaxFaults
  PROVE  IInv'
<1> DEFINE row == [skill |-> calls[r].skill, number |-> calls[r].number, id |-> r]
<1>1. calls'[r] = c /\ \A q \in Request \ {r} : calls'[q] = calls[q]
  BY Frame DEF IInv
<1>2. /\ calls[r].pc = "version"
      /\ artifacts' = artifacts /\ skills' = skills
      /\ sourced' = sourced /\ lineage' = lineage /\ audited' = audited
      /\ versions' = versions \cup {row}
  BY DEF InsertVersion
<1>3. /\ row \in VersionRow /\ row.skill = calls[r].skill
      /\ row.number = calls[r].number /\ row.id = r
  BY DEF IInv, TypeOK, Call, VersionRow
<1>4. SkillKnown(r) /\ calls[r].skill \in Request
  BY DEF IInv, SkillFirst, SkillKnown, TypeOK, Call
<1> HIDE DEF row
<1>5. Grows /\ TablesTyped'
  BY <1>2, <1>3 DEF Grows, Exists, TablesTyped, IInv, TypeOK
<1>6. Versioned' = Versioned \cup {r}
  BY <1>2, <1>3 DEF Versioned
<1>7. c.pc \notin Unstored \cup {"skill", "version"}
  BY DEF Fault, Unstored
<1>8. SkillsBelong'
  BY <1>2, <1>7, SkillsKept
<1>9. Store'
  <2>1. PackagesBelong'
    <3>1. ASSUME NEW a \in artifacts
          PROVE  /\ calls'[a.package].pc \notin Unstored
                 /\ a.skill = calls'[a.package].skill
                 /\ a.number = calls'[a.package].number
      <4>1. a.package \in Request
        BY DEF IInv, TypeOK, Artifact
      <4>2. /\ calls[a.package].pc \notin Unstored
            /\ a.skill = calls[a.package].skill
            /\ a.number = calls[a.package].number
        BY DEF IInv, PackagesBelong
      <4>3. QED
        BY <1>1, <1>7, <4>1, <4>2 DEF Same
    <3>2. ASSUME NEW q \in Request, calls'[q].pc \in {"skill", "version"}
          PROVE  [skill |-> calls'[q].skill, number |-> calls'[q].number,
                  package |-> q] \in artifacts
      BY <1>1, <1>7, <3>2 DEF IInv, PackagesBelong
    <3>3. QED
      BY <1>2, <3>1, <3>2 DEF PackagesBelong
  <2>2. PathsUnique'
    BY <1>2 DEF IInv, PathsUnique
  <2>3. RowsBacked'
    <3>1. [skill |-> row.skill, number |-> row.number, package |-> row.id]
            \in artifacts
      BY <1>2, <1>3 DEF IInv, PackagesBelong
    <3>2. QED
      BY <1>2, <3>1 DEF IInv, RowsBacked
  <2>4. QED
    BY <2>1, <2>2, <2>3 DEF Store
<1>10. RegisteredOnce'
  <2>1. ASSUME NEW v \in versions
        PROVE  /\ calls'[v.id].pc \notin Unstored \cup {"skill", "version"}
               /\ Exists(v.skill)'
    <3>1. /\ v.id \in Request /\ v.skill \in Request
          /\ calls[v.id].pc \notin Unstored \cup {"skill", "version"}
          /\ Exists(v.skill)
      BY DEF IInv, TypeOK, VersionRow, RegisteredOnce
    <3>2. QED
      BY <1>1, <1>7, <1>5, <3>1 DEF Grows
  <2>2. /\ calls'[row.id].pc \notin Unstored \cup {"skill", "version"}
        /\ skills'[row.skill] # NoSlug
    BY <1>1, <1>2, <1>3, <1>4, <1>7 DEF SkillKnown, FromVersion, Exists
  <2>3. QED
    BY <1>2, <2>1, <2>2 DEF RegisteredOnce, Exists
<1>11. FamilyOrdered'
  BY <1>2, <1>5, <1>6, FamilyKept
<1>12. SkillKnown(r)'
  BY <1>1, <1>2, <1>4, <1>5
     DEF Grows, SkillKnown, CreatesSkill, Same, Fault, FromVersion
<1>13. Ordered(r)'
  <2>1. Ordered(r)
    BY DEF IInv, InOrder, Ordered
  <2>2. QED
    BY <1>1, <1>2, <1>6, <2>1 DEF Ordered, Same, Fault, FromAudit, FromSource, FromVersion
<1>14. QED
  BY <1>5, <1>8, <1>9, <1>10, <1>11, <1>12, <1>13, Combine

\* The statements about a version that is registered.
LEMMA AfterVersion ==
  ASSUME IInv, NEW r \in Request, NEW c, Becomes(r, c), Same(r, c), Grows,
         TablesTyped', UNCHANGED <<artifacts, skills, versions>>,
         calls[r].pc \in FromSource, c.pc \in Fault \cup FromSource,
         \A pair \in lineage' \ lineage :
           pair[2] = r /\ pair[1] \in calls[r].parents,
         Ordered(r)'
  PROVE  IInv'
<1>1. calls'[r] = c
  BY Frame DEF IInv
<1>2. r \in Versioned /\ Versioned' = Versioned
  BY DEF IInv, InOrder, Versioned
<1>3. c.pc \notin Unstored \cup {"skill", "version"}
  BY DEF Fault, FromSource, FromVersion, Unstored
<1>4. Store' /\ SkillsBelong' /\ RegisteredOnce'
  BY <1>3, StoreKept, SkillsKept, RegisteredKept DEF Settled
<1>5. FamilyOrdered'
  BY <1>2, FamilyKept
<1>6. SkillKnown(r)'
  <2>1. SkillKnown(r)
    BY DEF IInv, SkillFirst, SkillKnown
  <2>2. calls[r].skill \in Request
    BY DEF IInv, TypeOK, Call
  <2>3. QED
    BY <1>1, <2>1, <2>2
       DEF Grows, SkillKnown, CreatesSkill, Same, Fault, FromSource, FromVersion
<1>7. QED
  BY <1>4, <1>5, <1>6, Combine

LEMMA LinkMove ==
  ASSUME IInv, NEW r \in Request, NEW c, Becomes(r, c), Same(r, c),
         c.left = calls[r].left, c.pc \in Fault \cup {"audit"},
         InsertLink(r), faults' \in 0..MaxFaults
  PROVE  IInv'
<1>1. calls'[r] = c
  BY Frame DEF IInv
<1>2. /\ calls[r].pc = "link" /\ sourced' = sourced \cup {r}
      /\ artifacts' = artifacts /\ skills' = skills /\ versions' = versions
      /\ lineage' = lineage /\ audited' = audited
  BY DEF InsertLink
<1>3. Grows /\ TablesTyped' /\ Versioned' = Versioned
  BY <1>2 DEF Grows, Exists, TablesTyped, IInv, TypeOK, Versioned
<1>4. Ordered(r)'
  <2>1. Ordered(r)
    BY DEF IInv, InOrder, Ordered
  <2>2. QED
    BY <1>1, <1>2, <1>3, <2>1 DEF Ordered, Same, Fault, FromAudit, FromSource, FromVersion
<1>5. QED
  BY <1>2, <1>3, <1>4, AfterVersion DEF FromSource, FromVersion

LEMMA EventMove ==
  ASSUME IInv, NEW r \in Request, NEW c, Becomes(r, c), Same(r, c),
         c.left = calls[r].left,
         \/ c.pc \in Fault
         \/ /\ calls[r].pc = "audit"
            /\ c.pc = IF calls[r].left = {} THEN "done" ELSE "lineage"
         \/ calls[r].pc = "derived" /\ c.pc = "done",
         InsertEvent(r), faults' \in 0..MaxFaults
  PROVE  IInv'
<1>1. calls'[r] = c
  BY Frame DEF IInv
<1>2. /\ calls[r].pc \in {"audit", "derived"}
      /\ audited' = audited \cup
           {<<r, IF calls[r].pc = "audit" THEN "imported" ELSE "derived">>}
      /\ artifacts' = artifacts /\ skills' = skills /\ versions' = versions
      /\ sourced' = sourced /\ lineage' = lineage
  BY DEF InsertEvent
<1>3. Grows /\ TablesTyped' /\ Versioned' = Versioned
  BY <1>2 DEF Grows, Exists, TablesTyped, IInv, TypeOK, Versioned, Event
<1>4. Ordered(r)'
  <2>1. Ordered(r)
    BY DEF IInv, InOrder, Ordered
  <2>2. QED
    BY <1>1, <1>2, <1>3, <2>1 DEF Ordered, Same, Fault, FromAudit, FromSource, FromVersion
<1>5. QED
  BY <1>2, <1>3, <1>4, AfterVersion DEF FromSource, FromVersion

LEMMA LineageMove ==
  ASSUME IInv, NEW r \in Request, NEW c, Becomes(r, c), Same(r, c), NEW p,
         \/ c.pc \in Fault /\ c.left = calls[r].left
         \/ /\ c.left = calls[r].left \ {p}
            /\ c.pc = IF calls[r].left = {p} THEN "derived" ELSE "lineage",
         InsertLineage(r, p), faults' \in 0..MaxFaults
  PROVE  IInv'
<1>1. calls'[r] = c
  BY Frame DEF IInv
<1>2. /\ calls[r].pc = "lineage" /\ p \in calls[r].left
      /\ lineage' = lineage \cup {<<p, r>>}
      /\ artifacts' = artifacts /\ skills' = skills /\ versions' = versions
      /\ sourced' = sourced /\ audited' = audited
  BY DEF InsertLineage
<1>3. calls[r].left \subseteq Request
  BY DEF IInv, TypeOK, Call
<1>4. Grows /\ TablesTyped' /\ Versioned' = Versioned
  BY <1>2, <1>3 DEF Grows, Exists, TablesTyped, IInv, TypeOK, Versioned
<1>5. Ordered(r)
  BY DEF IInv, InOrder, Ordered
<1>6. Ordered(r)'
  BY <1>1, <1>2, <1>4, <1>5 DEF Ordered, Same, Fault, FromAudit, FromSource, FromVersion
<1>7. p \in calls[r].parents
  BY <1>2, <1>5 DEF Ordered
<1>8. QED
  BY <1>2, <1>4, <1>6, <1>7, AfterVersion DEF FromSource, FromVersion

----------------------------------------------------------------------------
(* Version numbers.                                                        *)

LEMMA NextIsNewer ==
  ASSUME NEW n \in Number, NEW m \in Number, ~Before(n, m)
  PROVE  Before(m, NextMinor(n))
<1>1. /\ n[1] \in Nat /\ n[2] \in Nat /\ n[3] \in Nat
      /\ m[1] \in Nat /\ m[2] \in Nat /\ m[3] \in Nat
  BY DEF Number
<1>2. /\ NextMinor(n)[1] = n[1] /\ NextMinor(n)[2] = n[2] + 1
      /\ NextMinor(n)[3] = 0
  BY DEF NextMinor
<1>3. QED
  BY <1>1, <1>2 DEF Before

LEMMA NextTyped == ASSUME NEW n \in Number PROVE NextMinor(n) \in Number
BY DEF NextMinor, Number

----------------------------------------------------------------------------
(* A request arrives, and an operator's personalization gets its number.   *)

LEMMA OpenMove ==
  ASSUME IInv, NEW r \in Request, NEW c, Becomes(r, c), calls[r].pc = "idle",
         c.pc \in {"put", "list", "refused"}, c.left = c.parents,
         c.kind \in {"skill", "fuse"} => c.skill = r /\ c.slug \in Slug,
         c.kind \notin {"skill", "fuse"} /\ c.pc # "refused" => Exists(c.skill),
         \A p \in c.parents : /\ p \in Versioned
                              /\ c.pc = "put" => calls[p].skill # c.skill,
         UNCHANGED <<artifacts, tables, faults>>
  PROVE  IInv'
<1>1. /\ calls'[r] = c
      /\ \A q \in Request \ {r} : calls'[q] = calls[q]
  BY Frame DEF IInv
<1>2. /\ artifacts' = artifacts /\ skills' = skills /\ versions' = versions
      /\ sourced' = sourced /\ lineage' = lineage /\ audited' = audited
      /\ faults' = faults
  BY DEF tables
<1>3. Grows /\ TablesTyped' /\ Versioned' = Versioned
  BY <1>2 DEF Grows, Exists, TablesTyped, IInv, TypeOK, Versioned
<1>4. Store' /\ SkillsBelong' /\ RegisteredOnce'
  BY <1>2, <1>3, StoreKept, SkillsKept, RegisteredKept DEF Settled, Unstored
<1>5. r \notin Versioned
  BY VersionedFar DEF Unstored
<1>6. FamilyOrdered'
  <2>1. ASSUME NEW q \in Request, NEW p \in calls'[q].parents
        PROVE  /\ p \in Versioned
               /\ /\ calls'[p].skill = calls'[q].skill
                  /\ calls'[q].pc \in {"put", "skill", "version"} \/ q \in Versioned
                  => Before(calls'[p].number, calls'[q].number)
    <3>1. p \in Versioned
      BY <1>1 DEF IInv, FamilyOrdered
    <3>2. p \in Request /\ calls'[p] = calls[p]
      BY <1>1, <1>5, <3>1, VersionedFar
    <3>3. CASE q = r
      BY <1>1, <1>5, <3>1, <3>2, <3>3
    <3>4. CASE q # r
      BY <1>1, <3>1, <3>2, <3>4 DEF IInv, FamilyOrdered
    <3>5. QED
      BY <3>3, <3>4
  <2>2. ASSUME NEW pair \in lineage
        PROVE  pair[1] \in calls'[pair[2]].parents /\ pair[2] \in Versioned
    <3>1. /\ pair[2] \in Request /\ pair[2] \in Versioned
          /\ pair[1] \in calls[pair[2]].parents
      BY DEF IInv, TypeOK, FamilyOrdered
    <3>2. QED
      BY <1>1, <1>5, <3>1
  <2>3. QED
    BY <1>2, <1>3, <2>1, <2>2 DEF FamilyOrdered
<1>7. SkillKnown(r)'
  BY <1>1, <1>2 DEF SkillKnown, CreatesSkill, Exists, FromVersion
<1>8. Ordered(r)'
  BY <1>1 DEF Ordered, FromAudit, FromSource, FromVersion
<1>9. QED
  BY <1>3, <1>4, <1>6, <1>7, <1>8, Combine

LEMMA NewRequestKeeps ==
  ASSUME IInv, NEW r \in Request, NewRequest(r)
  PROVE  IInv'
<1>1. /\ calls \in [Request -> Call] /\ calls[r] \in Call
  BY DEF IInv, TypeOK
<1>2. ASSUME calls[r].pc = "idle"
      PROVE  /\ calls[r].parents = {} /\ calls[r].left = {}
             /\ calls[r].kind = "skill" /\ calls[r].skill = r /\ ~Exists(r)
  <2>1. Ordered(r) /\ SkillKnown(r)
    BY DEF IInv, InOrder, Ordered, SkillFirst, SkillKnown
  <2>2. QED
    BY <1>2, <2>1 DEF Ordered, SkillKnown, CreatesSkill, IInv, SkillsBelong, Unstored
<1>3. ASSUME NEW v \in versions
      PROVE  /\ v.id \in Request /\ calls[v.id].skill = v.skill
             /\ v.skill \in Request /\ Exists(v.skill)
  BY OwnRow DEF IInv, RegisteredOnce, TypeOK, VersionRow
<1>4. ASSUME NEW slug \in Slug, ImportSkill(r, slug) PROVE IInv'
  <2> DEFINE c == [calls[r] EXCEPT !.pc = "put", !.kind = "skill", !.slug = slug]
  <2>1. calls[r].pc = "idle" /\ UNCHANGED <<artifacts, tables, faults>>
    BY <1>4 DEF ImportSkill, Open
  <2>2. /\ c \in Call /\ c.pc = "put" /\ c.kind = "skill" /\ c.slug = slug
        /\ c.skill = r /\ c.parents = {} /\ c.left = {}
    BY <1>1, <1>2, <2>1 DEF Call
  <2>3. calls' = [calls EXCEPT ![r] = c]
    BY <1>4 DEF ImportSkill, Open
  <2> HIDE DEF c
  <2>4. QED
    BY <2>1, <2>2, <2>3, OpenMove DEF Becomes
<1>5. ASSUME NEW slug \in Slug, NEW parents \in SUBSET Versioned,
             Fuse(r, slug, parents)
      PROVE  IInv'
  <2> DEFINE c == [calls[r] EXCEPT !.pc = "put", !.kind = "fuse", !.slug = slug,
                                   !.parents = parents, !.left = parents]
  <2>1. calls[r].pc = "idle" /\ UNCHANGED <<artifacts, tables, faults>>
    BY <1>5 DEF Fuse, Open
  <2>2. \A p \in parents : p \in Request /\ calls[p].skill # r
    BY <1>2, <1>3, <2>1 DEF Versioned
  <2>3. /\ c \in Call /\ c.pc = "put" /\ c.kind = "fuse" /\ c.slug = slug
        /\ c.skill = r /\ c.parents = parents /\ c.left = parents
    BY <1>1, <1>2, <2>1, <2>2 DEF Call
  <2>4. calls' = [calls EXCEPT ![r] = c]
    BY <1>5 DEF Fuse, Open
  <2> HIDE DEF c
  <2>5. QED
    BY <2>1, <2>2, <2>3, <2>4, OpenMove DEF Becomes
<1>6. ASSUME NEW s \in Request, NEW number \in Numbers,
             ImportVersion(r, s, number)
      PROVE  IInv'
  <2> DEFINE c == [calls[r] EXCEPT !.pc = IF Exists(s) THEN "put" ELSE "refused",
                                   !.kind = "version", !.skill = s,
                                   !.number = number]
  <2>1. calls[r].pc = "idle" /\ UNCHANGED <<artifacts, tables, faults>>
    BY <1>6 DEF ImportVersion, Open
  <2>2. /\ c \in Call /\ c.pc = (IF Exists(s) THEN "put" ELSE "refused")
        /\ c.kind = "version"
        /\ c.skill = s /\ c.parents = {} /\ c.left = {}
    BY <1>1, <1>2, <2>1, RegistryAssumption DEF Call
  <2>3. calls' = [calls EXCEPT ![r] = c]
    BY <1>6 DEF ImportVersion, Open
  <2> HIDE DEF c
  <2>4. QED
    BY <2>1, <2>2, <2>3, OpenMove DEF Becomes
<1>7. ASSUME NEW baseline \in Versioned, Personalize(r, baseline) PROVE IInv'
  <2> DEFINE s == RowOf(baseline).skill
             c == [calls[r] EXCEPT !.pc = "list", !.kind = "personal",
                                   !.skill = s, !.parents = {baseline},
                                   !.left = {baseline}]
  <2>1. calls[r].pc = "idle" /\ UNCHANGED <<artifacts, tables, faults>>
    BY <1>7 DEF Personalize, Open
  <2>2. baseline \in Request /\ s \in Request /\ Exists(s)
    <3>1. \E v \in versions : v.id = baseline
      BY DEF Versioned
    <3>2. RowOf(baseline) \in versions /\ RowOf(baseline).id = baseline
      BY <3>1 DEF RowOf
    <3>3. QED
      BY <1>3, <3>2
  <2> HIDE DEF s
  <2>3. /\ c \in Call /\ c.pc = "list" /\ c.kind = "personal"
        /\ c.skill = s /\ c.parents = {baseline} /\ c.left = {baseline}
    BY <1>1, <2>2 DEF Call
  <2>4. calls' = [calls EXCEPT ![r] = c]
    BY <1>7 DEF Personalize, Open, s
  <2> HIDE DEF c
  <2>5. QED
    BY <2>1, <2>2, <2>3, <2>4, OpenMove DEF Becomes
<1>8. QED
  BY <1>4, <1>5, <1>6, <1>7 DEF NewRequest

LEMMA ListVersionsKeeps ==
  ASSUME IInv, NEW r \in Request, ListVersions(r)
  PROVE  IInv'
<1>1. PICK n \in NumbersOf(calls[r].skill) :
        /\ IsNewest(n, NumbersOf(calls[r].skill))
        /\ calls' = [calls EXCEPT ![r] = [@ EXCEPT !.pc = "put",
                                                    !.number = NextMinor(n)]]
  BY DEF ListVersions
<1>2. n \in Number
  BY DEF NumbersOf, VersionsOf, IInv, TypeOK, VersionRow
<1> DEFINE next == NextMinor(n)
           c == [calls[r] EXCEPT !.pc = "put", !.number = next]
<1>3. next \in Number
  BY <1>2, NextTyped
<1>4. calls' = [calls EXCEPT ![r] = c]
  BY <1>1
<1> HIDE DEF next
<1>5. /\ c \in Call /\ c.pc = "put" /\ c.number = next
      /\ c.kind = calls[r].kind /\ c.skill = calls[r].skill
      /\ c.slug = calls[r].slug /\ c.parents = calls[r].parents
      /\ c.left = calls[r].left
  <2>1. calls[r] \in Call
    BY DEF IInv, TypeOK
  <2>2. QED
    BY <1>3, <2>1 DEF Call
<1> HIDE DEF c
<1>6. Becomes(r, c)
  BY <1>4, <1>5 DEF Becomes
<1>7. /\ calls'[r] = c
      /\ \A q \in Request \ {r} : calls'[q] = calls[q]
  BY <1>6, Frame DEF IInv
<1>8. /\ artifacts' = artifacts /\ skills' = skills /\ versions' = versions
      /\ sourced' = sourced /\ lineage' = lineage /\ audited' = audited
      /\ faults' = faults /\ calls[r].pc = "list"
  BY DEF ListVersions, tables
<1>9. Grows /\ TablesTyped' /\ Versioned' = Versioned
  BY <1>8 DEF Grows, Exists, TablesTyped, IInv, TypeOK, Versioned
<1>10. Store' /\ SkillsBelong' /\ RegisteredOnce'
  BY <1>5, <1>6, <1>8, <1>9, StoreKept, SkillsKept, RegisteredKept
     DEF Settled, Unstored
<1>11. r \notin Versioned
  BY <1>8, VersionedFar DEF Unstored
<1>12. ASSUME NEW p \in calls[r].parents, calls[p].skill = calls[r].skill
       PROVE  Before(calls[p].number, next)
  <2>1. p \in Versioned
    BY DEF IInv, FamilyOrdered
  <2>2. PICK v \in versions : v.id = p
    BY <2>1 DEF Versioned
  <2>3. v.skill = calls[r].skill /\ v.number = calls[p].number
    BY <1>12, <2>2, OwnRow
  <2>4. v.number \in NumbersOf(calls[r].skill) /\ v.number \in Number
    BY <2>3 DEF NumbersOf, VersionsOf, IInv, TypeOK, VersionRow
  <2>5. ~Before(n, v.number)
    BY <1>1, <2>4 DEF IsNewest
  <2>6. QED
    BY <1>2, <2>3, <2>4, <2>5, NextIsNewer DEF next
<1>13. FamilyOrdered'
  <2>1. ASSUME NEW q \in Request, NEW p \in calls'[q].parents
        PROVE  /\ p \in Versioned
               /\ /\ calls'[p].skill = calls'[q].skill
                  /\ calls'[q].pc \in {"put", "skill", "version"} \/ q \in Versioned
                  => Before(calls'[p].number, calls'[q].number)
    <3>1. p \in Versioned
      BY <1>5, <1>7 DEF IInv, FamilyOrdered
    <3>2. p \in Request /\ calls'[p] = calls[p]
      BY <1>7, <1>11, <3>1, VersionedFar
    <3>3. CASE q = r
      BY <1>5, <1>7, <1>12, <3>1, <3>2, <3>3
    <3>4. CASE q # r
      BY <1>7, <3>1, <3>2, <3>4 DEF IInv, FamilyOrdered
    <3>5. QED
      BY <3>3, <3>4
  <2>2. ASSUME NEW pair \in lineage
        PROVE  pair[1] \in calls'[pair[2]].parents /\ pair[2] \in Versioned
    <3>1. /\ pair[2] \in Request /\ pair[2] \in Versioned
          /\ pair[1] \in calls[pair[2]].parents
      BY DEF IInv, TypeOK, FamilyOrdered
    <3>2. QED
      BY <1>5, <1>7, <3>1
  <2>3. QED
    BY <1>8, <1>9, <2>1, <2>2 DEF FamilyOrdered
<1>14. SkillKnown(r)'
  <2>1. SkillKnown(r)
    BY DEF IInv, SkillFirst, SkillKnown
  <2>2. QED
    BY <1>5, <1>7, <1>8, <2>1 DEF SkillKnown, CreatesSkill, Exists, FromVersion
<1>15. Ordered(r)'
  <2>1. Ordered(r)
    BY DEF IInv, InOrder, Ordered
  <2>2. QED
    BY <1>5, <1>7, <1>8, <2>1 DEF Ordered, FromAudit, FromSource, FromVersion
<1>16. QED
  BY <1>6, <1>9, <1>10, <1>13, <1>14, <1>15, Combine

----------------------------------------------------------------------------
(* The steps of a registration and the faults.                             *)

LEMMA GotoBecomes ==
  ASSUME IInv, NEW r \in Request,
         NEW label \in {"skill", "version", "source", "link", "audit", "lineage",
                        "done", "refused", "failed", "lost"},
         Goto(r, label)
  PROVE  \E c \in Call : /\ Becomes(r, c) /\ Same(r, c)
                         /\ c.left = calls[r].left /\ c.pc = label
<1> DEFINE c == [calls[r] EXCEPT !.pc = label]
<1>1. calls[r] \in Call
  BY DEF IInv, TypeOK
<1>2. /\ c \in Call /\ c.pc = label /\ c.left = calls[r].left
      /\ c.kind = calls[r].kind /\ c.skill = calls[r].skill
      /\ c.number = calls[r].number /\ c.slug = calls[r].slug
      /\ c.parents = calls[r].parents
  BY <1>1 DEF Call
<1>3. calls' = [calls EXCEPT ![r] = c]
  BY DEF Goto
<1> HIDE DEF c
<1>4. QED
  BY <1>2, <1>3 DEF Becomes, Same

LEMMA CreatesTheSkill ==
  ASSUME IInv, NEW r \in Request, calls[r].pc = "skill" PROVE CreatesSkill(r)
BY DEF IInv, SkillFirst

LEMMA StepKeeps ==
  ASSUME IInv, NEW r \in Request, Step(r)
  PROVE  IInv'
<1>0. faults \in 0..MaxFaults
  BY DEF IInv, TypeOK
<1>1. CASE RejectPackage(r)
  <2>1. PICK c : /\ Becomes(r, c) /\ Same(r, c)
                 /\ c.left = calls[r].left /\ c.pc = "refused"
    BY <1>1, GotoBecomes DEF RejectPackage
  <2>2. QED
    BY <1>0, <1>1, <2>1, QuietMove DEF RejectPackage
<1>2. CASE Put(r)
  <2>1. CASE PutObject(r) /\ Goto(r, IF CreatesSkill(r) THEN "skill" ELSE "version")
    <3>1. PICK c : /\ Becomes(r, c) /\ Same(r, c) /\ c.left = calls[r].left
                   /\ c.pc = IF CreatesSkill(r) THEN "skill" ELSE "version"
      BY <2>1, GotoBecomes
    <3>2. QED
      BY <1>0, <1>2, <2>1, <3>1, PutMove DEF Put
  <2>2. CASE calls[r].pc = "put" /\ Goto(r, "refused")
               /\ UNCHANGED <<artifacts, tables>>
    <3>1. PICK c : /\ Becomes(r, c) /\ Same(r, c)
                   /\ c.left = calls[r].left /\ c.pc = "refused"
      BY <2>2, GotoBecomes
    <3>2. QED
      BY <1>0, <1>2, <2>2, <3>1, QuietMove DEF Put
  <2>3. QED
    BY <1>2, <2>1, <2>2 DEF Put
<1>3. CASE CreateSkill(r)
  <2>1. CASE InsertSkill(r) /\ Goto(r, "version")
    <3>1. PICK c : /\ Becomes(r, c) /\ Same(r, c)
                   /\ c.left = calls[r].left /\ c.pc = "version"
      BY <2>1, GotoBecomes
    <3>2. CreatesSkill(r)
      BY <2>1, CreatesTheSkill DEF InsertSkill
    <3>3. QED
      BY <1>0, <1>3, <2>1, <3>1, <3>2, SkillMove DEF CreateSkill
  <2>2. CASE calls[r].pc = "skill" /\ Goto(r, "failed")
               /\ UNCHANGED <<artifacts, tables>>
    <3>1. PICK c : /\ Becomes(r, c) /\ Same(r, c)
                   /\ c.left = calls[r].left /\ c.pc = "failed"
      BY <2>2, GotoBecomes
    <3>2. QED
      BY <1>0, <1>3, <2>2, <3>1, QuietMove DEF CreateSkill, Fault
  <2>3. QED
    BY <1>3, <2>1, <2>2 DEF CreateSkill
<1>4. CASE CreateVersion(r)
  <2>1. PICK c : /\ Becomes(r, c) /\ Same(r, c)
                 /\ c.left = calls[r].left /\ c.pc = "source"
    BY <1>4, GotoBecomes DEF CreateVersion
  <2>2. QED
    BY <1>0, <1>4, <2>1, VersionMove DEF CreateVersion
<1>5. CASE CreateSource(r)
  <2>1. PICK c : /\ Becomes(r, c) /\ Same(r, c)
                 /\ c.left = calls[r].left /\ c.pc = "link"
    BY <1>5, GotoBecomes DEF CreateSource
  <2>2. QED
    BY <1>0, <1>5, <2>1, QuietMove DEF CreateSource
<1>6. CASE LinkSource(r)
  <2>1. PICK c : /\ Becomes(r, c) /\ Same(r, c)
                 /\ c.left = calls[r].left /\ c.pc = "audit"
    BY <1>6, GotoBecomes DEF LinkSource
  <2>2. QED
    BY <1>0, <1>6, <2>1, LinkMove DEF LinkSource
<1>7. CASE AuditImported(r)
  <2>1. PICK c : /\ Becomes(r, c) /\ Same(r, c) /\ c.left = calls[r].left
                 /\ c.pc = IF calls[r].left = {} THEN "done" ELSE "lineage"
    BY <1>7, GotoBecomes DEF AuditImported
  <2>2. QED
    BY <1>0, <1>7, <2>1, EventMove DEF AuditImported
<1>8. CASE CreateLineage(r)
  <2>1. PICK p \in calls[r].left :
          /\ InsertLineage(r, p)
          /\ calls' = [calls EXCEPT ![r] = [@ EXCEPT !.left = calls[r].left \ {p},
               !.pc = IF calls[r].left = {p} THEN "derived" ELSE "lineage"]]
    BY <1>8 DEF CreateLineage
  <2> DEFINE c == [calls[r] EXCEPT !.left = calls[r].left \ {p},
                     !.pc = IF calls[r].left = {p} THEN "derived" ELSE "lineage"]
  <2>2. calls[r] \in Call
    BY DEF IInv, TypeOK
  <2>3. /\ c \in Call
        /\ c.pc = (IF calls[r].left = {p} THEN "derived" ELSE "lineage")
        /\ c.left = calls[r].left \ {p}
        /\ c.kind = calls[r].kind /\ c.skill = calls[r].skill
        /\ c.number = calls[r].number /\ c.slug = calls[r].slug
        /\ c.parents = calls[r].parents
    BY <2>2 DEF Call
  <2>4. calls' = [calls EXCEPT ![r] = c]
    BY <2>1
  <2> HIDE DEF c
  <2>5. QED
    BY <1>0, <1>8, <2>1, <2>3, <2>4, LineageMove DEF CreateLineage, Becomes, Same
<1>9. CASE AuditDerived(r)
  <2>1. PICK c : /\ Becomes(r, c) /\ Same(r, c)
                 /\ c.left = calls[r].left /\ c.pc = "done"
    BY <1>9, GotoBecomes DEF AuditDerived
  <2>2. QED
    BY <1>0, <1>9, <2>1, EventMove DEF AuditDerived
<1>10. QED
  BY <1>1, <1>2, <1>3, <1>4, <1>5, <1>6, <1>7, <1>8, <1>9, ListVersionsKeeps DEF Step

LEMMA FaultKeeps ==
  ASSUME IInv, NEW r \in Request, CallFails(r) \/ Crash(r)
  PROVE  IInv'
<1>1. /\ calls[r].pc # "idle" /\ PendingCall(r)
      /\ \E label \in Fault : Goto(r, label)
  BY DEF CallFails, Crash, Fault
<1>2. faults' \in 0..MaxFaults
  BY RegistryAssumption DEF IInv, TypeOK, CallFails, Crash
<1>3. PICK label \in Fault : Goto(r, label)
  BY <1>1
<1>4. PICK c : /\ Becomes(r, c) /\ Same(r, c)
               /\ c.left = calls[r].left /\ c.pc \in Fault
  BY <1>3, GotoBecomes DEF Fault
<1>5. CASE PutObject(r)
  BY <1>2, <1>4, <1>5, PutMove
<1>6. CASE InsertSkill(r)
  BY <1>2, <1>4, <1>6, SkillMove, CreatesTheSkill DEF InsertSkill
<1>7. CASE InsertVersion(r)
  BY <1>2, <1>4, <1>7, VersionMove
<1>8. CASE InsertLink(r)
  BY <1>2, <1>4, <1>8, LinkMove
<1>9. CASE InsertEvent(r)
  BY <1>2, <1>4, <1>9, EventMove
<1>10. CASE \E p \in Request : InsertLineage(r, p)
  BY <1>2, <1>4, <1>10, LineageMove
<1>11. CASE UNCHANGED <<artifacts, tables>>
  BY <1>1, <1>2, <1>4, <1>11, QuietMove
<1>12. QED
  BY <1>1, <1>5, <1>6, <1>7, <1>8, <1>9, <1>10, <1>11 DEF PendingCall

----------------------------------------------------------------------------
(* The invariant and what follows from it.                                 *)

LEMMA InitInv == Init => IInv
<1> SUFFICES ASSUME Init PROVE IInv
  OBVIOUS
<1>1. FirstNumber \in Number
  BY DEF FirstNumber, Number
<1>2. TypeOK
  BY <1>1, RegistryAssumption DEF Init, TypeOK, Call
<1>3. PackagesBelong /\ PathsUnique /\ RowsBacked /\ SkillsBelong /\ RegisteredOnce
  <2>1. /\ artifacts = {} /\ versions = {} /\ \A r \in Request : ~Exists(r)
        /\ \A r \in Request : calls[r].pc = "idle"
    BY DEF Init, Exists
  <2>2. QED
    BY <2>1 DEF PackagesBelong, PathsUnique, RowsBacked, SkillsBelong, RegisteredOnce
<1>4. SkillFirst
  BY DEF Init, SkillFirst, CreatesSkill, FromVersion
<1>5. InOrder
  BY DEF Init, InOrder, FromAudit, FromSource, FromVersion
<1>6. FamilyOrdered
  BY DEF Init, FamilyOrdered
<1>7. QED
  BY <1>2, <1>3, <1>4, <1>5, <1>6 DEF IInv

LEMMA NextInv == IInv /\ [Next]_vars => IInv'
<1> SUFFICES ASSUME IInv, [Next]_vars PROVE IInv'
  OBVIOUS
<1>1. CASE Next
  BY <1>1, NewRequestKeeps, StepKeeps, FaultKeeps DEF Next
<1>2. CASE UNCHANGED vars
  BY <1>2 DEF vars, tables, IInv, TypeOK, PackagesBelong, PathsUnique, RowsBacked,
              SkillsBelong, Exists, RegisteredOnce, SkillFirst, CreatesSkill,
              InOrder, FamilyOrdered, Versioned
<1>3. QED
  BY <1>1, <1>2

\* The invariant holds of every behaviour, whatever races and whatever fails.
THEOREM Invariance == Spec => []IInv
<1>1. QED
  BY InitInv, NextInv, PTL DEF Spec

\* Every variable keeps its type.
THEOREM TypeCorrect == Spec => []TypeOK
<1>1. IInv => TypeOK
  BY DEF IInv
<1>2. QED
  BY <1>1, Invariance, PTL

\* A version is what its artifact says: because an upload never overwrites
\* (artifacts.py:157-162), only the request whose object is at a path gets to
\* insert the row of that path (services.py:87-105).
THEOREM ArtifactsImmutable == Spec => []ArtifactsMatchRows
<1>1. ASSUME IInv PROVE ArtifactsMatchRows
  <2> SUFFICES ASSUME NEW v \in versions
               PROVE  ObjectsAt(v.skill, v.number) =
                        {[skill |-> v.skill, number |-> v.number, package |-> v.id]}
    BY DEF ArtifactsMatchRows
  <2> DEFINE own == [skill |-> v.skill, number |-> v.number, package |-> v.id]
  <2>1. own \in artifacts /\ own.skill = v.skill /\ own.number = v.number
    BY <1>1 DEF IInv, RowsBacked
  <2> HIDE DEF own
  <2>2. \A a \in artifacts : a.skill = v.skill /\ a.number = v.number => a = own
    BY <1>1, <2>1 DEF IInv, PathsUnique
  <2>3. ObjectsAt(v.skill, v.number) = {own}
    BY <2>1, <2>2 DEF ObjectsAt
  <2>4. QED
    BY <2>3 DEF own
<1>2. QED
  BY <1>1, Invariance, PTL

\* The unique constraints of 0001:22 and 0001:28 refuse no row: a request that
\* is about to insert a version owns its path, and a row has an owner too.
THEOREM UploadDecides == Spec => []UniqueNeverRefuses
<1>1. ASSUME IInv PROVE UniqueNeverRefuses
  <2> SUFFICES ASSUME NEW r \in Request, calls[r].pc = "version",
                      NEW v \in versions, v.skill = calls[r].skill,
                      v.number = calls[r].number
               PROVE  FALSE
    BY DEF UniqueNeverRefuses, NumberTaken, VersionsOf
  <2>1. v.id = r
    <3>1. /\ [skill |-> v.skill, number |-> v.number, package |-> v.id] \in artifacts
          /\ [skill |-> v.skill, number |-> v.number, package |-> r] \in artifacts
      BY <1>1 DEF IInv, RowsBacked, PackagesBelong
    <3>2. QED
      BY <1>1, <3>1 DEF IInv, PathsUnique
  <2>2. QED
    BY <1>1, <2>1, OwnRow
<1>2. QED
  BY <1>1, Invariance, PTL

\* A derived version is newer than every parent of its skill: it got its number
\* from a list in which the parent was (workers/main.py:99-107), however many
\* versions others have registered since.
THEOREM ChildrenAreNewer == Spec => []DerivedIsNewer
<1>1. ASSUME IInv PROVE DerivedIsNewer
  <2>1. ASSUME NEW id \in Versioned
        PROVE  /\ id \in Request
               /\ RowOf(id).skill = calls[id].skill
               /\ RowOf(id).number = calls[id].number
    <3>1. \E v \in versions : v.id = id
      BY DEF Versioned
    <3>2. RowOf(id) \in versions /\ RowOf(id).id = id
      BY <3>1 DEF RowOf
    <3>3. QED
      BY <1>1, <3>2, OwnRow
  <2>2. ASSUME NEW pair \in lineage,
               RowOf(pair[1]).skill = RowOf(pair[2]).skill
        PROVE  Before(RowOf(pair[1]).number, RowOf(pair[2]).number)
    <3>1. pair[2] \in Versioned /\ pair[1] \in calls[pair[2]].parents
      BY <1>1 DEF IInv, FamilyOrdered
    <3>2. pair[1] \in Versioned
      BY <1>1, <2>1, <3>1 DEF IInv, FamilyOrdered
    <3>3. calls[pair[1]].skill = calls[pair[2]].skill
      BY <2>1, <2>2, <3>1, <3>2
    <3>4. Before(calls[pair[1]].number, calls[pair[2]].number)
      BY <1>1, <2>1, <3>1, <3>3 DEF IInv, FamilyOrdered
    <3>5. QED
      BY <2>1, <3>1, <3>2, <3>4
  <2>3. QED
    BY <2>2 DEF DerivedIsNewer
<1>2. QED
  BY <1>1, Invariance, PTL

\* A registration that is reported as done is complete (services.py:91-124,
\* workers/main.py:106-111 and 129-137): no step can be reached past a failed one.
THEOREM DoneIsComplete == Spec => []CompleteWhenDone
<1>1. ASSUME IInv PROVE CompleteWhenDone
  <2> SUFFICES ASSUME NEW r \in Request, calls[r].pc = "done"
               PROVE  /\ Exists(calls[r].skill)
                      /\ r \in Versioned \cap sourced
                      /\ calls[r].parents \X {r} \subseteq lineage
                      /\ {r} \X (IF calls[r].parents = {} THEN {"imported"} ELSE Event)
                           \subseteq audited
    BY DEF CompleteWhenDone
  <2>1. SkillKnown(r) /\ Ordered(r)
    BY <1>1 DEF IInv, SkillFirst, SkillKnown, InOrder, Ordered
  <2>2. QED
    BY <2>1 DEF SkillKnown, Ordered, FromAudit, FromSource, FromVersion, Event
<1>2. QED
  BY <1>1, Invariance, PTL

\* A refused request leaves nothing behind (services.py:85-90).
THEOREM RefusalIsClean == Spec => []RefusedLeavesNothing
<1>1. ASSUME IInv PROVE RefusedLeavesNothing
  <2> SUFFICES ASSUME NEW r \in Request, calls[r].pc = "refused"
               PROVE  /\ \A a \in artifacts : a.package # r
                      /\ r \notin Versioned
                      /\ ~Exists(r)
    BY DEF RefusedLeavesNothing
  <2>1. \A a \in artifacts : a.package # r
    BY <1>1 DEF IInv, PackagesBelong, Unstored
  <2>2. r \notin Versioned
    BY <1>1, VersionedFar DEF Unstored
  <2>3. ~Exists(r)
    BY <1>1 DEF IInv, SkillsBelong, Unstored
  <2>4. QED
    BY <2>1, <2>2, <2>3
<1>2. QED
  BY <1>1, Invariance, PTL

----------------------------------------------------------------------------
(* The next number of a skill.                                             *)

LEMMA GotoMoves ==
  ASSUME IInv, NEW r \in Request, NEW label, Goto(r, label)
  PROVE  /\ calls'[r].pc = label /\ calls'[r].kind = calls[r].kind
         /\ \A q \in Request \ {r} : calls'[q] = calls[q]
BY DEF Goto, IInv, TypeOK, Call

\* A statement that may execute touches only what is its request's.
LEMMA StatementMoves ==
  ASSUME IInv, NEW r \in Request, PendingCall(r)
  PROVE  /\ \A q \in Request \ {r} : skills'[q] = skills[q]
         /\ versions \subseteq versions'
         /\ calls[r].pc # "skill" => skills' = skills
         /\ calls[r].pc # "put" => artifacts' = artifacts
<1>1. skills \in [Request -> Slug \cup {NoSlug}]
  BY DEF IInv, TypeOK
<1>2. QED
  BY <1>1 DEF PendingCall, PutObject, InsertSkill, InsertVersion, InsertLink,
     InsertEvent, InsertLineage, tables

\* A request that has stored nothing yet and opens, counts or is refused.
LEMMA EarlyMove ==
  ASSUME IInv, OrphansKnown, NEW r \in Request, calls[r].pc \in Unstored,
         UNCHANGED <<artifacts, tables, faults>>,
         \A q \in Request \ {r} : calls'[q] = calls[q],
         calls'[r].pc # "skill"
  PROVE  OrphansKnown'
<1>1. /\ Versioned' = Versioned
      /\ \A q \in Request : Exists(q)' <=> Exists(q)
  BY DEF tables, Versioned, Exists
<1>2. \A a \in artifacts : a.package \in Request \ {r}
  BY DEF IInv, TypeOK, Artifact, PackagesBelong
<1>3. QED
  BY <1>1, <1>2 DEF OrphansKnown, CreatesSkill

LEMMA RequestOrphans ==
  ASSUME IInv, OrphansKnown, NEW r \in Request, NewRequest(r) \/ ListVersions(r)
  PROVE  OrphansKnown'
<1>1. CASE NewRequest(r)
  <2>1. calls[r] \in Call /\ calls \in [Request -> Call]
    BY DEF IInv, TypeOK
  <2>2. /\ calls[r].pc = "idle"
        /\ \A q \in Request \ {r} : calls'[q] = calls[q]
        /\ UNCHANGED <<artifacts, tables, faults>>
    BY <1>1, <2>1 DEF NewRequest, ImportSkill, Fuse, ImportVersion, Personalize,
                      Open
  <2>3. calls'[r].pc # "skill"
    <3>1. ASSUME NEW slug, ImportSkill(r, slug) PROVE calls'[r].pc = "put"
      BY <2>1, <3>1 DEF ImportSkill, Open, Call
    <3>2. ASSUME NEW slug, NEW parents, Fuse(r, slug, parents)
          PROVE  calls'[r].pc = "put"
      BY <2>1, <3>2 DEF Fuse, Open, Call
    <3>3. ASSUME NEW s, NEW number, ImportVersion(r, s, number)
          PROVE  calls'[r].pc \in {"put", "refused"}
      BY <2>1, <3>3 DEF ImportVersion, Open, Call
    <3>4. ASSUME NEW baseline, Personalize(r, baseline)
          PROVE  calls'[r].pc = "list"
      BY <2>1, <3>4 DEF Personalize, Open, Call
    <3>5. QED
      BY <1>1, <3>1, <3>2, <3>3, <3>4 DEF NewRequest
  <2>4. QED
    BY <2>2, <2>3, EarlyMove DEF Unstored
<1>2. CASE ListVersions(r)
  <2>1. calls[r] \in Call /\ calls \in [Request -> Call]
    BY DEF IInv, TypeOK
  <2>2. PICK n : calls' = [calls EXCEPT ![r] = [@ EXCEPT !.pc = "put",
                                                   !.number = NextMinor(n)]]
    BY <1>2 DEF ListVersions
  <2>3. calls'[r].pc = "put" /\ \A q \in Request \ {r} : calls'[q] = calls[q]
    BY <2>1, <2>2 DEF Call
  <2>4. QED
    BY <1>2, <2>3, EarlyMove DEF ListVersions, Unstored
<1>3. QED
  BY <1>1, <1>2

\* A failed call, executed or not: from now on nothing is claimed of objects.
LEMMA FaultOrphans ==
  ASSUME IInv, OrphansKnown, NEW r \in Request, CallFails(r) \/ Crash(r)
  PROVE  OrphansKnown'
<1>1. faults' # 0
  BY RegistryAssumption DEF CallFails, Crash, IInv, TypeOK
<1>2. calls'[r].pc # "skill" /\ \A q \in Request \ {r} : calls'[q] = calls[q]
  BY GotoMoves DEF CallFails, Crash
<1>3. \A q \in Request \ {r} : skills'[q] = skills[q]
  BY StatementMoves DEF CallFails, Crash
<1>4. QED
  BY <1>1, <1>2, <1>3 DEF OrphansKnown, Exists

\* A request that has stored its package: what it leaves if it goes on.
LEMMA LaterMove ==
  ASSUME IInv, OrphansKnown, NEW r \in Request, faults' = faults,
         artifacts' = artifacts, Versioned \subseteq Versioned',
         \A q \in Request \ {r} : calls'[q] = calls[q] /\ skills'[q] = skills[q],
         calls'[r].pc # "skill",
         \/ r \in Versioned'
         \/ calls'[r].pc = "version"
         \/ CreatesSkill(r)' /\ calls'[r].pc = "failed" /\ ~Exists(r)'
  PROVE  OrphansKnown'
<1>1. \A q \in Request \ {r} : /\ Exists(q)' <=> Exists(q)
                               /\ CreatesSkill(q)' <=> CreatesSkill(q)
  BY DEF Exists, CreatesSkill
<1>2. \A q \in Request : calls'[q].pc = "skill" => ~Exists(q)'
  BY <1>1 DEF OrphansKnown
<1>3. ASSUME faults' = 0, NEW a \in artifacts
      PROVE  \/ a.package \in Versioned'
             \/ calls'[a.package].pc \in {"skill", "version"}
             \/ /\ CreatesSkill(a.package)'
                /\ calls'[a.package].pc = "failed" /\ ~Exists(a.package)'
  <2>1. a.package \in Request
    BY DEF IInv, TypeOK, Artifact
  <2>2. QED
    BY <1>1, <1>3, <2>1 DEF OrphansKnown
<1>4. QED
  BY <1>2, <1>3 DEF OrphansKnown

LEMMA StepOrphans ==
  ASSUME IInv, OrphansKnown, NEW r \in Request, Step(r)
  PROVE  OrphansKnown'
<1>1. CASE ListVersions(r)
  BY <1>1, RequestOrphans
<1>2. ASSUME calls[r].pc = "put", Goto(r, "refused"),
             UNCHANGED <<artifacts, tables, faults>>
      PROVE  OrphansKnown'
  BY <1>2, GotoMoves, EarlyMove DEF Unstored
<1>3. CASE PutObject(r) /\ UNCHANGED faults
             /\ Goto(r, IF CreatesSkill(r) THEN "skill" ELSE "version")
  <2>1. /\ calls[r].pc = "put" /\ Versioned' = Versioned /\ skills' = skills
        /\ \A a \in artifacts' : a \in artifacts \/ a.package = r
    BY <1>3 DEF PutObject, tables, Versioned
  <2>2. /\ calls'[r].pc \in {"skill", "version"}
        /\ \A q \in Request \ {r} : calls'[q] = calls[q]
    BY <1>3, GotoMoves
  <2>3. ~Exists(r)
    BY <2>1 DEF IInv, SkillsBelong, Unstored
  <2>4. \A a \in artifacts : a.package \in Request \ {r}
    BY <2>1 DEF IInv, TypeOK, Artifact, PackagesBelong, Unstored
  <2>5. QED
    BY <1>3, <2>1, <2>2, <2>3, <2>4 DEF OrphansKnown, Exists, CreatesSkill
<1>4. CASE InsertSkill(r) /\ Goto(r, "version") /\ UNCHANGED faults
  <2>1. /\ artifacts' = artifacts /\ Versioned' = Versioned
        /\ \A q \in Request \ {r} : skills'[q] = skills[q]
    BY <1>4, StatementMoves DEF InsertSkill, PendingCall, Versioned
  <2>2. QED
    BY <1>4, <2>1, GotoMoves, LaterMove
<1>5. CASE calls[r].pc = "skill" /\ Goto(r, "failed")
             /\ UNCHANGED <<artifacts, tables, faults>>
  <2>1. Versioned' = Versioned /\ skills' = skills
    BY <1>5 DEF tables, Versioned
  <2>2. ~Exists(r)' /\ CreatesSkill(r)
    BY <1>5, <2>1, CreatesTheSkill DEF OrphansKnown, Exists
  <2>3. QED
    BY <1>5, <2>1, <2>2, GotoMoves, LaterMove DEF CreatesSkill
<1>6. CASE CreateVersion(r)
  <2>1. /\ artifacts' = artifacts /\ skills' = skills /\ faults' = faults
        /\ versions' = versions \cup
             {[skill |-> calls[r].skill, number |-> calls[r].number, id |-> r]}
    BY <1>6 DEF CreateVersion, InsertVersion
  <2>2. Versioned \subseteq Versioned' /\ r \in Versioned'
    <3> DEFINE row == [skill |-> calls[r].skill, number |-> calls[r].number,
                       id |-> r]
    <3>1. row.id = r
      OBVIOUS
    <3>2. row \in versions' /\ versions \subseteq versions'
      BY <2>1
    <3> HIDE DEF row
    <3>3. QED
      BY <3>1, <3>2 DEF Versioned
  <2>3. QED
    BY <1>6, <2>1, <2>2, GotoMoves, LaterMove DEF CreateVersion
<1>7. CASE CreateSource(r) \/ LinkSource(r) \/ AuditImported(r) \/ AuditDerived(r)
  <2>1. /\ calls[r].pc \in FromSource
        /\ artifacts' = artifacts /\ skills' = skills /\ versions' = versions
        /\ faults' = faults
        /\ \E label \in {"link", "audit", "done", "lineage"} : Goto(r, label)
    BY <1>7 DEF CreateSource, LinkSource, InsertLink, AuditImported, InsertEvent,
       AuditDerived, tables, FromSource, FromVersion
  <2>2. r \in Versioned' /\ Versioned' = Versioned
    BY <2>1 DEF IInv, InOrder, Versioned
  <2>3. PICK label \in {"link", "audit", "done", "lineage"} : Goto(r, label)
    BY <2>1
  <2>4. calls'[r].pc # "skill" /\ \A q \in Request \ {r} : calls'[q] = calls[q]
    BY <2>3, GotoMoves
  <2>5. QED
    BY <2>1, <2>2, <2>4, LaterMove
<1>8. CASE CreateLineage(r)
  <2>1. PICK p \in calls[r].left :
          /\ InsertLineage(r, p)
          /\ calls' = [calls EXCEPT ![r] = [@ EXCEPT !.left = calls[r].left \ {p},
               !.pc = IF calls[r].left = {p} THEN "derived" ELSE "lineage"]]
    BY <1>8 DEF CreateLineage
  <2>2. calls[r] \in Call /\ calls \in [Request -> Call]
    BY DEF IInv, TypeOK
  <2>3. calls'[r].pc # "skill" /\ \A q \in Request \ {r} : calls'[q] = calls[q]
    BY <2>1, <2>2 DEF Call
  <2>4. /\ artifacts' = artifacts /\ skills' = skills /\ versions' = versions
        /\ faults' = faults /\ calls[r].pc \in FromSource
    BY <1>8, <2>1 DEF InsertLineage, CreateLineage, FromSource, FromVersion
  <2>5. r \in Versioned' /\ Versioned' = Versioned
    BY <2>4 DEF IInv, InOrder, Versioned
  <2>6. QED
    BY <2>3, <2>4, <2>5, LaterMove
<1>9. QED
  BY <1>1, <1>2, <1>3, <1>4, <1>5, <1>6, <1>7, <1>8
     DEF Step, RejectPackage, Put, CreateSkill

LEMMA NextOrphans ==
  ASSUME IInv, OrphansKnown, [Next]_vars
  PROVE  OrphansKnown'
<1>1. CASE UNCHANGED vars
  BY <1>1 DEF vars, tables, OrphansKnown, Versioned, Exists, CreatesSkill
<1>2. QED
  BY <1>1, RequestOrphans, StepOrphans, FaultOrphans DEF Next

\* What is left in the bucket is known throughout, whatever races or is refused.
LEMMA AlwaysKnown == Spec => []OrphansKnown
<1>1. Init => OrphansKnown
  BY DEF Init, OrphansKnown
<1>2. IInv /\ OrphansKnown /\ [Next]_vars => OrphansKnown'
  BY NextOrphans
<1>3. QED
  BY <1>1, <1>2, Invariance, PTL DEF Spec

\* Nothing newer than the newest number of a skill is a number of it.
LEMMA NextIsFree ==
  ASSUME NEW n \in Number, NEW numbers, IsNewest(n, numbers)
  PROVE  NextMinor(n) \notin numbers
<1>1. /\ n[1] \in Nat /\ n[2] \in Nat /\ n[3] \in Nat
      /\ NextMinor(n)[1] = n[1] /\ NextMinor(n)[2] = n[2] + 1
  BY DEF Number, NextMinor
<1>2. Before(n, NextMinor(n))
  BY <1>1 DEF Before
<1>3. QED
  BY <1>2 DEF IsNewest

\* A skill whose registrations are over can be personalized: until the first
\* fault no object is left where its next version goes (services.py:90,
\* workers/main.py:99-107).
THEOREM NextVersionFree == Spec => []OnlyFaultsTakeNumbers
<1>1. ASSUME IInv, OrphansKnown PROVE OnlyFaultsTakeNumbers
  <2> SUFFICES ASSUME faults = 0, NEW s \in Request, ~Busy(s),
                      NEW n \in NumbersOf(s), IsNewest(n, NumbersOf(s)),
                      NEW a \in artifacts, a.skill = s, a.number = NextMinor(n)
               PROVE  FALSE
    BY DEF OnlyFaultsTakeNumbers, NextNumberFree, PathTaken
  <2>1. PICK r \in Request : r = a.package
    BY <1>1 DEF IInv, TypeOK, Artifact
  <2>2. calls[r].skill = s /\ calls[r].number = NextMinor(n)
    BY <1>1, <2>1 DEF IInv, PackagesBelong
  <2>3. PICK w \in versions : w.skill = s /\ w.number = n
    BY DEF NumbersOf, VersionsOf
  <2>4. n \in Number /\ Exists(s)
    BY <1>1, <2>3 DEF IInv, TypeOK, VersionRow, RegisteredOnce
  <2>5. CASE r \in Versioned
    <3>1. PICK v \in versions : v.id = r
      BY <2>5 DEF Versioned
    <3>2. v.skill = s /\ v.number = NextMinor(n)
      BY <1>1, <2>2, <3>1, OwnRow
    <3>3. NextMinor(n) \in NumbersOf(s)
      BY <3>2 DEF NumbersOf, VersionsOf
    <3>4. QED
      BY <2>4, <3>3, NextIsFree
  <2>6. CASE calls[r].pc \in {"skill", "version"}
    BY <2>2, <2>6 DEF Busy, Ended
  <2>7. CASE CreatesSkill(r) /\ calls[r].pc = "failed" /\ ~Exists(r)
    <3>1. calls[r].skill = r
      BY <1>1, <2>7 DEF IInv, SkillFirst
    <3>2. QED
      BY <2>2, <2>4, <2>7, <3>1
  <2>8. QED
    BY <1>1, <2>1, <2>5, <2>6, <2>7 DEF OrphansKnown
<1>2. QED
  BY <1>1, AlwaysKnown, Invariance, PTL

----------------------------------------------------------------------------
(* The registry implements SkillFamily.                                    *)

Row(v) == [id |-> v.id, skill |-> v.skill, number |-> v.number,
           packages |-> {v.id}]

Rows == {Row(v) : v \in versions}
Reported == {<<r, calls[r].parents>> : r \in {q \in Request : calls[q].pc = "done"}}

\* The numbers of SkillFamily are ordered as Python orders tuples.
LEMMA OrdersAgree ==
  ASSUME NEW m \in Number, NEW n \in Number, Before(m, n)
  PROVE  Family!Older(m, n)
<1>1. /\ m[1] \in Nat /\ m[2] \in Nat /\ m[3] \in Nat
      /\ n[1] \in Nat /\ n[2] \in Nat /\ n[3] \in Nat
  BY DEF Number
<1>2. ASSUME NEW i \in 1..3, m[i] < n[i], \A k \in 1..3 : k < i => m[k] = n[k]
      PROVE  Family!Older(m, n)
  BY <1>2 DEF Family!Older
<1>3. CASE m[1] < n[1]
  <2>1. \A k \in 1..3 : ~(k < 1)
    OBVIOUS
  <2>2. QED
    BY <1>2, <1>3, <2>1
<1>4. CASE m[1] = n[1] /\ m[2] < n[2]
  <2>1. \A k \in 1..3 : k < 2 => k = 1
    OBVIOUS
  <2>2. QED
    BY <1>2, <1>4, <2>1
<1>5. CASE m[1] = n[1] /\ m[2] = n[2] /\ m[3] < n[3]
  <2>1. \A k \in 1..3 : k < 3 => k = 1 \/ k = 2
    OBVIOUS
  <2>2. QED
    BY <1>2, <1>5, <2>1
<1>6. QED
  BY <1>3, <1>4, <1>5 DEF Before

\* A path with one object holds the package of the row that describes it.
LEMMA OnePackage ==
  ASSUME NEW objects, NEW v,
         [skill |-> v.skill, number |-> v.number, package |-> v.id] \in objects,
         \A a, b \in objects : a.skill = b.skill /\ a.number = b.number => a = b
  PROVE  {a.package : a \in {b \in objects : b.skill = v.skill /\ b.number = v.number}}
           = {v.id}
<1> DEFINE own == [skill |-> v.skill, number |-> v.number, package |-> v.id]
<1>1. /\ own \in objects /\ own.skill = v.skill /\ own.number = v.number
      /\ own.package = v.id
  OBVIOUS
<1> HIDE DEF own
<1>2. {b \in objects : b.skill = v.skill /\ b.number = v.number} = {own}
  BY <1>1
<1>3. QED
  BY <1>1, <1>2

LEMMA FamilyIsRows ==
  ASSUME PathsUnique, RowsBacked
  PROVE  {Published(v) : v \in versions} = Rows
<1>1. \A v \in versions : Published(v) = Row(v)
  <2>1. SUFFICES ASSUME NEW v \in versions
                 PROVE  {a.package : a \in ObjectsAt(v.skill, v.number)} = {v.id}
    BY DEF Published, Row
  <2>2. QED
    BY OnePackage DEF PathsUnique, RowsBacked, ObjectsAt
<1>2. QED
  BY <1>1 DEF Rows

LEMMA FamilyIsRowsNext ==
  ASSUME PathsUnique', RowsBacked'
  PROVE  {Published(v) : v \in versions}' = Rows'
<1>1. \A v \in versions' : Published(v)' = Row(v)
  <2>1. SUFFICES ASSUME NEW v \in versions'
                 PROVE  {a.package : a \in ObjectsAt(v.skill, v.number)'} = {v.id}
    BY DEF Published, Row
  <2>2. QED
    BY OnePackage DEF PathsUnique, RowsBacked, ObjectsAt
<1>2. QED
  BY <1>1 DEF Rows

LEMMA RowsPublished ==
  ASSUME IInv, NEW id
  PROVE  Family!Published(id) <=> id \in Versioned
<1>1. {Published(v) : v \in versions} = Rows
  BY FamilyIsRows DEF IInv
<1>2. Family!Published(id) <=> \E w \in Rows : w.id = id
  BY <1>1 DEF Family!Published
<1>3. \A v \in versions : Row(v).id = v.id
  BY DEF Row
<1>4. QED
  BY <1>2, <1>3 DEF Rows, Versioned

\* A step moves one request, and the reports are of those that are done.
LEMMA ReportsStay ==
  ASSUME NEW r \in Request, \A q \in Request \ {r} : calls'[q] = calls[q],
         calls[r].pc # "done", calls'[r].pc # "done"
  PROVE  Reported' = Reported
<1>1. {q \in Request : calls'[q].pc = "done"} = {q \in Request : calls[q].pc = "done"}
  OBVIOUS
<1>2. \A q \in Request : calls[q].pc = "done" => calls'[q].parents = calls[q].parents
  OBVIOUS
<1>3. QED
  BY <1>1, <1>2 DEF Reported

LEMMA ReportsGrow ==
  ASSUME NEW r \in Request, \A q \in Request \ {r} : calls'[q] = calls[q],
         calls[r].pc # "done", calls'[r].pc = "done",
         calls'[r].parents = calls[r].parents
  PROVE  Reported' = Reported \cup {<<r, calls[r].parents>>}
<1>1. {q \in Request : calls'[q].pc = "done"}
        = {q \in Request : calls[q].pc = "done"} \cup {r}
  OBVIOUS
<1>2. \A q \in Request : calls[q].pc = "done" => calls'[q].parents = calls[q].parents
  OBVIOUS
<1>3. QED
  BY <1>1, <1>2 DEF Reported

----------------------------------------------------------------------------
(* What a statement is to the family.                                      *)

FamilyStep == [Family!Next]_(Family!familyVars)

LEMMA FamilyStutters ==
  ASSUME IInv, IInv', UNCHANGED <<skills, versions, lineage>>, Reported' = Reported
  PROVE  FamilyStep
<1>1. /\ {Published(v) : v \in versions} = Rows
      /\ {Published(v) : v \in versions}' = Rows'
  BY FamilyIsRows, FamilyIsRowsNext DEF IInv
<1>2. Rows' = Rows
  BY DEF Rows
<1>3. QED
  BY <1>1, <1>2 DEF FamilyStep, Family!familyVars, Reported

LEMMA FamilyFounds ==
  ASSUME IInv, IInv', OrphansKnown, NEW r \in Request, InsertSkill(r),
         Reported' = Reported
  PROVE  FamilyStep
<1>1. /\ {Published(v) : v \in versions} = Rows
      /\ {Published(v) : v \in versions}' = Rows'
  BY FamilyIsRows, FamilyIsRowsNext DEF IInv
<1>2. /\ calls[r].pc = "skill" /\ Rows' = Rows /\ lineage' = lineage
  BY DEF InsertSkill, Rows
<1>3. skills[r] = NoSlug
  BY <1>2 DEF OrphansKnown, Exists
<1>4. PICK slug \in Slug : slug = calls[r].slug
  BY <1>2 DEF IInv, SkillFirst
<1>5. /\ \A t \in Request : skills[t] # slug
      /\ skills' = [skills EXCEPT ![r] = slug]
  BY <1>4 DEF InsertSkill, SlugTaken
<1>6. Family!Found(r, slug)
  BY <1>1, <1>2, <1>3, <1>5 DEF Family!Found, Reported
<1>7. QED
  BY <1>6 DEF FamilyStep, Family!Next

LEMMA FamilyPublishes ==
  ASSUME IInv, IInv', NEW r \in Request, InsertVersion(r), Reported' = Reported
  PROVE  FamilyStep
<1>1. /\ {Published(v) : v \in versions} = Rows
      /\ {Published(v) : v \in versions}' = Rows'
  BY FamilyIsRows, FamilyIsRowsNext DEF IInv
<1>2. PICK s \in Request : s = calls[r].skill
  BY DEF IInv, TypeOK, Call
<1>3. PICK number \in Number : number = calls[r].number
  BY DEF IInv, TypeOK, Call
<1> DEFINE new == [skill |-> s, number |-> number, id |-> r]
<1>4. /\ calls[r].pc = "version" /\ skills' = skills /\ lineage' = lineage
      /\ \A v \in versions : v.skill = s => v.number # number
      /\ versions' = versions \cup {new}
  BY <1>2, <1>3 DEF InsertVersion, NumberTaken, VersionsOf
<1>5. skills[s] # NoSlug
  BY <1>2, <1>4 DEF IInv, SkillFirst, FromVersion, Exists
<1>6. ~Family!Published(r)
  BY <1>4, RowsPublished, VersionedFar
<1>7. /\ Row(new).id = r /\ Row(new).skill = s /\ Row(new).number = number
      /\ Row(new).packages = {r}
  BY DEF Row
<1> HIDE DEF new
<1>8. Rows' = Rows \cup {Row(new)}
  BY <1>4 DEF Rows
<1>9. \A w \in Rows : w.skill = s => w.number # number
  BY <1>4 DEF Rows, Row
<1>10. Family!Publish(Row(new))
  BY <1>1, <1>4, <1>5, <1>6, <1>7, <1>8, <1>9 DEF Family!Publish, Reported
<1>11. Row(new) \in {Published(v) : v \in versions}'
  BY <1>1, <1>8
<1>12. QED
  BY <1>10, <1>11 DEF FamilyStep, Family!Next

LEMMA FamilyDescends ==
  ASSUME IInv, IInv', NEW r \in Request, NEW p \in calls[r].left,
         InsertLineage(r, p), Reported' = Reported
  PROVE  FamilyStep
<1>1. /\ {Published(v) : v \in versions} = Rows
      /\ {Published(v) : v \in versions}' = Rows'
  BY FamilyIsRows, FamilyIsRowsNext DEF IInv
<1>2. /\ calls[r].pc = "lineage" /\ skills' = skills /\ Rows' = Rows
      /\ lineage' = lineage \cup {<<p, r>>}
  BY DEF InsertLineage, Rows
<1>3. p \in calls[r].parents /\ r \in Versioned
  BY <1>2 DEF IInv, InOrder, FromSource, FromVersion
<1>4. p \in Request /\ p \in Versioned
  BY <1>3, VersionedFar DEF IInv, FamilyOrdered
<1>5. PICK v \in versions : v.id = p
  BY <1>4 DEF Versioned
<1>6. PICK w \in versions : w.id = r
  BY <1>3 DEF Versioned
<1>7. v.skill = w.skill => Family!Older(v.number, w.number)
  <2>1. /\ v.skill = calls[p].skill /\ v.number = calls[p].number
        /\ w.skill = calls[r].skill /\ w.number = calls[r].number
    BY <1>5, <1>6, OwnRow
  <2>2. v.skill = w.skill => Before(v.number, w.number)
    BY <1>3, <2>1 DEF IInv, FamilyOrdered
  <2>3. v.number \in Number /\ w.number \in Number
    BY DEF IInv, TypeOK, VersionRow
  <2>4. QED
    BY <2>2, <2>3, OrdersAgree
<1>8. /\ Row(v) \in Rows /\ Row(v).id = p
      /\ Row(v).skill = v.skill /\ Row(v).number = v.number
      /\ Row(w) \in Rows /\ Row(w).id = r
      /\ Row(w).skill = w.skill /\ Row(w).number = w.number
  BY <1>5, <1>6 DEF Rows, Row
<1>9. Row(v).skill = Row(w).skill => Family!Older(Row(v).number, Row(w).number)
  BY <1>7, <1>8
<1>10. Family!Descend(p, r)
  BY <1>1, <1>2, <1>8, <1>9 DEF Family!Descend, Reported
<1>11. QED
  BY <1>4, <1>10 DEF FamilyStep, Family!Next

LEMMA FamilyReports ==
  ASSUME IInv, IInv', NEW r \in Request, calls'[r].pc = "done",
         calls[r].pc # "done", calls'[r].parents = calls[r].parents,
         \A q \in Request \ {r} : calls'[q] = calls[q],
         UNCHANGED <<skills, versions, lineage>>
  PROVE  FamilyStep
<1>1. /\ {Published(v) : v \in versions} = Rows
      /\ {Published(v) : v \in versions}' = Rows'
      /\ Rows' = Rows
  BY FamilyIsRows, FamilyIsRowsNext DEF IInv, Rows
<1>2. PICK parents \in SUBSET Request : parents = calls[r].parents
  BY DEF IInv, TypeOK, Call
<1>3. Reported' = Reported \cup {<<r, parents>>}
  BY <1>2, ReportsGrow
<1>4. /\ r \in Versioned' /\ (calls'[r].parents \ calls'[r].left) \X {r} \subseteq lineage'
      /\ calls'[r].left = {}
  BY DEF IInv, InOrder, FromSource, FromVersion
<1>5. r \in Versioned /\ parents \X {r} \subseteq lineage
  BY <1>2, <1>4 DEF Versioned
<1>6. Family!Published(r)
  BY <1>5, RowsPublished
<1>7. Family!Report(r, parents)
  BY <1>1, <1>3, <1>5, <1>6 DEF Family!Report, Reported
<1>8. QED
  BY <1>7 DEF FamilyStep, Family!Next

----------------------------------------------------------------------------
(* Every step.                                                             *)

LEMMA NewRequestOnFamily ==
  ASSUME IInv, IInv', NEW r \in Request, NewRequest(r) \/ ListVersions(r)
  PROVE  FamilyStep
<1>1. calls[r] \in Call /\ calls \in [Request -> Call]
  BY DEF IInv, TypeOK
<1>2. /\ calls[r].pc \in {"idle", "list"} /\ UNCHANGED tables
      /\ \A q \in Request \ {r} : calls'[q] = calls[q]
  BY <1>1 DEF NewRequest, ImportSkill, Fuse, ImportVersion, Personalize, Open,
              ListVersions
<1>3. calls'[r].pc # "done"
  <2>1. ASSUME NEW slug, ImportSkill(r, slug) PROVE calls'[r].pc = "put"
    BY <1>1, <2>1 DEF ImportSkill, Open, Call
  <2>2. ASSUME NEW slug, NEW parents, Fuse(r, slug, parents)
        PROVE  calls'[r].pc = "put"
    BY <1>1, <2>2 DEF Fuse, Open, Call
  <2>3. ASSUME NEW s, NEW number, ImportVersion(r, s, number)
        PROVE  calls'[r].pc \in {"put", "refused"}
    BY <1>1, <2>3 DEF ImportVersion, Open, Call
  <2>4. ASSUME NEW baseline, Personalize(r, baseline)
        PROVE  calls'[r].pc = "list"
    BY <1>1, <2>4 DEF Personalize, Open, Call
  <2>5. ASSUME ListVersions(r) PROVE calls'[r].pc = "put"
    <3>1. PICK n : calls' = [calls EXCEPT ![r] = [@ EXCEPT !.pc = "put",
                                                   !.number = NextMinor(n)]]
      BY <2>5 DEF ListVersions
    <3>2. QED
      BY <1>1, <3>1 DEF Call
  <2>6. QED
    BY <2>1, <2>2, <2>3, <2>4, <2>5 DEF NewRequest
<1>4. QED
  BY <1>2, <1>3, ReportsStay, FamilyStutters DEF tables

\* A statement that executes, whatever becomes of its request, unless that is
\* then done.
LEMMA StatementOnFamily ==
  ASSUME IInv, IInv', OrphansKnown, NEW r \in Request, PendingCall(r),
         calls[r].pc # "done", calls'[r].pc # "done",
         \A q \in Request \ {r} : calls'[q] = calls[q]
  PROVE  FamilyStep
<1>1. Reported' = Reported
  BY ReportsStay
<1>2. CASE InsertSkill(r)
  BY <1>1, <1>2, FamilyFounds
<1>3. CASE InsertVersion(r)
  BY <1>1, <1>3, FamilyPublishes
<1>4. CASE \E p \in Request : InsertLineage(r, p)
  BY <1>1, <1>4, FamilyDescends DEF InsertLineage
<1>5. CASE UNCHANGED <<skills, versions, lineage>>
  BY <1>1, <1>5, FamilyStutters
<1>6. QED
  BY <1>2, <1>3, <1>4, <1>5 DEF PendingCall, PutObject, InsertLink, InsertEvent, tables

LEMMA StepOnFamily ==
  ASSUME IInv, IInv', OrphansKnown, NEW r \in Request, Step(r)
  PROVE  FamilyStep
<1>1. CASE ListVersions(r)
  BY <1>1, NewRequestOnFamily
<1>2. ASSUME NEW label, Goto(r, label), label # "done", PendingCall(r),
             calls[r].pc # "done"
      PROVE  FamilyStep
  BY <1>2, GotoMoves, StatementOnFamily
<1>3. CASE RejectPackage(r) \/ Put(r) \/ CreateSkill(r) \/ CreateVersion(r)
             \/ CreateSource(r) \/ LinkSource(r)
  <2>1. /\ PendingCall(r) /\ calls[r].pc # "done"
        /\ \E label : label # "done" /\ Goto(r, label)
    BY <1>3 DEF RejectPackage, Put, PutObject, CreateSkill, InsertSkill,
       CreateVersion, InsertVersion, CreateSource, LinkSource, InsertLink, PendingCall
  <2>2. QED
    BY <1>2, <2>1
<1>4. CASE AuditImported(r) \/ AuditDerived(r)
  <2>1. /\ InsertEvent(r) /\ calls[r].pc # "done"
        /\ \E label : Goto(r, label)
    BY <1>4 DEF AuditImported, AuditDerived
  <2>2. PICK label : Goto(r, label)
    BY <2>1
  <2>3. calls'[r].parents = calls[r].parents
    BY <2>2 DEF Goto, IInv, TypeOK, Call
  <2>4. CASE label = "done"
    BY <2>1, <2>2, <2>3, <2>4, GotoMoves, FamilyReports DEF InsertEvent
  <2>5. QED
    BY <1>2, <2>1, <2>2, <2>4 DEF PendingCall
<1>5. CASE CreateLineage(r)
  <2>1. PICK p \in calls[r].left :
          /\ InsertLineage(r, p)
          /\ calls' = [calls EXCEPT ![r] = [@ EXCEPT !.left = calls[r].left \ {p},
               !.pc = IF calls[r].left = {p} THEN "derived" ELSE "lineage"]]
    BY <1>5 DEF CreateLineage
  <2>2. calls[r] \in Call /\ calls \in [Request -> Call]
    BY DEF IInv, TypeOK
  <2>3. calls'[r].pc # "done" /\ \A q \in Request \ {r} : calls'[q] = calls[q]
    BY <2>1, <2>2 DEF Call
  <2>4. calls[r].pc # "done"
    BY <2>1 DEF InsertLineage
  <2>5. QED
    BY <2>1, <2>3, <2>4, ReportsStay, FamilyDescends
<1>6. QED
  BY <1>1, <1>3, <1>4, <1>5 DEF Step

LEMMA NextOnFamily ==
  ASSUME IInv, IInv', OrphansKnown, [Next]_vars
  PROVE  FamilyStep
<1>1. ASSUME NEW r \in Request, CallFails(r) \/ Crash(r)
      PROVE  FamilyStep
  <2>1. /\ PendingCall(r) /\ calls[r].pc # "done"
        /\ \E label \in Fault : Goto(r, label)
    BY <1>1 DEF CallFails, Crash, Ended, Fault
  <2>2. PICK label \in Fault : Goto(r, label)
    BY <2>1
  <2>3. calls'[r].pc # "done" /\ \A q \in Request \ {r} : calls'[q] = calls[q]
    BY <2>2, GotoMoves DEF Fault
  <2>4. QED
    BY <2>1, <2>3, StatementOnFamily
<1>2. CASE UNCHANGED vars
  <2>1. Reported' = Reported
    BY <1>2 DEF vars, Reported
  <2>2. QED
    BY <1>2, <2>1, FamilyStutters DEF vars, tables
<1>3. QED
  BY <1>1, <1>2, NewRequestOnFamily, StepOnFamily DEF Next

LEMMA InitOnFamily == Init => Family!Init
<1> SUFFICES ASSUME Init PROVE Family!Init
  OBVIOUS
<1>1. /\ {Published(v) : v \in versions} = {} /\ lineage = {}
      /\ {q \in Request : calls[q].pc = "done"} = {}
      /\ skills = [s \in Request |-> NoSlug]
  BY DEF Init
<1>2. QED
  BY <1>1 DEF Family!Init

\* What registrations do to bucket and tables, whatever races, fails or dies, is
\* what SkillFamily allows, for any number of them: no version, package, number,
\* slug or descent that was published is ever changed (services.py:87-124).
THEOREM FamilyImplemented == Spec => ImplementsFamily
<1>1. IInv /\ IInv' /\ OrphansKnown /\ [Next]_vars
        => [Family!Next]_(Family!familyVars)
  BY NextOnFamily DEF FamilyStep
<1>2. QED
  BY InitOnFamily, <1>1, AlwaysKnown, Invariance, PTL
     DEF Spec, ImplementsFamily, Family!Spec
=============================================================================
