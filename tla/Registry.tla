------------------------------ MODULE Registry ------------------------------
(***************************************************************************)
(* The registration of packages: LifecycleService.import_skill and         *)
(* import_version (apps/api/app/services.py), called by the API and, for   *)
(* personalized and fused candidates, by a worker (workers/main.py), over  *)
(* the artifact bucket and the tables skills, skill_versions, sources,     *)
(* skill_version_sources, skill_lineage and audit_events.                  *)
(*                                                                         *)
(* A registration is named after the request that makes it: uuid4 and the  *)
(* defaults of the tables give every request ids of its own, so request r  *)
(* stands for the skill it creates, its version and its package as well.   *)
(***************************************************************************)
EXTENDS Naturals, FiniteSets

CONSTANTS
  Request,     \* registrations, each made once; a retry is another one
  Slug,        \* slugs of skills
  NoSlug,      \* the slug of a skill that does not exist
  Numbers,     \* the version numbers an operator asks for
  MaxFaults    \* bound: faults in one behaviour

\* A version is a text: three numbers, written plainly or with leading zeros.
\* The row and the path hold the text, only max(parsed) looks at the numbers.
Number == Nat \X Nat \X Nat \X {"plain", "padded"}
FirstNumber == <<0, 1, 0, "plain">>

ASSUME RegistryAssumption ==
  /\ Numbers \subseteq Number
  /\ NoSlug \notin Slug
  /\ MaxFaults \in Nat

VARIABLES
  artifacts,   \* the objects of the bucket: their path and their package
  skills,      \* the slug of each skill
  versions,    \* the rows of skill_versions
  sourced,     \* versions with a source linked to them
  lineage,     \* <<parent, child>>
  audited,     \* versions with their audit events
  calls,       \* what each request is doing
  faults       \* faults so far

tables == <<skills, versions, sourced, lineage, audited>>
vars == <<artifacts, tables, calls, faults>>

Artifact == [skill : Request, number : Number, package : Request]
VersionRow == [skill : Request, number : Number, id : Request]
Event == {"imported", "derived"}

Call ==
  [pc      : {"idle", "list", "put", "skill", "version", "source", "link",
              "audit", "lineage", "derived",
              "done", "refused", "failed", "lost"},
   kind    : {"skill", "version", "personal", "fuse"},
   skill   : Request,
   number  : Number,
   slug    : Slug \cup {NoSlug},
   parents : SUBSET Request,
   left    : SUBSET Request]     \* parents without their lineage row

TypeOK ==
  /\ artifacts \subseteq Artifact
  /\ skills \in [Request -> Slug \cup {NoSlug}]
  /\ versions \subseteq VersionRow
  /\ sourced \subseteq Request
  /\ lineage \subseteq Request \X Request
  /\ audited \subseteq Request \X Event
  /\ calls \in [Request -> Call]
  /\ faults \in 0..MaxFaults

Init ==
  /\ artifacts = {}
  /\ skills = [s \in Request |-> NoSlug]
  /\ versions = {}
  /\ sourced = {}
  /\ lineage = {}
  /\ audited = {}
  /\ calls = [r \in Request |->
       [pc |-> "idle", kind |-> "skill", skill |-> r, number |-> FirstNumber,
        slug |-> NoSlug, parents |-> {}, left |-> {}]]
  /\ faults = 0

----------------------------------------------------------------------------
(* The requests.                                                           *)

Exists(s) == skills[s] # NoSlug
VersionsOf(s) == {v \in versions : v.skill = s}
Versioned == {v.id : v \in versions}
RowOf(id) == CHOOSE v \in versions : v.id = id

Open(r, call) ==
  /\ calls[r].pc = "idle"
  /\ calls' = [calls EXCEPT ![r] = call]
  /\ UNCHANGED <<artifacts, tables, faults>>

\* POST /skills/import, and the jobs that distill a skill: a skill of its own.
ImportSkill(r, slug) ==
  Open(r, [calls[r] EXCEPT !.pc = "put", !.kind = "skill", !.slug = slug])

\* _register_fusion: a new skill out of two or more versions.
Fuse(r, slug, parents) ==
  /\ Cardinality(parents) >= 2
  /\ parents \subseteq Versioned
  /\ Open(r, [calls[r] EXCEPT !.pc = "put", !.kind = "fuse", !.slug = slug,
                               !.parents = parents, !.left = parents])

\* POST /skills/{id}/versions/import: a number the operator chose.
ImportVersion(r, s, number) ==
  /\ Open(r, [calls[r] EXCEPT !.pc = IF Exists(s) THEN "put" ELSE "refused",
                               !.kind = "version", !.skill = s,
                               !.number = number])

\* _register_personalized_candidate: a successor of a version.
Personalize(r, baseline) ==
  /\ baseline \in Versioned
  /\ Open(r, [calls[r] EXCEPT !.pc = "list", !.kind = "personal",
                               !.skill = RowOf(baseline).skill,
                               !.parents = {baseline}, !.left = {baseline}])

----------------------------------------------------------------------------
(* Version numbers.                                                        *)

Before(m, n) ==
  \/ m[1] < n[1]
  \/ m[1] = n[1] /\ m[2] < n[2]
  \/ m[1] = n[1] /\ m[2] = n[2] /\ m[3] < n[3]

NumbersOf(s) == {v.number : v \in VersionsOf(s)}

\* Mutant: the largest minor, whatever its major.
IsNewestMinor(n, numbers) ==
  n \in numbers /\ \A m \in numbers \ {n} : m[2] <= n[2]

\* n reads max(parsed), which several texts may.
IsNewest(n, numbers) == n \in numbers /\ \A m \in numbers : ~Before(n, m)

NextMinor(n) == <<n[1], n[2] + 1, 0, "plain">>

----------------------------------------------------------------------------
(* The statements of a registration.                                       *)

Goto(r, label) == calls' = [calls EXCEPT ![r].pc = label]
CreatesSkill(r) == calls[r].kind \in {"skill", "fuse"}

PathTaken(s, number) ==
  \E a \in artifacts : a.skill = s /\ a.number = number

\* Mutant: x-upsert is true.
UpsertObject(r) ==
  /\ calls[r].pc = "put"
  /\ artifacts' =
       {a \in artifacts : a.skill # calls[r].skill \/ a.number # calls[r].number}
         \cup {[skill |-> calls[r].skill, number |-> calls[r].number,
                package |-> r]}
  /\ UNCHANGED tables

\* put: x-upsert is false.
PutObject(r) ==
  /\ calls[r].pc = "put"
  /\ ~PathTaken(calls[r].skill, calls[r].number)
  /\ artifacts' = artifacts \cup
       {[skill |-> calls[r].skill, number |-> calls[r].number, package |-> r]}
  /\ UNCHANGED tables

SlugTaken(slug) == \E s \in Request : skills[s] = slug

InsertSkill(r) ==
  /\ calls[r].pc = "skill"
  /\ ~SlugTaken(calls[r].slug)
  /\ skills' = [skills EXCEPT ![r] = calls[r].slug]
  /\ UNCHANGED <<artifacts, versions, sourced, lineage, audited>>

NumberTaken(s, number) == \E v \in VersionsOf(s) : v.number = number

InsertVersion(r) ==
  /\ calls[r].pc = "version"
  /\ ~NumberTaken(calls[r].skill, calls[r].number)
  /\ versions' = versions \cup
       {[skill |-> calls[r].skill, number |-> calls[r].number, id |-> r]}
  /\ UNCHANGED <<artifacts, skills, sourced, lineage, audited>>

InsertLink(r) ==
  /\ calls[r].pc = "link"
  /\ sourced' = sourced \cup {r}
  /\ UNCHANGED <<artifacts, skills, versions, lineage, audited>>

InsertLineage(r, p) ==
  /\ calls[r].pc = "lineage"
  /\ p \in calls[r].left
  /\ lineage' = lineage \cup {<<p, r>>}
  /\ UNCHANGED <<artifacts, skills, versions, sourced, audited>>

InsertEvent(r) ==
  /\ calls[r].pc \in {"audit", "derived"}
  /\ audited' = audited \cup
       {<<r, IF calls[r].pc = "audit" THEN "imported" ELSE "derived">>}
  /\ UNCHANGED <<artifacts, skills, versions, sourced, lineage>>

----------------------------------------------------------------------------
(* The steps of a registration.                                            *)

\* list_versions, then the number the candidate will have.
ListVersions(r) ==
  /\ calls[r].pc = "list"
  /\ \E n \in NumbersOf(calls[r].skill) :
       /\ IsNewest(n, NumbersOf(calls[r].skill))
       /\ calls' = [calls EXCEPT ![r] = [@ EXCEPT !.pc = "put",
                                                   !.number = NextMinor(n)]]
  /\ UNCHANGED <<artifacts, tables, faults>>

\* Mutant: the package is stored first and validated then.
RejectStored(r) ==
  /\ calls[r].pc = "version"
  /\ Goto(r, "refused")
  /\ UNCHANGED <<artifacts, tables, faults>>

\* The normalizer refuses the package, before anything is stored.
RejectPackage(r) ==
  /\ calls[r].pc = "put"
  /\ Goto(r, "refused")
  /\ UNCHANGED <<artifacts, tables, faults>>

Put(r) ==
  /\ \/ PutObject(r) /\ Goto(r, IF CreatesSkill(r) THEN "skill" ELSE "version")
     \/ /\ calls[r].pc = "put"
        /\ PathTaken(calls[r].skill, calls[r].number)
        /\ Goto(r, "refused")
        /\ UNCHANGED <<artifacts, tables>>
  /\ UNCHANGED faults

\* From here on an exception becomes "registry registration failed".
CreateSkill(r) ==
  /\ \/ InsertSkill(r) /\ Goto(r, "version")
     \/ /\ calls[r].pc = "skill"
        /\ SlugTaken(calls[r].slug)
        /\ Goto(r, "failed")
        /\ UNCHANGED <<artifacts, tables>>
  /\ UNCHANGED faults

\* The unique constraint does not refuse the number: UniqueNeverRefuses.
CreateVersion(r) == InsertVersion(r) /\ Goto(r, "source") /\ UNCHANGED faults

\* A source row of its own, which only its link makes visible.
CreateSource(r) ==
  /\ calls[r].pc = "source"
  /\ Goto(r, "link")
  /\ UNCHANGED <<artifacts, tables, faults>>

LinkSource(r) == InsertLink(r) /\ Goto(r, "audit") /\ UNCHANGED faults

\* create_audit_event("skill.imported") ends import_skill and import_version;
\* a worker that derived the package goes on.
AuditImported(r) ==
  /\ calls[r].pc = "audit"
  /\ InsertEvent(r)
  /\ Goto(r, IF calls[r].left = {} THEN "done" ELSE "lineage")
  /\ UNCHANGED faults

\* Mutant: only the first source is recorded.
CreateFirstLineage(r) ==
  /\ \E p \in calls[r].left :
       /\ InsertLineage(r, p)
       /\ calls' = [calls EXCEPT ![r] = [@ EXCEPT !.left = {}, !.pc = "derived"]]
  /\ UNCHANGED faults

CreateLineage(r) ==
  /\ \E p \in calls[r].left :
       /\ InsertLineage(r, p)
       /\ calls' = [calls EXCEPT ![r] = [@ EXCEPT !.left = calls[r].left \ {p},
            !.pc = IF calls[r].left = {p} THEN "derived" ELSE "lineage"]]
  /\ UNCHANGED faults

\* create_audit_event("skill.personalized" or "skill.fused").
AuditDerived(r) ==
  /\ calls[r].pc = "derived"
  /\ InsertEvent(r)
  /\ Goto(r, "done")
  /\ UNCHANGED faults

Ended == {"done", "refused", "failed", "lost"}
InTry(r) == calls[r].pc \in {"skill", "version", "source", "link", "audit"}

\* What the call now awaited may have done.
PendingCall(r) ==
  \/ PutObject(r) \/ InsertSkill(r) \/ InsertVersion(r) \/ InsertLink(r)
  \/ InsertEvent(r)
  \/ \E p \in Request : InsertLineage(r, p)
  \/ UNCHANGED <<artifacts, tables>>

\* A call fails, executed or not: inside the try block it is reported as a
\* failed registration, elsewhere as an error of the request or the job.
CallFails(r) ==
  /\ faults < MaxFaults
  /\ calls[r].pc \notin {"idle"} \cup Ended
  /\ PendingCall(r)
  /\ Goto(r, IF InTry(r) THEN "failed" ELSE "lost")
  /\ faults' = faults + 1

\* The API or the worker dies.
Crash(r) ==
  /\ faults < MaxFaults
  /\ calls[r].pc \notin {"idle"} \cup Ended
  /\ PendingCall(r)
  /\ Goto(r, "lost")
  /\ faults' = faults + 1

----------------------------------------------------------------------------
NewRequest(r) ==
  \/ \E slug \in Slug : ImportSkill(r, slug)
  \/ \E slug \in Slug, parents \in SUBSET Versioned : Fuse(r, slug, parents)
  \/ \E s \in Request, number \in Numbers : ImportVersion(r, s, number)
  \/ \E baseline \in Versioned : Personalize(r, baseline)

Step(r) ==
  \/ ListVersions(r) \/ RejectPackage(r) \/ Put(r) \/ CreateSkill(r)
  \/ CreateVersion(r) \/ CreateSource(r) \/ LinkSource(r) \/ AuditImported(r)
  \/ CreateLineage(r) \/ AuditDerived(r)

Next == \E r \in Request : NewRequest(r) \/ Step(r) \/ CallFails(r) \/ Crash(r)

Spec == Init /\ [][Next]_vars

----------------------------------------------------------------------------
(* Properties.                                                             *)

ObjectsAt(s, number) == {a \in artifacts : a.skill = s /\ a.number = number}

\* A version is what its artifact says: its path holds one object, the package
\* its hash was computed of, however uploads to one path race and whatever
\* failed before (services.py:87-105, artifacts.py:157-162).
ArtifactsMatchRows ==
  \A v \in versions :
    ObjectsAt(v.skill, v.number) =
      {[skill |-> v.skill, number |-> v.number, package |-> v.id]}

\* The upload decides who gets a number: the unique constraint on skill and
\* number, or on the storage path, never refuses a row (0001:22 and 28).
UniqueNeverRefuses ==
  \A r \in Request : calls[r].pc = "version" =>
    ~NumberTaken(calls[r].skill, calls[r].number)

\* A personalized candidate is newer than the baseline it came from, even if
\* others register versions while the worker counts (workers/main.py:142-146).
DerivedIsNewer ==
  \A pair \in lineage :
    LET parent == RowOf(pair[1])
        child  == RowOf(pair[2])
    IN  parent.skill = child.skill => Before(parent.number, child.number)

\* A registration reported as done is complete: skill, version, source, the
\* lineage of every parent and the audit events ("recording fused_from lineage
\* for every source", README.md:22-23).
CompleteWhenDone ==
  \A r \in Request : calls[r].pc = "done" =>
    /\ Exists(calls[r].skill)
    /\ r \in Versioned \cap sourced
    /\ calls[r].parents \X {r} \subseteq lineage
    /\ {r} \X (IF calls[r].parents = {} THEN {"imported"} ELSE Event)
         \subseteq audited

\* A request that is refused, its path taken or its package invalid, leaves
\* nothing in the bucket or the registry (services.py:85-91).
RefusedLeavesNothing ==
  \A r \in Request : calls[r].pc = "refused" =>
    /\ \A a \in artifacts : a.package # r
    /\ r \notin Versioned
    /\ ~Exists(r)

Busy(s) ==
  \E r \in Request : calls[r].skill = s /\ calls[r].pc \notin {"idle"} \cup Ended

\* A skill can be personalized: the path of its next minor version is free.
\* An object left by a failed registration is not as harmless as services.py:126
\* has it ("remains safely immutable as an orphan").
NextNumberFree ==
  \A s \in Request : ~Busy(s) =>
    \A n \in NumbersOf(s) : IsNewest(n, NumbersOf(s)) => ~PathTaken(s, NextMinor(n))

\* Only a fault takes the next number away: refused and racing registrations
\* leave no object that a later personalization would collide with.
OnlyFaultsTakeNumbers == faults = 0 => NextNumberFree

\* What the registry is to those who read it: SkillFamily.  The package of a
\* version is whatever the bucket holds at its path.
Published(v) ==
  [id |-> v.id, skill |-> v.skill, number |-> v.number,
   packages |-> {a.package : a \in ObjectsAt(v.skill, v.number)}]

Family == INSTANCE SkillFamily WITH
  Id       <- Request,
  slugs    <- skills,
  family   <- {Published(v) : v \in versions},
  descents <- lineage,
  reports  <- {<<r, calls[r].parents>> : r \in {q \in Request : calls[q].pc = "done"}}

\* However registrations race, fail half way or die, what is published stays as
\* it was published: a skill has a slug of its own (0001:8), a number in it one
\* version (0001:22), a version one package, never replaced (artifacts.py:157-162),
\* a child a newer number (workers/main.py:99-107) and a report every parent.
ImplementsFamily == Family!Spec

----------------------------------------------------------------------------
(* The inductive invariant.                                                *)

Unstored == {"idle", "list", "put", "refused"}

\* The object of a request is at the path the request works on; one that is
\* about to be registered is in the bucket.
PackagesBelong ==
  /\ \A a \in artifacts :
       /\ calls[a.package].pc \notin Unstored
       /\ a.skill = calls[a.package].skill /\ a.number = calls[a.package].number
  /\ \A r \in Request : calls[r].pc \in {"skill", "version"} =>
       [skill |-> calls[r].skill, number |-> calls[r].number, package |-> r]
         \in artifacts

\* A path holds one object.
PathsUnique ==
  \A a, b \in artifacts : a.skill = b.skill /\ a.number = b.number => a = b

\* Every version was registered by the owner of the object at its path.
RowsBacked ==
  \A v \in versions :
    [skill |-> v.skill, number |-> v.number, package |-> v.id] \in artifacts

\* A skill is created by a request past its upload.
SkillsBelong == \A r \in Request : Exists(r) => calls[r].pc \notin Unstored

\* A request registers its version once, under a skill that exists.
RegisteredOnce ==
  \A v \in versions : /\ calls[v.id].pc \notin Unstored \cup {"skill", "version"}
                      /\ Exists(v.skill)

FromVersion == {"version", "source", "link", "audit", "lineage", "derived", "done"}
FromSource == FromVersion \ {"version"}
FromAudit == FromSource \ {"source", "link"}

\* The skill comes before the version: read by the request, or created by it.
SkillFirst ==
  \A r \in Request :
    /\ CreatesSkill(r) => /\ calls[r].skill = r
                          /\ calls[r].pc # "idle" => calls[r].slug \in Slug
    /\ calls[r].pc = "skill" => CreatesSkill(r)
    /\ calls[r].pc \in FromVersion \/ (~CreatesSkill(r) /\ calls[r].pc \in {"list", "put"})
         => Exists(calls[r].skill)

\* What each step of a registration leaves for the next.
InOrder ==
  \A r \in Request :
    /\ calls[r].pc = "idle" => /\ calls[r].kind = "skill"
                               /\ calls[r].parents = {}
    /\ calls[r].pc \in FromSource => r \in Versioned
    /\ calls[r].pc \in FromAudit => r \in sourced
    /\ calls[r].pc \in FromAudit \ {"audit"} => <<r, "imported">> \in audited
    /\ (calls[r].parents \ calls[r].left) \X {r} \subseteq lineage
    /\ calls[r].left \subseteq calls[r].parents
    /\ calls[r].pc \in {"derived", "done"} => calls[r].left = {}
    /\ calls[r].pc \notin {"lineage", "derived", "done", "failed", "lost"}
         => calls[r].left = calls[r].parents
    /\ calls[r].pc = "done" /\ calls[r].parents # {} => <<r, "derived">> \in audited

\* The parents of a version are versions, older than it if of its skill.
FamilyOrdered ==
  /\ \A r \in Request : \A p \in calls[r].parents :
       /\ p \in Versioned
       /\ /\ calls[p].skill = calls[r].skill
          /\ calls[r].pc \in {"put", "skill", "version"} \/ r \in Versioned
          => Before(calls[p].number, calls[r].number)
  /\ \A pair \in lineage : /\ pair[1] \in calls[pair[2]].parents
                           /\ pair[2] \in Versioned

IInv ==
  /\ TypeOK
  /\ PackagesBelong
  /\ PathsUnique
  /\ RowsBacked
  /\ SkillsBelong
  /\ RegisteredOnce
  /\ SkillFirst
  /\ InOrder
  /\ FamilyOrdered

\* Until the first fault an object without a version is on its way to one, or
\* was meant for a skill whose slug was taken (services.py:92-94, 0001:8).
OrphansKnown ==
  /\ \A r \in Request : calls[r].pc = "skill" => ~Exists(r)
  /\ faults = 0 => \A a \in artifacts :
       \/ a.package \in Versioned
       \/ calls[a.package].pc \in {"skill", "version"}
       \/ /\ CreatesSkill(a.package)
          /\ calls[a.package].pc = "failed" /\ ~Exists(a.package)

=============================================================================
