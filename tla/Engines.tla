------------------------------- MODULE Engines -------------------------------
(***************************************************************************)
(* Authoring engines: what an attempt at a job does between its claim and  *)
(* the registration of its package (workers/main.py, adapters/*.py).       *)
(*                                                                         *)
(* An attempt has a workspace of its own, where the versions it works from *)
(* are extracted, the package of the engine is staged, an external program *)
(* runs and leaves a package, and its output is logged.  The program may   *)
(* run longer than allowed, leave processes behind, with its output or     *)
(* without, or outlive the worker that started it, while the job is taken  *)
(* again.                                                                  *)
(*                                                                         *)
(* This is about the attempts at one job: jobs share nothing but the       *)
(* engines in place.  How an attempt is claimed and recorded is in         *)
(* JobQueue, how its package is registered in Registry.                    *)
(***************************************************************************)
EXTENDS Naturals

CONSTANTS
  Jobs,         \* the jobs there may be
  Version,      \* rows of skill_versions
  MaxAttempts,  \* bound: attempts at the job
  MaxStops,     \* bound: workers that are stopped or die
  MaxChanges    \* bound: engines installed or removed meanwhile

Type == {"distill_open_world", "distill_repo", "personalize", "fuse"}
External == {"arex", "skillalchemy", "skillcreator"}
Engine == External \cup {"fixture", "unsupported"}
Attempt == 1..MaxAttempts

\* sources are the versions a job works from.
ASSUME EnginesAssumption ==
  /\ Jobs \subseteq [type : Type, engine : Engine, sources : SUBSET Version]
  /\ MaxAttempts \in Nat /\ MaxStops \in Nat /\ MaxChanges \in Nat

VARIABLES
  job,        \* the job
  attempts,   \* its attempt_count
  attempt,    \* what the worker of each attempt is doing
  spaces,     \* the workspaces, by attempt-<n> directory
  processes,  \* the external program of each attempt
  installed,  \* the engines whose program and package are in place
  archives,   \* the package each attempt archived, and how it came about
  stops, changes

vars == <<job, attempts, attempt, spaces, processes, installed, archives, stops,
          changes>>

\* mode is a setting of the worker.
AttemptState ==
  [pc : {"none", "prepare", "check", "run", "wait", "drain", "failing",
         "cancelling", "archived", "failed", "interrupted", "gone"},
   mode : {"fixture", "live"}, adapter : Engine, dir : Attempt,
   launched : BOOLEAN]
\* held: what the program left behind holds its output; stray: what it left
\* behind has closed it.
Process == [state : {"none", "live", "held"}, stray : BOOLEAN,
            code : {"unknown", "zero", "other"}]
Space == [made : BOOLEAN, inputs : SUBSET Version, staged : SUBSET Engine,
          skill : SUBSET Attempt, logs : SUBSET Attempt]
Archive == [by : SUBSET Attempt, engine : Engine, inputs : SUBSET Version]
NoArchive == [by |-> {}, engine |-> "fixture", inputs |-> {}]

TypeOK ==
  /\ job \in Jobs
  /\ attempts \in 0..MaxAttempts
  /\ attempt \in [Attempt -> AttemptState]
  /\ spaces \in [Attempt -> Space]
  /\ processes \in [Attempt -> Process]
  /\ installed \subseteq External
  /\ archives \in [Attempt -> Archive]
  /\ stops \in 0..MaxStops /\ changes \in 0..MaxChanges

Init ==
  /\ job \in Jobs
  /\ attempts = 0
  /\ attempt = [a \in Attempt |->
       [pc |-> "none", mode |-> "live", adapter |-> "fixture", dir |-> a,
        launched |-> FALSE]]
  /\ spaces = [p \in Attempt |->
       [made |-> FALSE, inputs |-> {}, staged |-> {}, skill |-> {}, logs |-> {}]]
  /\ processes = [a \in Attempt |->
       [state |-> "none", stray |-> FALSE, code |-> "unknown"]]
  /\ installed \in {External, {}}
  /\ archives = [a \in Attempt |-> NoArchive]
  /\ stops = 0 /\ changes = 0

----------------------------------------------------------------------------
At(a, label) == attempt[a].pc = label
Goto(a, label) == attempt' = [attempt EXCEPT ![a].pc = label]
SpaceOf(a) == spaces[attempt[a].dir]
InSpace(a, space) == spaces' = [spaces EXCEPT ![attempt[a].dir] = space]

\* An adapter for an unsupported engine is refused like one not available.
AdapterFor(engine, mode) ==
  IF engine = "fixture" \/ mode = "fixture" THEN "fixture" ELSE engine

\* What the run of an adapter asks of a job: a repository for DisCo, a brief
\* for SkillAlchemy unless it revises or fuses, a baseline for Skill Creator.
Accepts(engine, type) ==
  \/ engine = "fixture"
  \/ engine = "arex" /\ type = "distill_repo"
  \/ engine = "skillalchemy" /\ type # "distill_repo"
  \/ engine = "skillcreator" /\ type = "personalize"

NeedsPackage(engine) == engine \in {"skillalchemy", "skillcreator"}

\* The job is taken until an attempt has reported that it failed, or that the
\* package it archived is registered; an attempt whose lease ran out may still
\* be going on.
Takeable ==
  /\ attempts < MaxAttempts
  /\ \A n \in 1..attempts : attempt[n].pc \notin {"failed", "interrupted"}

Open(a, dir, mode) ==
  /\ Takeable /\ a = attempts + 1
  /\ attempts' = a
  /\ spaces' = [spaces EXCEPT ![dir].made = TRUE]
  /\ attempt' = [attempt EXCEPT ![a] =
       [@ EXCEPT !.pc = "prepare", !.mode = mode, !.dir = dir,
                 !.adapter = AdapterFor(job.engine, mode)]]
  /\ UNCHANGED <<job, processes, installed, archives, stops, changes>>

\* Mutant: one workspace for the job, used again by its next attempt.
OpenWorkspaceAgain(a) ==
  \E mode \in {"fixture", "live"} : Open(a, 1, mode)

\* The directory is new.
OpenWorkspace(a) ==
  \E mode \in {"fixture", "live"} : ~spaces[a].made /\ Open(a, a, mode)

Extracted(a) == SpaceOf(a).inputs = job.sources

\* One source after the other is downloaded and extracted.
ExtractSource(a) ==
  /\ At(a, "prepare")
  /\ \E v \in job.sources \ SpaceOf(a).inputs :
       InSpace(a, [SpaceOf(a) EXCEPT !.inputs = @ \cup {v}])
  /\ UNCHANGED <<job, attempts, attempt, processes, installed, archives, stops, changes>>

\* The context names every source; a distillation has none.
WriteContext(a) ==
  /\ At(a, "prepare") /\ Extracted(a)
  /\ Goto(a, "check")
  /\ UNCHANGED <<job, attempts, spaces, processes, installed, archives, stops, changes>>

\* A source is gone, is no archive, or is no Skill.
SourceMissing(a) ==
  /\ At(a, "prepare") /\ ~Extracted(a)
  /\ Goto(a, "failing")
  /\ UNCHANGED <<job, attempts, spaces, processes, installed, archives, stops, changes>>

Available(engine) == engine = "fixture" \/ engine \in installed

\* Mutant: without its engine, a job is done by the fixture.
CheckHealthOrFallBack(a) ==
  /\ At(a, "check")
  /\ attempt' = [attempt EXCEPT ![a] =
       [@ EXCEPT !.pc = "run",
                 !.adapter = IF Available(@) THEN @ ELSE "fixture"]]
  /\ UNCHANGED <<job, attempts, spaces, processes, installed, archives, stops, changes>>

CheckHealth(a) ==
  /\ At(a, "check")
  /\ Goto(a, IF Available(attempt[a].adapter) THEN "run" ELSE "failing")
  /\ UNCHANGED <<job, attempts, spaces, processes, installed, archives, stops, changes>>

\* archive_directory packs what is in output/skill now.
Packed(a) ==
  archives' = [archives EXCEPT ![a] =
    [by |-> spaces'[attempt[a].dir].skill, engine |-> attempt[a].adapter,
     inputs |-> SpaceOf(a).inputs]]

\* The fixture makes its package and its logs at once; output/skill is new.
RunFixture(a) ==
  /\ At(a, "run") /\ attempt[a].adapter = "fixture" /\ SpaceOf(a).skill = {}
  /\ InSpace(a, [SpaceOf(a) EXCEPT !.skill = @ \cup {a}, !.logs = @ \cup {a}])
  /\ Packed(a)
  /\ Goto(a, "archived")
  /\ UNCHANGED <<job, attempts, processes, installed, stops, changes>>

\* The package of the engine is staged before the program is started.
Launch(a) ==
  LET engine == attempt[a].adapter
  IN  /\ At(a, "run") /\ engine \in installed
      /\ Accepts(engine, job.type)
      /\ InSpace(a, [SpaceOf(a) EXCEPT !.staged =
           @ \cup (IF NeedsPackage(engine) THEN {engine} ELSE {})])
      /\ processes' = [processes EXCEPT ![a] =
           [state |-> "live", stray |-> FALSE, code |-> "unknown"]]
      /\ attempt' = [attempt EXCEPT ![a] = [@ EXCEPT !.pc = "wait", !.launched = TRUE]]
      /\ UNCHANGED <<job, attempts, installed, archives, stops, changes>>

\* The engine is no longer in place, or the job is not for it.
LaunchFails(a) ==
  /\ At(a, "run") /\ attempt[a].adapter \in External
  /\ \/ attempt[a].adapter \notin installed
     \/ ~Accepts(attempt[a].adapter, job.type)
  /\ Goto(a, "failing")
  /\ UNCHANGED <<job, attempts, spaces, processes, installed, archives, stops, changes>>

----------------------------------------------------------------------------
(* The program.                                                            *)

\* It and what it started write in its own workspace.
EngineWrites(a) ==
  /\ processes[a].state # "none" \/ processes[a].stray
  /\ InSpace(a, [SpaceOf(a) EXCEPT !.skill = @ \cup {a}])
  /\ UNCHANGED <<job, attempts, attempt, processes, installed, archives, stops, changes>>

\* What a program that ends with one of codes may leave behind.
Ends(codes) ==
  [state : {"none", "held"}, stray : BOOLEAN, code : codes]

EngineExits(a) ==
  /\ processes[a].state = "live"
  /\ \E process \in Ends({"zero", "other"}) :
       processes' = [processes EXCEPT ![a] = process]
  /\ UNCHANGED <<job, attempts, attempt, spaces, installed, archives, stops, changes>>

\* What held the output ends, or closes it and goes on.
Release(a) ==
  /\ processes[a].state = "held"
  /\ \E stray \in {processes[a].stray, TRUE} :
       processes' = [processes EXCEPT ![a] =
         [state |-> "none", stray |-> stray, code |-> processes[a].code]]
  /\ UNCHANGED <<job, attempts, attempt, spaces, installed, archives, stops, changes>>

StrayEnds(a) ==
  /\ processes[a].stray
  /\ processes' = [processes EXCEPT ![a].stray = FALSE]
  /\ UNCHANGED <<job, attempts, attempt, spaces, installed, archives, stops, changes>>

----------------------------------------------------------------------------
(* The worker, once the program runs.                                      *)

Killed(a) ==
  IF processes[a].state = "live" THEN Ends({"other"}) ELSE {processes[a]}

\* Mutant: the program is not killed.
TimesOutUnkilled(a) ==
  /\ At(a, "wait") /\ processes[a].state # "none"
  /\ Goto(a, "drain")
  /\ UNCHANGED <<job, attempts, spaces, processes, installed, archives, stops, changes>>

\* Mutant: nobody waits for what the program left behind.
TimesOutUnwaited(a) ==
  /\ At(a, "wait") /\ processes[a].state # "none"
  /\ \E process \in Killed(a) : processes' = [processes EXCEPT ![a] = process]
  /\ Goto(a, "failing")
  /\ UNCHANGED <<job, attempts, spaces, installed, archives, stops, changes>>

\* Also when the program has exited and its output is held.
TimesOut(a) ==
  /\ At(a, "wait") /\ processes[a].state # "none"
  /\ \E process \in Killed(a) : processes' = [processes EXCEPT ![a] = process]
  /\ Goto(a, "drain")
  /\ UNCHANGED <<job, attempts, spaces, installed, archives, stops, changes>>

\* communicate() has returned: the logs are written in any case.
Logged(a) == [SpaceOf(a) EXCEPT !.logs = @ \cup {a}]

Overdue(a) ==
  /\ At(a, "drain") /\ processes[a].state = "none"
  /\ InSpace(a, Logged(a))
  /\ Goto(a, "failing")
  /\ UNCHANGED <<job, attempts, processes, installed, archives, stops, changes>>

Complete(a) ==
  /\ processes[a].state = "none" /\ processes[a].code = "zero"
  /\ SpaceOf(a).skill # {}

Collect(a) ==
  /\ At(a, "wait") /\ Complete(a)
  /\ InSpace(a, Logged(a))
  /\ Packed(a)
  /\ Goto(a, "archived")
  /\ UNCHANGED <<job, attempts, processes, installed, stops, changes>>

\* An exit code, no SKILL.md, or a package that is refused.
Discard(a) ==
  /\ At(a, "wait") /\ processes[a].state = "none"
  /\ InSpace(a, Logged(a))
  /\ Goto(a, "failing")
  /\ UNCHANGED <<job, attempts, processes, installed, archives, stops, changes>>

ReportFailed(a) ==
  /\ At(a, "failing")
  /\ Goto(a, "failed")
  /\ UNCHANGED <<job, attempts, spaces, processes, installed, archives, stops, changes>>

\* A worker stops; its program may be ended with it or live on.
Leave(a, label) ==
  /\ stops < MaxStops /\ stops' = stops + 1
  /\ Goto(a, label)
  /\ \/ UNCHANGED processes
     \/ \E process \in Killed(a) : processes' = [processes EXCEPT ![a] = process]
  /\ UNCHANGED <<job, attempts, spaces, installed, archives, changes>>

\* The operator stops it in the try block: CancelledError at what it awaits.
Stop(a) ==
  /\ attempt[a].pc \in {"prepare", "check", "run", "wait", "drain"}
  /\ Leave(a, "cancelling")

\* The handler reports; the program is not waited for and nothing is logged.
RecordInterrupted(a) ==
  /\ At(a, "cancelling")
  /\ Goto(a, "interrupted")
  /\ UNCHANGED <<job, attempts, spaces, processes, installed, archives, stops, changes>>

\* It dies, or is stopped while it reports.
Crash(a) ==
  /\ attempt[a].pc \notin {"none", "archived", "failed", "interrupted", "gone"}
  /\ Leave(a, "gone")

\* An operator installs or removes an engine.
Change(engine) ==
  /\ changes < MaxChanges /\ changes' = changes + 1
  /\ installed' = IF engine \in installed THEN installed \ {engine}
                  ELSE installed \cup {engine}
  /\ UNCHANGED <<job, attempts, attempt, spaces, processes, archives, stops>>

----------------------------------------------------------------------------
\* Collect and Discard are the two ends of one wait.
Step(a) ==
  \/ ExtractSource(a) \/ WriteContext(a) \/ CheckHealth(a) \/ RunFixture(a)
  \/ Launch(a) \/ LaunchFails(a) \/ TimesOut(a) \/ Overdue(a)
  \/ Collect(a) \/ Discard(a) \/ ReportFailed(a) \/ RecordInterrupted(a)

ProgramStep(a) ==
  EngineWrites(a) \/ EngineExits(a) \/ Release(a) \/ StrayEnds(a)

Next ==
  \/ \E a \in Attempt :
       \/ OpenWorkspace(a) \/ Step(a) \/ SourceMissing(a) \/ ProgramStep(a)
       \/ Stop(a) \/ Crash(a)
  \/ \E engine \in External : Change(engine)

Spec == Init /\ [][Next]_vars

FairSpec == Spec /\ \A a \in Attempt : WF_vars(Step(a))

----------------------------------------------------------------------------
(* Properties.                                                             *)

\* What an attempt tells of itself: a package to register, a failure, or that
\* it was interrupted.
Reported == {"archived", "failed", "interrupted"}

\* The package of an attempt is the work of that attempt alone, whatever
\* earlier attempts left running, by a program that ended well, from every
\* version its lineage will name (workers/main.py:40-57, 134-135).
OwnWorkOnly ==
  \A a \in Attempt : At(a, "archived") =>
    /\ archives[a].by = {a}
    /\ archives[a].inputs = job.sources
    /\ attempt[a].launched => processes[a].code = "zero"

\* Engines fail closed: an attempt in live mode archives what the engine its
\* job names has made, with its package staged, or nothing (README.md:113-121).
NeverSubstituted ==
  \A a \in Attempt : At(a, "archived") =>
    LET engine == archives[a].engine
    IN  /\ engine # job.engine => attempt[a].mode = "fixture"
        /\ engine = "fixture" <=> ~attempt[a].launched
        /\ NeedsPackage(engine) => engine \in SpaceOf(a).staged

\* A worker that is stopped reports at once, its program alive or not; any other
\* report, of a failure or of a package, comes after the end of the program and
\* of all that held its output, which is in its logs (adapters/subprocess.py:
\* 31-41, workers/main.py:79-86).
LogsBeforeReport ==
  \A a \in Attempt : attempt[a].pc \in {"archived", "failed"} =>
    /\ processes[a].state = "none"
    /\ attempt[a].launched => SpaceOf(a).logs = {a}

\* Every attempt reports, unless its worker dies or something its program left
\* behind holds the output (subprocess.py:31-38).
EveryAttemptReports ==
  \A a \in Attempt :
    At(a, "check") ~> \/ attempt[a].pc \in Reported \cup {"gone"}
                     \/ processes[a].state = "held"

----------------------------------------------------------------------------
(* The inductive invariant, attempt by attempt.                            *)

\* A workspace belongs to its attempt, whose program writes nowhere else.
SpaceIsOwn(a) ==
  attempt[a].dir = a /\ spaces[a].skill \subseteq {a} /\ spaces[a].logs \subseteq {a}

\* A program runs between its launch and the end of its attempt.
ProgramInTurn(a) ==
  /\ a > attempts => At(a, "none")
  /\ attempt[a].launched =>
       attempt[a].pc \in {"wait", "drain", "failing", "cancelling", "gone"} \cup Reported
  /\ attempt[a].pc \in {"wait", "drain"} => attempt[a].launched
  /\ processes[a].state # "none" =>
       attempt[a].pc \in {"wait", "drain", "cancelling", "interrupted", "gone"}
  /\ processes[a].state # "none" \/ processes[a].stray => attempt[a].launched

\* What an attempt works from, and by which engine.
Prepared(a) ==
  /\ attempt[a].pc \in {"check", "run", "wait", "archived"} =>
       spaces[a].inputs = job.sources
  /\ ~At(a, "none") =>
       attempt[a].adapter = AdapterFor(job.engine, attempt[a].mode)
  /\ attempt[a].launched =>
       /\ attempt[a].adapter # "fixture"
       /\ NeedsPackage(attempt[a].adapter) => attempt[a].adapter \in spaces[a].staged

\* What is known of an attempt that is over.
Concluded(a) ==
  /\ attempt[a].pc \in {"failing", "archived", "failed"} /\ attempt[a].launched =>
       spaces[a].logs = {a}
  /\ At(a, "archived") =>
       /\ archives[a] = [by |-> {a}, engine |-> attempt[a].adapter,
                         inputs |-> job.sources]
       /\ IF attempt[a].launched THEN processes[a].code = "zero"
                                 ELSE attempt[a].adapter = "fixture"

AttemptSound(a) ==
  SpaceIsOwn(a) /\ ProgramInTurn(a) /\ Prepared(a) /\ Concluded(a)

IInv == TypeOK /\ \A a \in Attempt : AttemptSound(a)

=============================================================================
