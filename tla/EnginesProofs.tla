---------------------------- MODULE EnginesProofs ----------------------------
(***************************************************************************)
(* Theorems about Engines, for any jobs, versions, attempts, stops and     *)
(* changes.  A step of one attempt leaves the others alone (Apart), so the *)
(* invariant is kept attempt by attempt.                                   *)
(***************************************************************************)
EXTENDS Engines, TLAPS

\* Only what belongs to attempt a changes, and no attempt is uncounted.
Apart(a) ==
  /\ job' = job /\ attempts' \in Nat /\ attempts' >= attempts
  /\ \A b \in Attempt \ {a} :
       /\ attempt'[b] = attempt[b] /\ spaces'[b] = spaces[b]
       /\ processes'[b] = processes[b] /\ archives'[b] = archives[b]

LEMMA OthersKept ==
  ASSUME IInv, NEW a \in Attempt, Apart(a), NEW b \in Attempt, b # a
  PROVE  AttemptSound(b)'
<1>1. /\ attempt'[b] = attempt[b] /\ spaces'[b] = spaces[b]
      /\ processes'[b] = processes[b] /\ archives'[b] = archives[b] /\ job' = job
  BY DEF Apart
<1>2. b > attempts' => b > attempts
  BY DEF Apart, IInv, TypeOK, Attempt
<1>3. AttemptSound(b)
  BY DEF IInv
<1>4. SpaceIsOwn(b)' /\ Prepared(b)' /\ Concluded(b)'
  BY <1>1, <1>3 DEF AttemptSound, SpaceIsOwn, Prepared, Concluded, At
<1>5. ProgramInTurn(b)'
  BY <1>1, <1>2, <1>3 DEF AttemptSound, ProgramInTurn, At
<1>6. QED
  BY <1>4, <1>5 DEF AttemptSound

LEMMA ByAttempt ==
  ASSUME IInv, TypeOK', NEW a \in Attempt, Apart(a), AttemptSound(a)'
  PROVE  IInv'
<1>1. ASSUME NEW b \in Attempt PROVE AttemptSound(b)'
  BY OthersKept
<1>2. QED
  BY <1>1 DEF IInv

LEMMA Facts ==
  ASSUME IInv, NEW a \in Attempt
  PROVE  /\ AttemptSound(a) /\ SpaceOf(a) = spaces[a] /\ attempt[a].dir = a
         /\ attempt[a] \in AttemptState /\ spaces[a] \in Space
         /\ processes[a] \in Process /\ archives[a] \in Archive
         /\ attempts \in Nat
<1>1. AttemptSound(a)
  BY DEF IInv
<1>2. attempt[a].dir = a
  BY <1>1 DEF AttemptSound, SpaceIsOwn
<1>3. /\ attempt[a] \in AttemptState /\ spaces[a] \in Space
      /\ processes[a] \in Process /\ archives[a] \in Archive /\ attempts \in Nat
  BY DEF IInv, TypeOK
<1>4. QED
  BY <1>1, <1>2, <1>3 DEF SpaceOf

\* A step of a, after which its records are these.
Moved(a, w, space, process, archive) ==
  /\ w \in AttemptState /\ space \in Space /\ process \in Process /\ archive \in Archive
  /\ attempt' = [attempt EXCEPT ![a] = w]
  /\ spaces' = [spaces EXCEPT ![a] = space]
  /\ processes' = [processes EXCEPT ![a] = process]
  /\ archives' = [archives EXCEPT ![a] = archive]
  /\ job' = job /\ attempts' = attempts /\ installed' = installed
  /\ stops' \in 0..MaxStops /\ changes' = changes

LEMMA Moves ==
  ASSUME IInv, NEW a \in Attempt, NEW w, NEW space, NEW process, NEW archive,
         Moved(a, w, space, process, archive)
  PROVE  /\ TypeOK' /\ Apart(a)
         /\ attempt'[a] = w /\ spaces'[a] = space
         /\ processes'[a] = process /\ archives'[a] = archive
<1>1. /\ attempt' \in [Attempt -> AttemptState] /\ spaces' \in [Attempt -> Space]
      /\ processes' \in [Attempt -> Process] /\ archives' \in [Attempt -> Archive]
  BY DEF IInv, TypeOK, Moved
<1>2. TypeOK'
  BY <1>1 DEF IInv, TypeOK, Moved
<1>3. /\ attempt'[a] = w /\ spaces'[a] = space
      /\ processes'[a] = process /\ archives'[a] = archive
  BY DEF IInv, TypeOK, Moved
<1>4. Apart(a)
  BY DEF IInv, TypeOK, Moved, Apart
<1>5. QED
  BY <1>2, <1>3, <1>4

\* What is not replaced is replaced by itself.
LEMMA Stays ==
  ASSUME IInv, NEW a \in Attempt
  PROVE  /\ spaces = [spaces EXCEPT ![a] = spaces[a]]
         /\ processes = [processes EXCEPT ![a] = processes[a]]
         /\ archives = [archives EXCEPT ![a] = archives[a]]
         /\ attempt = [attempt EXCEPT ![a] = attempt[a]]
BY DEF IInv, TypeOK

\* A step that only takes the worker of a from one place to another.
LEMMA GoesOn ==
  ASSUME IInv, NEW a \in Attempt, NEW label, Goto(a, label),
         label \in {"check", "run", "failing", "failed", "interrupted"},
         UNCHANGED <<job, attempts, spaces, processes, installed, archives, stops,
                     changes>>,
         label \in {"check", "run"} => spaces[a].inputs = job.sources,
         label \in {"check", "run"} => ~attempt[a].launched,
         label \in {"failing", "failed"} /\ attempt[a].launched => At(a, "failing"),
         attempt[a].pc \in {"prepare", "check", "run", "failing"}
           \/ (At(a, "cancelling") /\ label = "interrupted")
  PROVE  IInv'
<1> DEFINE w == [attempt[a] EXCEPT !.pc = label]
<1>1. Moved(a, w, spaces[a], processes[a], archives[a])
  BY Facts, Stays DEF IInv, TypeOK, AttemptState, Goto, Moved
<1>2. /\ w.pc = label /\ w.mode = attempt[a].mode /\ w.adapter = attempt[a].adapter
      /\ w.dir = attempt[a].dir /\ w.launched = attempt[a].launched
  BY Facts DEF AttemptState
<1> HIDE DEF w
<1>3. /\ TypeOK' /\ Apart(a)
      /\ attempt'[a] = w /\ spaces'[a] = spaces[a]
      /\ processes'[a] = processes[a] /\ archives'[a] = archives[a]
  BY <1>1, Moves
<1>4. SpaceIsOwn(a)' /\ ProgramInTurn(a)'
  BY <1>3, <1>2, Facts DEF AttemptSound, SpaceIsOwn, ProgramInTurn, At, Reported
<1>5. Prepared(a)' /\ Concluded(a)'
  BY <1>3, <1>2, Facts DEF AttemptSound, Prepared, Concluded, At, Reported
<1>6. QED
  BY <1>3, <1>4, <1>5, ByAttempt DEF AttemptSound

LEMMA LaunchKeeps ==
  ASSUME IInv, NEW a \in Attempt, Launch(a)
  PROVE  IInv'
<1> DEFINE w == [attempt[a] EXCEPT !.pc = "wait", !.launched = TRUE]
<1> DEFINE needed == IF NeedsPackage(attempt[a].adapter) THEN {attempt[a].adapter} ELSE {}
<1> DEFINE space == [spaces[a] EXCEPT !.staged = @ \cup needed]
<1> DEFINE process == [state |-> "live", stray |-> FALSE, code |-> "unknown"]
<1>1. needed \subseteq Engine
  BY Facts DEF AttemptState
<1>2. \A engine : NeedsPackage(engine) /\ engine = attempt[a].adapter => engine \in needed
  OBVIOUS
<1> HIDE DEF needed
<1>3. /\ w \in AttemptState
      /\ w.pc = "wait" /\ w.mode = attempt[a].mode
      /\ w.adapter = attempt[a].adapter /\ w.dir = attempt[a].dir /\ w.launched = TRUE
  <2>1. attempt[a] \in AttemptState
    BY Facts
  <2>2. w \in AttemptState
    BY <2>1 DEF AttemptState
  <2>3. QED
    BY <2>1, <2>2 DEF AttemptState
<1>4. /\ space \in Space
      /\ space.inputs = spaces[a].inputs /\ space.staged = spaces[a].staged \cup needed
      /\ space.skill = spaces[a].skill /\ space.logs = spaces[a].logs
  BY <1>1, Facts DEF Space
<1>5. process \in Process /\ process.state = "live"
  BY DEF Process
<1>6. /\ attempt' = [attempt EXCEPT ![a] = w]
      /\ spaces' = [spaces EXCEPT ![a] = space]
      /\ processes' = [processes EXCEPT ![a] = process]
  BY Facts DEF Launch, Goto, InSpace, IInv, TypeOK, needed
<1> HIDE DEF w, space, process
<1>7. Moved(a, w, space, process, archives[a])
  BY <1>3, <1>4, <1>5, <1>6, Facts, Stays DEF Launch, Moved, IInv, TypeOK
<1>8. /\ TypeOK' /\ Apart(a) /\ job' = job /\ attempts' = attempts
      /\ attempt'[a] = w /\ spaces'[a] = space
      /\ processes'[a] = process /\ archives'[a] = archives[a]
  BY <1>7, Moves DEF Moved
<1>9. SpaceIsOwn(a)' /\ ProgramInTurn(a)'
  BY <1>3, <1>4, <1>8, Facts
     DEF AttemptSound, SpaceIsOwn, ProgramInTurn, At, Reported, Launch
<1>10. Prepared(a)'
  <2>1. attempt[a].adapter \in External
    BY DEF Launch, IInv, TypeOK
  <2>2. NeedsPackage(attempt[a].adapter) => attempt[a].adapter \in space.staged
    BY <1>2, <1>4
  <2>3. QED
    BY <1>3, <1>4, <1>8, <2>1, <2>2, Facts
       DEF AttemptSound, Prepared, At, Launch, External
<1>11. Concluded(a)'
  BY <1>3, <1>8 DEF Concluded, At, Reported
<1>12. QED
  BY <1>8, <1>9, <1>10, <1>11, ByAttempt DEF AttemptSound

LEMMA FixtureKeeps ==
  ASSUME IInv, NEW a \in Attempt, RunFixture(a)
  PROVE  IInv'
<1> DEFINE w == [attempt[a] EXCEPT !.pc = "archived"]
<1> DEFINE space == [spaces[a] EXCEPT !.skill = @ \cup {a}, !.logs = @ \cup {a}]
<1> DEFINE archive == [by |-> {a}, engine |-> attempt[a].adapter, inputs |-> job.sources]
<1>1. {a} \in SUBSET Attempt
  OBVIOUS
<1>2. /\ w \in AttemptState
      /\ w.pc = "archived" /\ w.mode = attempt[a].mode
      /\ w.adapter = attempt[a].adapter /\ w.dir = attempt[a].dir
      /\ w.launched = attempt[a].launched
  BY Facts DEF AttemptState
<1>3. /\ space \in Space
      /\ space.inputs = spaces[a].inputs /\ space.staged = spaces[a].staged
      /\ space.skill = spaces[a].skill \cup {a}
      /\ space.logs = spaces[a].logs \cup {a}
  <2>1. spaces[a] \in Space
    BY Facts
  <2>2. /\ spaces[a].skill \cup {a} \in SUBSET Attempt
        /\ spaces[a].logs \cup {a} \in SUBSET Attempt
    BY <1>1, <2>1 DEF Space
  <2>3. space \in Space
    BY <2>1, <2>2 DEF Space
  <2>4. QED
    BY <2>1 DEF Space
<1>4. space.skill = {a} /\ space.logs = {a} /\ spaces[a].inputs = job.sources
  BY <1>3, Facts DEF AttemptSound, SpaceIsOwn, Prepared, At, RunFixture
<1>5. archive \in Archive
  BY <1>1, <1>4, Facts DEF Archive, AttemptState, Space
<1>6. /\ attempt' = [attempt EXCEPT ![a] = w]
      /\ spaces' = [spaces EXCEPT ![a] = space]
      /\ spaces'[a] = space
  BY Facts DEF RunFixture, Goto, InSpace, IInv, TypeOK
<1> HIDE DEF w, space
<1>7. archives' = [archives EXCEPT ![a] = archive]
  BY <1>4, <1>6, Facts DEF RunFixture, Packed
<1> HIDE DEF archive
<1>8. Moved(a, w, space, processes[a], archive)
  BY <1>2, <1>3, <1>5, <1>6, <1>7, Facts, Stays DEF RunFixture, Moved, IInv, TypeOK
<1>9. /\ TypeOK' /\ Apart(a) /\ job' = job /\ attempts' = attempts
      /\ attempt'[a] = w /\ spaces'[a] = space
      /\ processes'[a] = processes[a] /\ archives'[a] = archive
  BY <1>8, Moves DEF Moved
<1>10. SpaceIsOwn(a)'
  BY <1>2, <1>4, <1>9, Facts DEF SpaceIsOwn
<1>11. ProgramInTurn(a)'
  BY <1>2, <1>9, Facts
     DEF AttemptSound, ProgramInTurn, At, Reported, RunFixture
<1>12. Prepared(a)'
  BY <1>2, <1>3, <1>4, <1>9, Facts DEF AttemptSound, Prepared, At, RunFixture
<1>13. Concluded(a)'
  <2>1. IF w.launched THEN processes[a].code = "zero" ELSE w.adapter = "fixture"
    BY <1>2, Facts DEF AttemptSound, Prepared, ProgramInTurn, At, RunFixture
  <2>2. archives'[a] = [by |-> {a}, engine |-> w.adapter, inputs |-> job.sources]
    BY <1>2, <1>9 DEF archive
  <2>3. QED
    BY <1>4, <1>9, <2>1, <2>2 DEF Concluded, At, Reported
<1>14. QED
  BY <1>9, <1>10, <1>11, <1>12, <1>13, ByAttempt DEF AttemptSound

LEMMA CollectKeeps ==
  ASSUME IInv, NEW a \in Attempt, Collect(a)
  PROVE  IInv'
<1> DEFINE w == [attempt[a] EXCEPT !.pc = "archived"]
<1> DEFINE space == [spaces[a] EXCEPT !.logs = @ \cup {a}]
<1> DEFINE archive == [by |-> {a}, engine |-> attempt[a].adapter, inputs |-> job.sources]
<1>1. {a} \in SUBSET Attempt
  OBVIOUS
<1>2. /\ w \in AttemptState
      /\ w.pc = "archived" /\ w.mode = attempt[a].mode
      /\ w.adapter = attempt[a].adapter /\ w.dir = attempt[a].dir
      /\ w.launched = attempt[a].launched
  BY Facts DEF AttemptState
<1>3. /\ space \in Space
      /\ space.inputs = spaces[a].inputs /\ space.staged = spaces[a].staged
      /\ space.skill = spaces[a].skill
      /\ space.logs = spaces[a].logs \cup {a}
  BY <1>1, Facts DEF Space
<1>4. space.skill = {a} /\ space.logs = {a} /\ spaces[a].inputs = job.sources
  BY <1>3, Facts DEF AttemptSound, SpaceIsOwn, Prepared, At, Collect, Complete
<1>5. archive \in Archive
  BY <1>1, <1>4, Facts DEF Archive, AttemptState, Space
<1>6. /\ attempt' = [attempt EXCEPT ![a] = w]
      /\ spaces' = [spaces EXCEPT ![a] = space]
      /\ spaces'[a] = space
  BY Facts DEF Collect, Goto, InSpace, IInv, TypeOK, Logged
<1> HIDE DEF w, space
<1>7. archives' = [archives EXCEPT ![a] = archive]
  BY <1>4, <1>6, Facts DEF Collect, Packed
<1> HIDE DEF archive
<1>8. Moved(a, w, space, processes[a], archive)
  BY <1>2, <1>3, <1>5, <1>6, <1>7, Facts, Stays DEF Collect, Moved, IInv, TypeOK
<1>9. /\ TypeOK' /\ Apart(a) /\ job' = job /\ attempts' = attempts
      /\ attempt'[a] = w /\ spaces'[a] = space
      /\ processes'[a] = processes[a] /\ archives'[a] = archive
  BY <1>8, Moves DEF Moved
<1>10. SpaceIsOwn(a)'
  BY <1>2, <1>4, <1>9, Facts DEF SpaceIsOwn
<1>11. ProgramInTurn(a)'
  BY <1>2, <1>9, Facts
     DEF AttemptSound, ProgramInTurn, At, Reported, Collect, Complete
<1>12. Prepared(a)'
  BY <1>2, <1>3, <1>4, <1>9, Facts DEF AttemptSound, Prepared, At, Collect
<1>13. Concluded(a)'
  <2>1. IF w.launched THEN processes[a].code = "zero" ELSE w.adapter = "fixture"
    BY <1>2, Facts DEF AttemptSound, Prepared, ProgramInTurn, At, Collect, Complete
  <2>2. archives'[a] = [by |-> {a}, engine |-> w.adapter, inputs |-> job.sources]
    BY <1>2, <1>9 DEF archive
  <2>3. QED
    BY <1>4, <1>9, <2>1, <2>2 DEF Concluded, At, Reported
<1>14. QED
  BY <1>9, <1>10, <1>11, <1>12, <1>13, ByAttempt DEF AttemptSound

LEMMA OverdueKeeps ==
  ASSUME IInv, NEW a \in Attempt, Overdue(a)
  PROVE  IInv'
<1> DEFINE w == [attempt[a] EXCEPT !.pc = "failing"]
<1> DEFINE space == [spaces[a] EXCEPT !.logs = @ \cup {a}]
<1>1. /\ w \in AttemptState /\ space \in Space
      /\ w.pc = "failing" /\ w.mode = attempt[a].mode
      /\ w.adapter = attempt[a].adapter /\ w.dir = attempt[a].dir
      /\ w.launched = attempt[a].launched /\ space.inputs = spaces[a].inputs
      /\ space.staged = spaces[a].staged /\ space.skill = spaces[a].skill
      /\ space.logs = spaces[a].logs \cup {a}
  BY Facts DEF AttemptState, Space, Archive
<1>2. /\ attempt' = [attempt EXCEPT ![a] = w]
      /\ spaces' = [spaces EXCEPT ![a] = space]
  BY <1>1, Facts DEF Overdue, Goto, InSpace, IInv, TypeOK, Logged
<1> HIDE DEF w, space
<1>3. Moved(a, w, space, processes[a], archives[a])
  BY <1>1, <1>2, Facts, Stays DEF Overdue, Moved, Process, IInv, TypeOK
<1>4. /\ TypeOK' /\ Apart(a) /\ job' = job /\ attempts' = attempts
      /\ attempt'[a] = w /\ spaces'[a] = space
      /\ processes'[a] = processes[a] /\ archives'[a] = archives[a]
  BY <1>3, Moves DEF Moved
<1>5. SpaceIsOwn(a)' /\ ProgramInTurn(a)'
  BY <1>1, <1>4, Facts
     DEF AttemptSound, SpaceIsOwn, ProgramInTurn, At, Reported, Overdue
<1>6. Prepared(a)' /\ Concluded(a)'
  BY <1>1, <1>4, Facts
     DEF AttemptSound, SpaceIsOwn, ProgramInTurn, Prepared, Concluded, At, Reported,
         Overdue
<1>7. QED
  BY <1>4, <1>5, <1>6, ByAttempt DEF AttemptSound

LEMMA DiscardKeeps ==
  ASSUME IInv, NEW a \in Attempt, Discard(a)
  PROVE  IInv'
<1> DEFINE w == [attempt[a] EXCEPT !.pc = "failing"]
<1> DEFINE space == [spaces[a] EXCEPT !.logs = @ \cup {a}]
<1>1. /\ w \in AttemptState /\ space \in Space
      /\ w.pc = "failing" /\ w.mode = attempt[a].mode
      /\ w.adapter = attempt[a].adapter /\ w.dir = attempt[a].dir
      /\ w.launched = attempt[a].launched /\ space.inputs = spaces[a].inputs
      /\ space.staged = spaces[a].staged /\ space.skill = spaces[a].skill
      /\ space.logs = spaces[a].logs \cup {a}
  BY Facts DEF AttemptState, Space, Archive
<1>2. /\ attempt' = [attempt EXCEPT ![a] = w]
      /\ spaces' = [spaces EXCEPT ![a] = space]
  BY <1>1, Facts DEF Discard, Goto, InSpace, IInv, TypeOK, Logged
<1> HIDE DEF w, space
<1>3. Moved(a, w, space, processes[a], archives[a])
  BY <1>1, <1>2, Facts, Stays DEF Discard, Moved, Process, IInv, TypeOK
<1>4. /\ TypeOK' /\ Apart(a) /\ job' = job /\ attempts' = attempts
      /\ attempt'[a] = w /\ spaces'[a] = space
      /\ processes'[a] = processes[a] /\ archives'[a] = archives[a]
  BY <1>3, Moves DEF Moved
<1>5. SpaceIsOwn(a)' /\ ProgramInTurn(a)'
  BY <1>1, <1>4, Facts
     DEF AttemptSound, SpaceIsOwn, ProgramInTurn, At, Reported, Discard
<1>6. Prepared(a)' /\ Concluded(a)'
  BY <1>1, <1>4, Facts
     DEF AttemptSound, SpaceIsOwn, ProgramInTurn, Prepared, Concluded, At, Reported,
         Discard
<1>7. QED
  BY <1>4, <1>5, <1>6, ByAttempt DEF AttemptSound

LEMMA WritesKeeps ==
  ASSUME IInv, NEW a \in Attempt, EngineWrites(a)
  PROVE  IInv'
<1> DEFINE space == [spaces[a] EXCEPT !.skill = @ \cup {a}]
<1>1. /\ space \in Space
      /\ space.inputs = spaces[a].inputs /\ space.staged = spaces[a].staged
      /\ space.skill = spaces[a].skill \cup {a} /\ space.logs = spaces[a].logs
  BY Facts DEF AttemptState, Space, Archive
<1>2. /\ spaces' = [spaces EXCEPT ![a] = space]
  BY <1>1, Facts DEF EngineWrites, Goto, InSpace, IInv, TypeOK
<1> HIDE DEF space
<1>3. Moved(a, attempt[a], space, processes[a], archives[a])
  BY <1>1, <1>2, Facts, Stays DEF EngineWrites, Moved, Process, IInv, TypeOK
<1>4. /\ TypeOK' /\ Apart(a) /\ job' = job /\ attempts' = attempts
      /\ attempt'[a] = attempt[a] /\ spaces'[a] = space
      /\ processes'[a] = processes[a] /\ archives'[a] = archives[a]
  BY <1>3, Moves DEF Moved
<1>5. SpaceIsOwn(a)' /\ ProgramInTurn(a)'
  BY <1>1, <1>4, Facts
     DEF AttemptSound, SpaceIsOwn, ProgramInTurn, At, Reported, EngineWrites
<1>6. Prepared(a)' /\ Concluded(a)'
  BY <1>1, <1>4, Facts
     DEF AttemptSound, SpaceIsOwn, ProgramInTurn, Prepared, Concluded, At, Reported,
         EngineWrites
<1>7. QED
  BY <1>4, <1>5, <1>6, ByAttempt DEF AttemptSound

\* The workspace of a new attempt is new.
LEMMA OpenKeeps ==
  ASSUME IInv, NEW a \in Attempt, OpenWorkspace(a)
  PROVE  IInv'
<1>1. PICK mode \in {"fixture", "live"} : Open(a, a, mode)
  BY DEF OpenWorkspace
<1> DEFINE adapter == AdapterFor(job.engine, mode)
<1> DEFINE w0 == [attempt[a] EXCEPT !.pc = "prepare"]
<1> DEFINE w1 == [w0 EXCEPT !.mode = mode]
<1> DEFINE w2 == [w1 EXCEPT !.dir = a]
<1> DEFINE w == [w2 EXCEPT !.adapter = adapter]
<1> DEFINE space == [spaces[a] EXCEPT !.made = TRUE]
<1>2. job.engine \in Engine
  BY EnginesAssumption DEF IInv, TypeOK
<1>3. adapter \in Engine
  BY <1>2 DEF AdapterFor, Engine
<1> HIDE DEF adapter
<1>4. attempt[a] \in AttemptState /\ attempt[a].pc = "none"
  BY <1>1, Facts DEF Open, AttemptSound, ProgramInTurn, At
<1>5. w \in AttemptState
  <2>1. w0 \in AttemptState
    BY <1>4 DEF AttemptState
  <2>2. w1 \in AttemptState
    BY <2>1 DEF AttemptState
  <2>3. w2 \in AttemptState
    BY <2>2 DEF AttemptState
  <2>4. QED
    BY <2>3, <1>3 DEF AttemptState
<1>6. /\ w.pc = "prepare" /\ w.mode = mode /\ w.dir = a
      /\ w.adapter = adapter /\ w.launched = attempt[a].launched
  BY <1>4 DEF AttemptState
<1>7. /\ space \in Space /\ space.inputs = spaces[a].inputs
      /\ space.staged = spaces[a].staged /\ space.skill = spaces[a].skill
      /\ space.logs = spaces[a].logs
  <2>1. spaces[a] \in Space
    BY Facts
  <2>2. space \in Space
    BY <2>1 DEF Space
  <2>3. QED
    BY <2>1, <2>2 DEF Space
<1>8. /\ attempt' = [attempt EXCEPT ![a] = w]
      /\ spaces' = [spaces EXCEPT ![a] = space]
  BY <1>1, <1>4 DEF Open, adapter, IInv, TypeOK
<1> HIDE DEF w0, w1, w2, w, space
<1>9. /\ job' = job /\ attempts' = attempts + 1 /\ attempts' = a
      /\ attempt'[a] = w /\ spaces'[a] = space
      /\ processes' = processes /\ archives' = archives
  BY <1>1, <1>8 DEF Open, IInv, TypeOK
<1>10. TypeOK'
  <2>1. attempt' \in [Attempt -> AttemptState] /\ spaces' \in [Attempt -> Space]
    BY <1>5, <1>7, <1>8 DEF IInv, TypeOK
  <2>2. attempts' \in 0..MaxAttempts
    BY <1>9, EnginesAssumption DEF Attempt
  <2>3. QED
    BY <1>1, <2>1, <2>2 DEF Open, IInv, TypeOK
<1>11. Apart(a)
  BY <1>8, <1>9, Facts DEF Apart, IInv, TypeOK
<1>12. ~attempt[a].launched /\ processes[a].state = "none"
  BY <1>4, Facts DEF AttemptSound, ProgramInTurn, Reported
<1>13. SpaceIsOwn(a)' /\ ProgramInTurn(a)'
  <2>1. ~(a > attempts')
    BY <1>9 DEF Attempt
  <2>2. QED
    BY <1>6, <1>7, <1>9, <1>12, <2>1, Facts
       DEF AttemptSound, SpaceIsOwn, ProgramInTurn, At
<1>14. Prepared(a)' /\ Concluded(a)'
  BY <1>6, <1>9, <1>12 DEF Prepared, Concluded, At, Reported, adapter
<1>15. QED
  BY <1>10, <1>11, <1>13, <1>14, ByAttempt DEF AttemptSound

LEMMA ExtractKeeps ==
  ASSUME IInv, NEW a \in Attempt, ExtractSource(a)
  PROVE  IInv'
<1>1. PICK v \in job.sources \ SpaceOf(a).inputs :
        InSpace(a, [SpaceOf(a) EXCEPT !.inputs = @ \cup {v}])
  BY DEF ExtractSource
<1> DEFINE space == [spaces[a] EXCEPT !.inputs = @ \cup {v}]
<1>2. job.sources \subseteq Version
  BY EnginesAssumption DEF IInv, TypeOK
<1>3. /\ space \in Space
      /\ space.staged = spaces[a].staged /\ space.skill = spaces[a].skill
      /\ space.logs = spaces[a].logs
  BY <1>2, Facts DEF Space
<1>4. spaces' = [spaces EXCEPT ![a] = space]
  BY <1>1, Facts DEF InSpace
<1> HIDE DEF space
<1>5. Moved(a, attempt[a], space, processes[a], archives[a])
  BY <1>3, <1>4, Facts, Stays DEF ExtractSource, Moved, IInv, TypeOK
<1>6. /\ TypeOK' /\ Apart(a) /\ job' = job /\ attempts' = attempts
      /\ attempt'[a] = attempt[a] /\ spaces'[a] = space
      /\ processes'[a] = processes[a] /\ archives'[a] = archives[a]
  <2>1. job' = job /\ attempts' = attempts
    BY <1>5 DEF Moved
  <2>2. QED
    BY <1>5, <2>1, Moves
<1>7. SpaceIsOwn(a)' /\ ProgramInTurn(a)'
  BY <1>3, <1>6, Facts DEF AttemptSound, SpaceIsOwn, ProgramInTurn, At
<1>8. Prepared(a)' /\ Concluded(a)'
  BY <1>3, <1>6, Facts
     DEF AttemptSound, ProgramInTurn, Prepared, Concluded, At, Reported, ExtractSource
<1>9. QED
  BY <1>6, <1>7, <1>8, ByAttempt DEF AttemptSound

\* What the program of an attempt does, or has done to it, while its worker
\* stays where it is, starts to wait for its end or leaves it.
LEMMA ProgramChanges ==
  ASSUME IInv, NEW a \in Attempt, NEW process \in Process,
         processes' = [processes EXCEPT ![a] = process],
         NEW label, Goto(a, label),
         UNCHANGED <<job, attempts, spaces, installed, archives, changes>>,
         stops' \in 0..MaxStops,
         ~At(a, "none"),
         \/ label \in {"wait", "drain"} /\ At(a, "wait")
         \/ label \in {"cancelling", "gone"}
         \/ At(a, label) /\ process.state \in {"none", processes[a].state}
         \/ At(a, label) /\ processes[a].state # "none",
         process.state # "none" \/ process.stray => attempt[a].launched,
         At(a, label) => \/ processes[a].code = process.code
                         \/ processes[a].state # "none"
  PROVE  IInv'
<1> DEFINE w == [attempt[a] EXCEPT !.pc = label]
<1>0. attempt[a] \in AttemptState /\ AttemptSound(a)
  BY Facts
<1>1. /\ w \in AttemptState
      /\ w.pc = label /\ w.mode = attempt[a].mode /\ w.adapter = attempt[a].adapter
      /\ w.dir = attempt[a].dir /\ w.launched = attempt[a].launched
  BY <1>0 DEF AttemptState, At
<1>2. attempt' = [attempt EXCEPT ![a] = w]
  BY DEF Goto
<1> HIDE DEF w
<1>3. Moved(a, w, spaces[a], process, archives[a])
  BY <1>1, <1>2, Facts, Stays DEF Moved, IInv, TypeOK
<1>4. /\ TypeOK' /\ Apart(a) /\ job' = job /\ attempts' = attempts
      /\ attempt'[a] = w /\ spaces'[a] = spaces[a]
      /\ processes'[a] = process /\ archives'[a] = archives[a]
  BY <1>3, Moves
<1>5. SpaceIsOwn(a)'
  BY <1>0, <1>1, <1>4 DEF AttemptSound, SpaceIsOwn
<1>6. /\ attempt[a].launched =>
           label \in {"wait", "drain", "failing", "cancelling", "gone"} \cup Reported
      /\ label \in {"wait", "drain"} => attempt[a].launched
      /\ process.state # "none" =>
           label \in {"wait", "drain", "cancelling", "interrupted", "gone"}
  BY <1>0 DEF AttemptSound, ProgramInTurn, At, Reported
<1>7. ProgramInTurn(a)'
  BY <1>0, <1>1, <1>4, <1>6 DEF AttemptSound, ProgramInTurn, At
<1>8. Prepared(a)'
  BY <1>0, <1>1, <1>4 DEF AttemptSound, Prepared, At
<1>9. Concluded(a)'
  <2>1. CASE label \in {"wait", "drain", "cancelling", "gone"}
    BY <2>1, <1>1, <1>4 DEF Concluded, At, Reported
  <2>2. CASE At(a, label)
    <3>1. label = "archived" => processes[a].code = process.code
      BY <2>2, <1>0 DEF AttemptSound, ProgramInTurn, At
    <3>2. QED
      BY <2>2, <3>1, <1>0, <1>1, <1>4 DEF AttemptSound, Concluded, At
  <2>3. QED
    BY <2>1, <2>2
<1>10. QED
  BY <1>4, <1>5, <1>7, <1>8, <1>9, ByAttempt DEF AttemptSound

\* A step of the program itself, or of what it left behind.
LEMMA ProgramGoesOn ==
  ASSUME IInv, NEW a \in Attempt, NEW process \in Process,
         processes' = [processes EXCEPT ![a] = process],
         process.state # "none" \/ process.stray => attempt[a].launched,
         \/ processes[a].state # "none"
         \/ process.state = processes[a].state /\ process.code = processes[a].code,
         processes[a].state # "none" \/ processes[a].stray,
         UNCHANGED <<job, attempts, attempt, spaces, installed, archives, stops, changes>>
  PROVE  IInv'
<1> DEFINE label == attempt[a].pc
<1>1. ~At(a, "none")
  BY Facts DEF AttemptSound, ProgramInTurn, At, Reported
<1>2. Goto(a, label)
  BY Facts DEF Goto, IInv, TypeOK, AttemptState
<1>3. stops' \in 0..MaxStops /\ At(a, label)
  BY DEF IInv, TypeOK, At
<1> HIDE DEF label
<1>4. QED
  BY <1>1, <1>2, <1>3, ProgramChanges

LEMMA ExitsKeeps ==
  ASSUME IInv, NEW a \in Attempt, EngineExits(a)
  PROVE  IInv'
<1>1. PICK process \in Ends({"zero", "other"}) :
        processes' = [processes EXCEPT ![a] = process]
  BY DEF EngineExits
<1>2. process \in Process /\ processes[a].state # "none"
  BY DEF Process, Ends, EngineExits
<1>3. QED
  BY <1>1, <1>2, Facts, ProgramGoesOn
     DEF EngineExits, AttemptSound, ProgramInTurn

LEMMA ReleaseKeeps ==
  ASSUME IInv, NEW a \in Attempt, Release(a)
  PROVE  IInv'
<1>1. PICK stray \in {processes[a].stray, TRUE} :
        processes' = [processes EXCEPT ![a] =
          [state |-> "none", stray |-> stray, code |-> processes[a].code]]
  BY DEF Release
<1> DEFINE process == [state |-> "none", stray |-> stray, code |-> processes[a].code]
<1>2. process \in Process
  <2>1. stray \in BOOLEAN
    BY Facts DEF Process
  <2>2. QED
    BY <2>1, Facts DEF Process
<1>3. processes' = [processes EXCEPT ![a] = process] /\ processes[a].state # "none"
  BY <1>1 DEF Release
<1> HIDE DEF process
<1>4. QED
  BY <1>2, <1>3, Facts, ProgramGoesOn
     DEF Release, AttemptSound, ProgramInTurn

LEMMA StrayEndsKeeps ==
  ASSUME IInv, NEW a \in Attempt, StrayEnds(a)
  PROVE  IInv'
<1> DEFINE process == [processes[a] EXCEPT !.stray = FALSE]
<1>1. /\ process \in Process /\ process.state = processes[a].state
      /\ process.code = processes[a].code /\ process.stray = FALSE
  <2>1. processes[a] \in Process
    BY Facts
  <2>2. FALSE \in BOOLEAN
    OBVIOUS
  <2>3. process \in Process
    BY <2>1, <2>2 DEF Process
  <2>4. QED
    BY <2>1, <2>3 DEF Process
<1>2. processes' = [processes EXCEPT ![a] = process] /\ processes[a].stray
  BY DEF StrayEnds
<1> HIDE DEF process
<1>3. attempt[a].launched
  BY <1>2, Facts DEF AttemptSound, ProgramInTurn
<1>4. QED
  BY <1>1, <1>2, <1>3, ProgramGoesOn DEF StrayEnds

\* Killing a program leaves a process of the type, and strays of its own only.
LEMMA KilledFacts ==
  ASSUME IInv, NEW a \in Attempt, NEW process \in Killed(a)
  PROVE  /\ process \in Process
         /\ process.stray => processes[a].stray \/ processes[a].state # "none"
BY Facts DEF Killed, Ends, Process

LEMMA TimesOutKeeps ==
  ASSUME IInv, NEW a \in Attempt, TimesOut(a)
  PROVE  IInv'
<1>1. PICK process \in Killed(a) : processes' = [processes EXCEPT ![a] = process]
  BY DEF TimesOut
<1>2. process \in Process
  BY KilledFacts
<1>3. attempt[a].launched
  BY Facts DEF AttemptSound, ProgramInTurn, At, TimesOut
<1>4. stops' \in 0..MaxStops
  BY DEF TimesOut, IInv, TypeOK
<1>5. QED
  BY <1>1, <1>2, <1>3, <1>4, ProgramChanges DEF TimesOut, At

LEMMA LeaveKeeps ==
  ASSUME IInv, NEW a \in Attempt, NEW label \in {"cancelling", "gone"},
         Leave(a, label), ~At(a, "none"), ~At(a, label)
  PROVE  IInv'
<1>1. stops' \in 0..MaxStops
  BY EnginesAssumption DEF Leave, IInv, TypeOK
<1>2. processes[a].stray => attempt[a].launched
  BY Facts DEF AttemptSound, ProgramInTurn
<1>3. PICK process \in {processes[a]} \cup Killed(a) :
        processes' = [processes EXCEPT ![a] = process]
  BY Stays DEF Leave
<1>4. process \in Process
  BY <1>3, KilledFacts, Facts
<1>5. process.state # "none" \/ process.stray => attempt[a].launched
  BY <1>2, <1>3, Facts DEF Killed, AttemptSound, ProgramInTurn
<1>6. QED
  BY <1>1, <1>3, <1>4, <1>5, ProgramChanges DEF Leave

\* An engine comes or goes: the attempts are as they were.
LEMMA ChangeKeeps ==
  ASSUME IInv, NEW engine \in External, Change(engine)
  PROVE  IInv'
<1>1. changes' \in 0..MaxChanges /\ installed' \subseteq External
  BY EnginesAssumption DEF Change, IInv, TypeOK
<1>2. TypeOK'
  BY <1>1 DEF Change, IInv, TypeOK
<1>3. \A a \in Attempt : AttemptSound(a)'
  BY DEF Change, IInv, AttemptSound, SpaceIsOwn, ProgramInTurn, Prepared, Concluded, At
<1>4. QED
  BY <1>2, <1>3 DEF IInv

LEMMA WorkerGoesOn ==
  ASSUME IInv, NEW a \in Attempt,
         \/ WriteContext(a) \/ CheckHealth(a) \/ SourceMissing(a)
         \/ LaunchFails(a) \/ ReportFailed(a) \/ RecordInterrupted(a)
  PROVE  IInv'
<1>0. /\ At(a, "prepare") \/ At(a, "check") \/ At(a, "run") => ~attempt[a].launched
      /\ At(a, "check") \/ At(a, "run") => spaces[a].inputs = job.sources
  BY Facts DEF AttemptSound, ProgramInTurn, Prepared, At, Reported
<1>1. CASE WriteContext(a)
  BY <1>0, <1>1, Facts, GoesOn DEF WriteContext, Extracted, At
<1>2. CASE CheckHealth(a)
  BY <1>0, <1>2, GoesOn DEF CheckHealth, At
<1>3. CASE SourceMissing(a)
  BY <1>0, <1>3, GoesOn DEF SourceMissing, At
<1>4. CASE LaunchFails(a)
  BY <1>0, <1>4, GoesOn DEF LaunchFails, At
<1>5. CASE ReportFailed(a)
  BY <1>0, <1>5, GoesOn DEF ReportFailed, At
<1>6. CASE RecordInterrupted(a)
  BY <1>6, GoesOn DEF RecordInterrupted, At
<1>7. QED
  BY <1>1, <1>2, <1>3, <1>4, <1>5, <1>6

\* Nothing has happened yet.
LEMMA InitInv == Init => IInv
<1> SUFFICES ASSUME Init PROVE IInv
  OBVIOUS
<1>1. TypeOK
  BY EnginesAssumption
     DEF Init, TypeOK, AttemptState, Space, Process, Archive, NoArchive, Engine
<1>2. ASSUME NEW a \in Attempt PROVE AttemptSound(a)
  <2>1. /\ attempt[a].pc = "none" /\ attempt[a].dir = a /\ ~attempt[a].launched
        /\ spaces[a].skill = {} /\ spaces[a].logs = {}
        /\ processes[a].state = "none" /\ ~processes[a].stray
    BY DEF Init
  <2>2. QED
    BY <2>1 DEF AttemptSound, SpaceIsOwn, ProgramInTurn, Prepared, Concluded, At, Reported
<1>3. QED
  BY <1>1, <1>2 DEF IInv

\* The invariant is kept, step by step.
THEOREM Invariance == Spec => []IInv
<1>1. IInv /\ [Next]_vars => IInv'
  <2> SUFFICES ASSUME IInv, [Next]_vars PROVE IInv'
    OBVIOUS
  <2>1. ASSUME NEW a \in Attempt,
               OpenWorkspace(a) \/ Step(a) \/ SourceMissing(a) \/ ProgramStep(a)
                 \/ Stop(a) \/ Crash(a)
        PROVE  IInv'
    <3>1. CASE OpenWorkspace(a)
      BY <3>1, OpenKeeps
    <3>2. CASE Step(a)
      BY <3>2, ExtractKeeps, WorkerGoesOn, FixtureKeeps, LaunchKeeps, TimesOutKeeps,
         OverdueKeeps, CollectKeeps, DiscardKeeps DEF Step
    <3>3. CASE SourceMissing(a)
      BY <3>3, WorkerGoesOn
    <3>4. CASE ProgramStep(a)
      BY <3>4, WritesKeeps, ExitsKeeps, ReleaseKeeps, StrayEndsKeeps DEF ProgramStep
    <3>5. CASE Stop(a)
      BY <3>5, LeaveKeeps DEF Stop, At
    <3>6. CASE Crash(a)
      BY <3>6, LeaveKeeps DEF Crash, At
    <3>7. QED
      BY <2>1, <3>1, <3>2, <3>3, <3>4, <3>5, <3>6
  <2>2. ASSUME NEW engine \in External, Change(engine) PROVE IInv'
    BY <2>2, ChangeKeeps
  <2>3. CASE UNCHANGED vars
    BY <2>3 DEF vars, IInv, TypeOK, AttemptSound, SpaceIsOwn, ProgramInTurn, Prepared,
                Concluded, At
  <2>4. QED
    BY <2>1, <2>2, <2>3 DEF Next
<1>2. QED
  BY <1>1, InitInv, PTL DEF Spec

\* What the invariant says of an attempt that has archived its package.
LEMMA ArchivedFacts ==
  ASSUME IInv, NEW a \in Attempt, At(a, "archived")
  PROVE  /\ archives[a].by = {a} /\ archives[a].inputs = job.sources
         /\ archives[a].engine = attempt[a].adapter
         /\ attempt[a].launched => processes[a].code = "zero"
         /\ attempt[a].adapter = AdapterFor(job.engine, attempt[a].mode)
         /\ attempt[a].launched => attempt[a].adapter # "fixture"
         /\ ~attempt[a].launched => attempt[a].adapter = "fixture"
         /\ attempt[a].launched /\ NeedsPackage(attempt[a].adapter) =>
              attempt[a].adapter \in spaces[a].staged
<1>1. Prepared(a) /\ Concluded(a)
  BY Facts DEF AttemptSound
<1>2. archives[a] = [by |-> {a}, engine |-> attempt[a].adapter, inputs |-> job.sources]
  BY <1>1 DEF Concluded
<1>3. /\ archives[a].by = {a} /\ archives[a].inputs = job.sources
      /\ archives[a].engine = attempt[a].adapter
  BY <1>2
<1>4. IF attempt[a].launched THEN processes[a].code = "zero"
                            ELSE attempt[a].adapter = "fixture"
  BY <1>1 DEF Concluded
<1>5. /\ attempt[a].adapter = AdapterFor(job.engine, attempt[a].mode)
      /\ attempt[a].launched => attempt[a].adapter # "fixture"
      /\ attempt[a].launched /\ NeedsPackage(attempt[a].adapter) =>
           attempt[a].adapter \in spaces[a].staged
  BY <1>1 DEF Prepared, At
<1>6. QED
  BY <1>3, <1>4, <1>5

\* The package an attempt archives is its own, from all its sources, made by a
\* program that ended well, whatever other attempts left running
\* (workers/main.py:40-57, 134-135).
THEOREM WorkStaysOwn == Spec => []OwnWorkOnly
<1>1. ASSUME IInv, NEW a \in Attempt, At(a, "archived")
      PROVE  /\ archives[a].by = {a} /\ archives[a].inputs = job.sources
             /\ attempt[a].launched => processes[a].code = "zero"
  BY <1>1, ArchivedFacts
<1>2. IInv => OwnWorkOnly
  BY <1>1 DEF OwnWorkOnly
<1>3. QED
  BY <1>2, Invariance, PTL

\* No engine is replaced by another one or by the fixture, and what needs a
\* staged package had it (adapters/factory.py, README.md:113-121).
THEOREM EnginesFailClosed == Spec => []NeverSubstituted
<1>1. ASSUME IInv, NEW a \in Attempt, At(a, "archived")
      PROVE  LET engine == archives[a].engine
             IN  /\ engine # job.engine => attempt[a].mode = "fixture"
                 /\ engine = "fixture" <=> ~attempt[a].launched
                 /\ NeedsPackage(engine) => engine \in SpaceOf(a).staged
  <2>1. /\ archives[a].engine = attempt[a].adapter
        /\ attempt[a].adapter = AdapterFor(job.engine, attempt[a].mode)
        /\ attempt[a].launched => attempt[a].adapter # "fixture"
        /\ ~attempt[a].launched => attempt[a].adapter = "fixture"
        /\ attempt[a].launched /\ NeedsPackage(attempt[a].adapter) =>
             attempt[a].adapter \in spaces[a].staged
    BY <1>1, ArchivedFacts
  <2>2. attempt[a].mode \in {"fixture", "live"} /\ SpaceOf(a) = spaces[a]
    BY <1>1, Facts DEF AttemptState
  <2>3. QED
    BY <2>1, <2>2 DEF AdapterFor, NeedsPackage
<1>2. IInv => NeverSubstituted
  BY <1>1 DEF NeverSubstituted
<1>3. QED
  BY <1>2, Invariance, PTL

\* A report that is not an interruption's comes after the end of the program and
\* of all that held its output, and its logs are written, whatever other attempts
\* and stray processes do (adapters/subprocess.py:31-41, workers/main.py:79-86).
THEOREM ReportComesLast == Spec => []LogsBeforeReport
<1>1. ASSUME IInv, NEW a \in Attempt, attempt[a].pc \in {"archived", "failed"}
      PROVE  /\ processes[a].state = "none"
             /\ attempt[a].launched => SpaceOf(a).logs = {a}
  <2>1. ProgramInTurn(a) /\ Concluded(a) /\ SpaceOf(a) = spaces[a]
    BY <1>1, Facts DEF AttemptSound
  <2>2. processes[a].state = "none"
    BY <1>1, <2>1 DEF ProgramInTurn
  <2>3. QED
    BY <1>1, <2>1, <2>2 DEF Concluded
<1>2. IInv => LogsBeforeReport
  BY <1>1 DEF LogsBeforeReport
<1>3. QED
  BY <1>2, Invariance, PTL

=============================================================================
