---------------------------- MODULE CortexProofs ----------------------------
(***************************************************************************)
(* Proofs about one Cortex Run: its records agree whatever its workers,    *)
(* handlers and daemons do, late answers are never accepted, and the       *)
(* commands implement the lifecycle contract of the Go side.               *)
(***************************************************************************)
EXTENDS CortexRuntime, FiniteSetTheorems, TLAPS

-----------------------------------------------------------------------------
(* The inductive invariant                                                 *)

Roles == {"intent", "desk", "round_planner", "scout", "memo", "tool", "decision_desk"}
TaskStates == {"succeeded", "failed", "canceled", "superseded", "dead_lettered",
               "absent", "blocked", "ready", "running", "waiting"}
TaskRecords == [state : TaskStates, session : {"none", "open", "closed"}, slot : BOOLEAN, gen : Nat,
                role : Roles \union {"none"}]
AttemptStates == {"leased", "executing", "none", "result_committed", "failed", "timed_out", "canceled", "superseded"}
AttemptRecords == [state : AttemptStates, holder : Workers \union {"none"}, lease : 0..2]
LanePcs == {"idle", "found", "claimed", "turn", "calling", "answered", "rejected", "uncertain", "recover",
            "fail", "act"}
LaneSteps == Roles \union {"none", "intent", "specialist", "desk", "proposal", "memo", "plan", "correct", "decide",
                           "commit", "scout", "fail", "graph", "round"}
Lanes == [pc : LanePcs, task : Tasks \union {"none"}, gen : Nat, step : LaneSteps]

RuntimeTypeOK ==
    /\ run \in RunOver \union {"none", "queued", "running", "waiting", "canceling"}
    /\ task \in [Tasks -> TaskRecords]
    /\ attempt \in [Tasks -> AttemptRecords]
    /\ turn \in [Tasks -> TurnOpen \union {"none", "result_committed", "failed", "canceled"}]
    /\ graph \in [schedule : {"none", "open", "closed"}, round : 0..MaxRounds,
                  join : {"none", "unresolved", "ready", "failed"}]
    /\ budget \in [retries : Nat, calls : Nat]
    /\ clock \in [deadline : {"far", "near", "passed"}, authority : BOOLEAN]
    /\ intake \in {"none", "raw", "request", "admitted", "prepared"}
    /\ cancel \in {"none", "pending", "canceled", "denied"}
    /\ prep \subseteq GraphTasks
    /\ crashes \in 0..MaxCrashes
    /\ worker \in [Workers -> Lanes]

\* A Task, its newest Attempt and its newest Turn move together.
TaskFact(t) ==
    /\ task[t].state = "running" <=> attempt[t].state \in AttemptOpen
    /\ task[t].state = "running" => task[t].slot /\ task[t].session = "open"
    /\ task[t].state = "succeeded" <=> attempt[t].state = "result_committed"
    /\ task[t].state = "succeeded" => task[t].session = "closed"
    /\ Over(t) => ~task[t].slot /\ task[t].session # "open"
    /\ attempt[t].holder # "none" <=> attempt[t].state \in AttemptOpen
    /\ Unresolved(t) => attempt[t].state = "executing"
    /\ task[t].state # "absent" => task[t].role # "none"

\* The root may act itself: nothing else of the Run is alive.
RootActs == task[Root].state \in {"ready", "running"} \/ (task[Root].state = "waiting" /\ task[Root].session = "open")
RootParked == task[Root].state = "waiting" /\ task[Root].session # "open"

NoGraph == graph.schedule = "none" /\ graph.round = 0 /\ \A t \in GraphTasks : task[t].state = "absent"

\* The Run lives exactly as long as its root Task.
RunFact ==
    /\ run = "none" <=> task[Root].state = "absent"
    /\ run \in RunOver <=> task[Root].state \in TaskOver
    /\ task[Root].state # "blocked"
    /\ intake \in {"none", "raw", "request"} <=> run = "none"
    /\ run = "none" => NoGraph /\ task[Scout].state = "absent" /\ task[Root].role = "none" /\ cancel = "none"
    /\ run \in RunOver => graph.schedule # "open" /\ OthersOver(Root)
    /\ run = "succeeded" =>
         \/ task[Root].state = "succeeded" /\ task[Desk].state # "succeeded"
         \/ task[Root].state = "superseded" /\ task[Desk].state = "succeeded"

\* While the root acts its role says what came before: nothing, a Scout, or a
\* refined round of the graph.
ActsFact ==
    RootActs =>
        /\ OthersOver(Root) /\ graph.schedule # "open" /\ task[Desk].state # "succeeded"
        /\ task[Root].role \in {"intent", "desk", "round_planner"}
        /\ task[Root].role = "intent" => NoGraph /\ task[Scout].state = "absent"
        /\ task[Root].role = "desk" => NoGraph /\ task[Scout].state # "absent"
        /\ task[Root].role = "round_planner" => task[Scout].state = "absent" /\ graph.round < MaxRounds

\* A parked root waits for its Scout, or for its graph; the Decision Desk of
\* a graph is blocked until the Join has all memos.
ParkedFact ==
    RootParked =>
        \/ NoGraph /\ task[Scout].state # "absent"
        \/ /\ task[Scout].state = "absent" /\ graph.schedule = "open"
           /\ \/ graph.join = "unresolved" /\ task[Desk].state = "blocked"
              \/ graph.join = "ready" /\ task[Desk].state # "blocked" /\ \A n \in Nodes : Over(n)

RootSteps == [intent |-> {"intent", "specialist", "desk", "proposal", "graph", "scout", "commit", "fail"},
              desk |-> {"desk", "commit", "fail"},
              round_planner |-> {"round_planner", "proposal", "graph"}]
Calling == {"calling", "answered", "rejected", "uncertain"}

\* A lane that found the root and still holds its generation knows its role.
FoundFact(w) ==
    worker[w].pc = "found" =>
        /\ worker[w].task \in Tasks /\ worker[w].step \in Roles
        /\ worker[w].task = Root =>
             /\ worker[w].gen <= task[Root].gen
             /\ worker[w].gen = task[Root].gen => worker[w].step = task[Root].role

\* A lane that holds the lease of its Task works on the current Attempt, in a
\* step of the role its Session binds, and its call was not given up.
HoldFact(w) ==
    LET t == worker[w].task
    IN  worker[w].pc \notin {"idle", "found"} =>
          /\ t \in Tasks
          /\ attempt[t].holder = w =>
               /\ worker[w].pc = "claimed" => worker[w].step \in Roles /\ (t = Root => worker[w].step = task[Root].role)
               /\ worker[w].pc \in {"turn"} \union Calling => worker[w].step \in Purposes
               /\ t = Root => worker[w].step \in RootSteps[task[Root].role]
               /\ worker[w].pc \in Calling => turn[t] # "unknown"

Capacity == Slots <= RunParallel /\ ActiveNodes <= GraphParallel

CortexInv ==
    /\ RuntimeTypeOK
    /\ \A t \in Tasks : TaskFact(t)
    /\ RunFact /\ ActsFact /\ ParkedFact
    /\ \A w \in Workers : FoundFact(w) /\ HoldFact(w)
    /\ Capacity

-----------------------------------------------------------------------------
(* Lemmas about the tables, the records and the counts                     *)

LEMMA PurposeNames ==
    Purposes = {"intent", "specialist", "desk", "proposal", "memo", "plan", "correct", "decide"}
BY DEF Purposes, AfterTurn

LEMMA RoleNames == DOMAIN FirstTurn = Roles
BY DEF FirstTurn, Roles

LEMMA FirstTurns ==
    ASSUME NEW r \in Roles
    PROVE  FirstTurn[r] \in Purposes /\ FirstTurn[r] \in LaneSteps
BY PurposeNames DEF FirstTurn, Roles, LaneSteps

LEMMA AfterTurns ==
    ASSUME NEW p \in Purposes
    PROVE  AfterTurn[p] \subseteq LaneSteps \union {"abandon"}
BY PurposeNames DEF AfterTurn, LaneSteps, AfterIntent, AfterSpecialist, AfterDesk, AfterProposal, AfterMemo,
                    AfterPlan, AfterCorrection, AfterDecision

\* A root Attempt stays within the steps of its role.
LEMMA RootTurns ==
    ASSUME NEW role \in {"intent", "desk", "round_planner"}, NEW s \in RootSteps[role]
    PROVE  /\ role \in RootSteps[role] /\ FirstTurn[role] \in RootSteps[role]
           /\ s \in Purposes => AfterTurn[s] \subseteq RootSteps[role]
           /\ s = "scout" => role = "intent" /\ "desk" \in RootSteps[role]
           /\ s = "graph" => role # "desk"
<1>1. CASE role = "intent"
  <2>1. RootSteps[role] = {"intent", "specialist", "desk", "proposal", "graph", "scout", "commit", "fail"}
    BY <1>1 DEF RootSteps
  <2>2. role \in RootSteps[role] /\ FirstTurn[role] \in RootSteps[role]
    BY <1>1, <2>1 DEF FirstTurn
  <2>3. s \in Purposes => AfterTurn[s] \subseteq RootSteps[role]
    BY <2>1, PurposeNames DEF AfterTurn, AfterIntent, AfterSpecialist, AfterDesk, AfterProposal
  <2> QED
    BY <1>1, <2>1, <2>2, <2>3
<1>2. CASE role = "desk"
  <2>1. RootSteps[role] = {"desk", "commit", "fail"}
    BY <1>2 DEF RootSteps
  <2>2. role \in RootSteps[role] /\ FirstTurn[role] \in RootSteps[role]
    BY <1>2, <2>1 DEF FirstTurn
  <2>3. s \in Purposes => AfterTurn[s] \subseteq RootSteps[role]
    BY <2>1, PurposeNames DEF AfterTurn, AfterDesk
  <2> QED
    BY <1>2, <2>1, <2>2, <2>3
<1>3. CASE role = "round_planner"
  <2>1. RootSteps[role] = {"round_planner", "proposal", "graph"}
    BY <1>3 DEF RootSteps
  <2>2. role \in RootSteps[role] /\ FirstTurn[role] \in RootSteps[role]
    BY <1>3, <2>1 DEF FirstTurn
  <2>3. s \in Purposes => AfterTurn[s] \subseteq RootSteps[role]
    BY <2>1, PurposeNames DEF AfterTurn, AfterProposal
  <2> QED
    BY <1>3, <2>1, <2>2, <2>3
<1> QED
    BY <1>1, <1>2, <1>3

LEMMA TaskNames ==
    /\ Root \in Tasks /\ Scout \in Tasks /\ Desk \in Tasks /\ Desk \in GraphTasks
    /\ Root # Scout /\ Root # Desk /\ Scout # Desk
    /\ Root \notin GraphTasks /\ Scout \notin GraphTasks /\ Desk \notin Nodes
    /\ \A t \in Tasks : t = Root \/ t = Scout \/ t \in GraphTasks
    /\ \A t \in GraphTasks : t \in Tasks /\ (t = Desk \/ t \in Nodes)
    /\ Nodes \subseteq GraphTasks /\ IsFiniteSet(Tasks)
<1>1. IsFiniteSet(Nodes \union {Desk}) /\ IsFiniteSet({Root, Scout})
  <2>1. IsFiniteSet({Desk}) /\ IsFiniteSet({Root}) /\ IsFiniteSet({Scout})
    BY FS_Singleton
  <2>2. IsFiniteSet({Root} \union {Scout}) /\ {Root} \union {Scout} = {Root, Scout}
    BY <2>1, FS_Union
  <2> QED
    BY <2>1, <2>2, FS_Union, CortexConstants
<1>2. IsFiniteSet(Tasks)
    BY <1>1, FS_Union DEF Tasks, GraphTasks
<1> QED
    BY <1>2, CortexConstants DEF Tasks, GraphTasks, Root, Scout, Desk

\* The record of a Task that moves, ends, or is admitted.
LEMMA MovedRecord ==
    ASSUME task \in [Tasks -> TaskRecords], NEW t \in Tasks, NEW s \in TaskStates
    PROVE  /\ Moved(t, s) \in TaskRecords
           /\ Moved(t, s).state = s /\ Moved(t, s).session = task[t].session
           /\ Moved(t, s).slot = task[t].slot /\ Moved(t, s).gen = task[t].gen + 1
           /\ Moved(t, s).role = task[t].role
<1>1. task[t] \in TaskRecords
    OBVIOUS
<1>2. PICK r : r = [task[t] EXCEPT !.state = s]
    OBVIOUS
<1>3. /\ r \in TaskRecords /\ r.state = s /\ r.session = task[t].session
      /\ r.slot = task[t].slot /\ r.gen = task[t].gen /\ r.role = task[t].role
    BY <1>1, <1>2 DEF TaskRecords
<1>4. Moved(t, s) = [r EXCEPT !.gen = task[t].gen + 1]
    BY <1>1, <1>2, <1>3 DEF Moved, TaskRecords
<1>5. task[t].gen + 1 \in Nat
    BY <1>1 DEF TaskRecords
<1> QED
    BY <1>3, <1>4, <1>5 DEF TaskRecords

LEMMA EndedRecord ==
    ASSUME task \in [Tasks -> TaskRecords], NEW t \in Tasks, NEW s \in TaskStates
    PROVE  /\ Ended(t, s) \in TaskRecords
           /\ Ended(t, s).state = s /\ Ended(t, s).session = "closed"
           /\ ~Ended(t, s).slot /\ Ended(t, s).gen = task[t].gen + 1
           /\ Ended(t, s).role = task[t].role
<1>1. PICK m : m = Moved(t, s)
    OBVIOUS
<1>2. m \in TaskRecords /\ m.state = s /\ m.gen = task[t].gen + 1 /\ m.role = task[t].role
    BY <1>1, MovedRecord
<1>3. PICK r : r = [m EXCEPT !.slot = FALSE]
    OBVIOUS
<1>4. r \in TaskRecords /\ r.state = s /\ r.gen = task[t].gen + 1 /\ r.role = task[t].role /\ ~r.slot
    BY <1>2, <1>3 DEF TaskRecords
<1>5. Ended(t, s) = [r EXCEPT !.session = "closed"]
    BY <1>1, <1>3 DEF Ended
<1> QED
    BY <1>4, <1>5 DEF TaskRecords

LEMMA EndingRecord ==
    ASSUME NEW a \in AttemptStates
    PROVE  /\ Ending(a) \in AttemptRecords /\ Ending(a).state = a /\ Ending(a).holder = "none"
           /\ Ending(a).lease = 0
BY DEF Ending, NoAttempt, AttemptRecords, AttemptStates

\* The counts that RunParallel and GraphParallel bound.
LEMMA CountsKept ==
    ASSUME Capacity, \A t \in Tasks : task'[t].slot => task[t].slot,
           \A t \in GraphTasks : task'[t].state = "running" => task[t].state = "running"
    PROVE  Capacity'
<1>1. PICK S : S = {t \in Tasks : task[t].slot}
    OBVIOUS
<1>2. PICK S1 : S1 = {t \in Tasks : task'[t].slot}
    OBVIOUS
<1>3. PICK A : A = {t \in GraphTasks : task[t].state = "running"}
    OBVIOUS
<1>4. PICK A1 : A1 = {t \in GraphTasks : task'[t].state = "running"}
    OBVIOUS
<1>5. S1 \subseteq S /\ A1 \subseteq A /\ S \subseteq Tasks /\ A \subseteq Tasks
    BY <1>1, <1>2, <1>3, <1>4, TaskNames
<1>6. IsFiniteSet(S) /\ IsFiniteSet(A)
    BY <1>5, TaskNames, FS_Subset
<1>7. Cardinality(S1) <= Cardinality(S) /\ Cardinality(A1) <= Cardinality(A) /\ IsFiniteSet(S1) /\ IsFiniteSet(A1)
    BY <1>5, <1>6, FS_Subset
<1>8. {Cardinality(S), Cardinality(S1), Cardinality(A), Cardinality(A1)} \subseteq Nat
    BY <1>6, <1>7, FS_CardinalityType
<1>9. Slots = Cardinality(S) /\ ActiveNodes = Cardinality(A) /\ Slots' = Cardinality(S1) /\ ActiveNodes' = Cardinality(A1)
    BY <1>1, <1>2, <1>3, <1>4 DEF Slots, ActiveNodes
<1>10. Cardinality(S) <= RunParallel /\ Cardinality(A) <= GraphParallel
    BY <1>9 DEF Capacity
<1>11. RunParallel \in Nat /\ GraphParallel \in Nat
    BY CortexConstants
<1>12. Cardinality(S1) <= RunParallel /\ Cardinality(A1) <= GraphParallel
    BY <1>7, <1>8, <1>10, <1>11
<1> QED
    BY <1>9, <1>12 DEF Capacity

\* One Task takes a slot and runs, within both limits.
LEMMA CountsGrow ==
    ASSUME Capacity, NEW c \in Tasks, task[c].slot \/ Slots < RunParallel,
           c \in GraphTasks => ActiveNodes < GraphParallel,
           \A t \in Tasks \ {c} : task'[t].slot = task[t].slot /\ task'[t].state = task[t].state
    PROVE  Capacity'
<1>1. PICK S : S = {t \in Tasks : task[t].slot}
    OBVIOUS
<1>2. PICK S1 : S1 = {t \in Tasks : task'[t].slot}
    OBVIOUS
<1>3. PICK A : A = {t \in GraphTasks : task[t].state = "running"}
    OBVIOUS
<1>4. PICK A1 : A1 = {t \in GraphTasks : task'[t].state = "running"}
    OBVIOUS
<1>5. /\ S \subseteq Tasks /\ A \subseteq Tasks
      /\ S1 \subseteq S \union {c} /\ A1 \subseteq A \union {c}
      /\ c \in S => S1 \subseteq S
      /\ c \notin GraphTasks => A1 \subseteq A
    BY <1>1, <1>2, <1>3, <1>4, TaskNames
<1>6. IsFiniteSet(S) /\ IsFiniteSet(A)
    BY <1>5, TaskNames, FS_Subset
<1>7. /\ IsFiniteSet(S \union {c}) /\ Cardinality(S \union {c}) <= Cardinality(S) + 1
      /\ IsFiniteSet(A \union {c}) /\ Cardinality(A \union {c}) <= Cardinality(A) + 1
      /\ Cardinality(S) \in Nat /\ Cardinality(A) \in Nat
      /\ Cardinality(S \union {c}) \in Nat /\ Cardinality(A \union {c}) \in Nat
  <2>1. ASSUME NEW X, IsFiniteSet(X)
        PROVE  /\ IsFiniteSet(X \union {c}) /\ Cardinality(X \union {c}) <= Cardinality(X) + 1
               /\ Cardinality(X) \in Nat /\ Cardinality(X \union {c}) \in Nat
    <3>1. IsFiniteSet(X \union {c}) /\ Cardinality(X) \in Nat
      BY <2>1, FS_AddElement, FS_CardinalityType
    <3>2. Cardinality(X \union {c}) = IF c \in X THEN Cardinality(X) ELSE Cardinality(X) + 1
      BY <2>1, FS_AddElement
    <3> QED
      BY <3>1, <3>2
  <2> QED
    BY <1>6, <2>1
<1>8. /\ IsFiniteSet(S1) /\ Cardinality(S1) <= Cardinality(S \union {c})
      /\ c \in S => Cardinality(S1) <= Cardinality(S)
      /\ IsFiniteSet(A1) /\ Cardinality(A1) <= Cardinality(A \union {c})
      /\ c \notin GraphTasks => Cardinality(A1) <= Cardinality(A)
    BY <1>5, <1>6, <1>7, FS_Subset
<1>9. Cardinality(S1) \in Nat /\ Cardinality(A1) \in Nat
    BY <1>8, FS_CardinalityType
<1>10. Slots = Cardinality(S) /\ ActiveNodes = Cardinality(A) /\ Slots' = Cardinality(S1) /\ ActiveNodes' = Cardinality(A1)
    BY <1>1, <1>2, <1>3, <1>4 DEF Slots, ActiveNodes
<1>11. /\ Cardinality(S) <= RunParallel /\ Cardinality(A) <= GraphParallel
       /\ c \in S \/ Cardinality(S) < RunParallel
       /\ c \in GraphTasks => Cardinality(A) < GraphParallel
    BY <1>1, <1>10 DEF Capacity
<1>12. RunParallel \in Nat /\ GraphParallel \in Nat
    BY CortexConstants
<1>13. Cardinality(S1) <= RunParallel
    BY <1>7, <1>8, <1>9, <1>11, <1>12
<1>14. Cardinality(A1) <= GraphParallel
    BY <1>7, <1>8, <1>9, <1>11, <1>12
<1> QED
    BY <1>10, <1>13, <1>14 DEF Capacity

-----------------------------------------------------------------------------
(* The initial states                                                      *)

LEMMA CortexInitInv == CortexInit => CortexInv
<1> SUFFICES ASSUME CortexInit PROVE CortexInv
    OBVIOUS
<1>1. /\ NoTask \in TaskRecords /\ NoTask.state = "absent" /\ NoTask.session = "none" /\ ~NoTask.slot
      /\ NoTask.role = "none"
    BY DEF NoTask, TaskRecords, TaskStates
<1>2. NoAttempt \in AttemptRecords /\ NoAttempt.state = "none" /\ NoAttempt.holder = "none"
    BY DEF NoAttempt, AttemptRecords, AttemptStates
<1>3. IdleLane \in Lanes /\ IdleLane.pc = "idle"
    BY DEF IdleLane, Lanes, LanePcs, LaneSteps
<1>4. /\ \A t \in Tasks : task[t] = NoTask /\ attempt[t] = NoAttempt /\ turn[t] = "none"
      /\ run = "none" /\ intake = "none" /\ cancel = "none" /\ graph = [schedule |-> "none", round |-> 0, join |-> "none"]
      /\ \A w \in Workers : worker[w] = IdleLane
    BY DEF CortexInit
<1>5. graph \in [schedule : {"none", "open", "closed"}, round : 0..MaxRounds,
                 join : {"none", "unresolved", "ready", "failed"}]
    BY <1>4, CortexConstants
<1>6. RuntimeTypeOK
  <2>1. task \in [Tasks -> TaskRecords] /\ attempt \in [Tasks -> AttemptRecords] /\ worker \in [Workers -> Lanes]
    BY <1>1, <1>2, <1>3 DEF CortexInit
  <2>2. budget \in [retries : Nat, calls : Nat] /\ crashes \in 0..MaxCrashes
    BY CortexConstants DEF CortexInit
  <2>3. clock \in [deadline : {"far", "near", "passed"}, authority : BOOLEAN]
    BY DEF CortexInit
  <2> QED
    BY <1>5, <2>1, <2>2, <2>3 DEF CortexInit, RuntimeTypeOK
<1>7. \A t \in Tasks : TaskFact(t)
    BY <1>1, <1>2, <1>4 DEF TaskFact, AttemptOpen, TurnOpen, Unresolved, Over, TaskOver
<1>8. RunFact /\ ActsFact /\ ParkedFact
    BY <1>1, <1>4, TaskNames DEF RunFact, ActsFact, ParkedFact, RootActs, RootParked, NoGraph, RunOver, TaskOver
<1>9. \A w \in Workers : FoundFact(w) /\ HoldFact(w)
    BY <1>3, <1>4 DEF FoundFact, HoldFact
<1>10. Capacity
  <2>1. {t \in Tasks : task[t].slot} = {} /\ {t \in GraphTasks : task[t].state = "running"} = {}
    BY <1>1, <1>4, TaskNames
  <2>2. Slots = 0 /\ ActiveNodes = 0
    BY <2>1, FS_EmptySet DEF Slots, ActiveNodes
  <2>3. RunParallel \in Nat /\ GraphParallel \in Nat
    BY CortexConstants
  <2> QED
    BY <2>2, <2>3 DEF Capacity
<1> QED
    BY <1>6, <1>7, <1>8, <1>9, <1>10 DEF CortexInv

-----------------------------------------------------------------------------
(* What one step leaves alone                                              *)

\* A lane keeps what it knows while others work.
LEMMA LaneKept ==
    ASSUME CortexInv, NEW w \in Workers, worker'[w] = worker[w],
           \A t \in Tasks : attempt'[t].holder = w /\ t = worker[w].task =>
               /\ attempt[t].holder = w /\ task'[t].role = task[t].role
               /\ turn'[t] = "unknown" => turn[t] = "unknown",
           task'[Root].gen >= task[Root].gen,
           task'[Root].gen = task[Root].gen => task'[Root].role = task[Root].role \/ task[Root].role = "none",
           task'[Root].gen \in Nat
    PROVE  FoundFact(w)' /\ HoldFact(w)'
<1>1. FoundFact(w) /\ HoldFact(w) /\ worker[w].gen \in Nat /\ task[Root].gen \in Nat
    BY TaskNames DEF CortexInv, RuntimeTypeOK, Lanes, TaskRecords
<1>2. FoundFact(w)'
    BY <1>1 DEF FoundFact, Roles
<1>3. HoldFact(w)'
  <2>1. CASE worker[w].pc \in {"idle", "found"}
    BY <2>1 DEF HoldFact
  <2>2. CASE worker[w].pc \notin {"idle", "found"}
    <3>1. PICK t : t = worker[w].task
      OBVIOUS
    <3>2. t \in Tasks
      BY <1>1, <2>2, <3>1 DEF HoldFact
    <3>3. CASE attempt'[t].holder = w
      <4>1. /\ attempt[t].holder = w /\ task'[t].role = task[t].role
            /\ turn'[t] = "unknown" => turn[t] = "unknown"
        BY <3>1, <3>2, <3>3
      <4> QED
        BY <1>1, <2>2, <3>1, <3>2, <4>1 DEF HoldFact
    <3>4. CASE attempt'[t].holder # w
      BY <3>1, <3>2, <3>4 DEF HoldFact
    <3> QED
      BY <3>3, <3>4
  <2> QED
    BY <2>1, <2>2
<1> QED
    BY <1>2, <1>3

\* A step that moves no Task, no Run and no graph.
LEMMA TreeKept ==
    ASSUME CortexInv, UNCHANGED <<run, task, graph, intake, cancel>>
    PROVE  RunFact' /\ ActsFact' /\ ParkedFact' /\ Capacity'
<1>1. RunFact'
    BY DEF CortexInv, RunFact, NoGraph, OthersOver, Over
<1>2. ActsFact'
    BY DEF CortexInv, ActsFact, RootActs, NoGraph, OthersOver, Over
<1>3. ParkedFact'
    BY DEF CortexInv, ParkedFact, RootParked, NoGraph, Over
<1>4. Capacity'
    BY DEF CortexInv, Capacity, Slots, ActiveNodes
<1> QED
    BY <1>1, <1>2, <1>3, <1>4

\* A lane moves on, and resolves the turn of the Attempt it holds at most.
LEMMA LaneMovesKeepsInv ==
    ASSUME CortexInv, NEW w \in Workers, NEW x \in Lanes, worker' = [worker EXCEPT ![w] = x],
           UNCHANGED <<run, task, attempt, graph, clock, intake, cancel, prep>>,
           budget' \in [retries : Nat, calls : Nat], crashes' \in 0..MaxCrashes,
           NEW v \in TurnOpen \union {"none", "result_committed", "failed", "canceled"}, NEW t \in Tasks,
           UNCHANGED turn \/ (turn' = [turn EXCEPT ![t] = v] /\ attempt[t].holder = w /\ attempt[t].state = "executing"),
           x.pc = "found" => FoundFact(w)', x.pc \notin {"idle", "found"} => HoldFact(w)'
    PROVE  CortexInv'
<1>0. RuntimeTypeOK
    BY DEF CortexInv
<1>1. /\ turn \in [Tasks -> TurnOpen \union {"none", "result_committed", "failed", "canceled"}]
      /\ worker \in [Workers -> Lanes]
    BY <1>0 DEF RuntimeTypeOK
<1>2. /\ turn' \in [Tasks -> TurnOpen \union {"none", "result_committed", "failed", "canceled"}]
      /\ worker' \in [Workers -> Lanes] /\ worker'[w] = x
      /\ \A u \in Workers \ {w} : worker'[u] = worker[u]
    BY <1>1
<1>3. RuntimeTypeOK'
    BY <1>0, <1>2 DEF RuntimeTypeOK
<1>4. ASSUME NEW u \in Tasks PROVE TaskFact(u)'
  <2>1. TaskFact(u)
    BY DEF CortexInv
  <2>2. turn'[u] = turn[u] \/ attempt[u].state = "executing"
    BY <1>1
  <2> QED
    BY <2>1, <2>2 DEF TaskFact, Over, Unresolved
<1>5. ASSUME NEW u \in Workers PROVE FoundFact(u)' /\ HoldFact(u)'
  <2>1. CASE u = w
    BY <1>2, <2>1 DEF FoundFact, HoldFact
  <2>2. CASE u # w
    <3>1. worker'[u] = worker[u] /\ task[Root].gen \in Nat
      BY <1>0, <1>2, <2>2, TaskNames DEF RuntimeTypeOK, TaskRecords
    <3>2. \A q \in Tasks : attempt'[q].holder = u => turn'[q] = turn[q]
      BY <1>1, <2>2
    <3> QED
      BY <3>1, <3>2, LaneKept
  <2> QED
    BY <2>1, <2>2
<1> QED
    BY <1>3, <1>4, <1>5, TreeKept DEF CortexInv

-----------------------------------------------------------------------------
(* The commands that only move a lane, or the turn of its Attempt          *)

LEMMA GotoLane ==
    ASSUME CortexInv, NEW w \in Workers, NEW p \in LanePcs, Goto(w, p)
    PROVE  \E x \in Lanes : /\ worker' = [worker EXCEPT ![w] = x] /\ x.pc = p
                            /\ x.task = worker[w].task /\ x.gen = worker[w].gen /\ x.step = worker[w].step
<1>1. worker[w] \in Lanes
  BY DEF CortexInv, RuntimeTypeOK
<1>2. PICK x : x = [worker[w] EXCEPT !.pc = p]
  OBVIOUS
<1>3. /\ x \in Lanes /\ x.pc = p /\ x.task = worker[w].task /\ x.gen = worker[w].gen
      /\ x.step = worker[w].step
  BY <1>1, <1>2 DEF Lanes
<1>4. worker' = [worker EXCEPT ![w] = x]
  BY <1>2 DEF Goto
<1> QED
  BY <1>3, <1>4

LEMMA IdleLaneType == IdleLane \in Lanes /\ IdleLane.pc = "idle"
BY DEF IdleLane, Lanes, LanePcs, LaneSteps

LEMMA PcNames ==
    /\ CallOutcomes \subseteq LanePcs /\ Calling \subseteq LanePcs /\ CallOutcomes \subseteq Calling
    /\ {"idle", "found", "claimed", "turn", "calling", "recover", "fail", "act"} \subseteq LanePcs
    /\ "idle" \notin Calling /\ "found" \notin Calling /\ "claimed" \notin Calling /\ "turn" \notin Calling
    /\ "recover" \notin Calling /\ "fail" \notin Calling /\ "act" \notin Calling
BY DEF CallOutcomes, Calling, LanePcs

\* Nothing but the lane moves, and it drops its work.
LEMMA DropKeepsInv ==
    ASSUME CortexInv, NEW w \in Workers, GoIdle(w), crashes' \in 0..MaxCrashes,
           UNCHANGED <<run, task, attempt, turn, graph, budget, clock, intake, cancel, prep>>
    PROVE  CortexInv'
<1>1. budget' \in [retries : Nat, calls : Nat]
  BY DEF CortexInv, RuntimeTypeOK
<1>2. Root \in Tasks /\ "none" \in TurnOpen \union {"none", "result_committed", "failed", "canceled"}
  BY TaskNames
<1> QED
  BY <1>1, <1>2, IdleLaneType, LaneMovesKeepsInv DEF GoIdle

LEMMA NextTaskKeepsInv ==
    ASSUME CortexInv, NEW w \in Workers, NEW t \in Tasks, NextTask(w, t)
    PROVE  CortexInv'
<1>1. task[t] \in TaskRecords /\ TaskFact(t)
  BY DEF CortexInv, RuntimeTypeOK
<1>2. task[t].state # "absent"
  BY DEF NextTask, Discoverable, Recoverable
<1>3. PICK x : x = [pc |-> "found", task |-> t, gen |-> task[t].gen, step |-> task[t].role]
  OBVIOUS
<1>4. task[t].role \in Roles /\ task[t].gen \in Nat
  BY <1>1, <1>2 DEF TaskFact, TaskRecords
<1>5. x \in Lanes /\ x.pc = "found" /\ x.task = t /\ x.gen = task[t].gen /\ x.step = task[t].role
  BY <1>3, <1>4 DEF Lanes, LanePcs, LaneSteps
<1>6. worker' = [worker EXCEPT ![w] = x]
  BY <1>3 DEF NextTask
<1>7. UNCHANGED <<run, task, attempt, turn, graph, budget, clock, intake, cancel, prep, crashes>>
  BY DEF NextTask
<1>8. worker'[w] = x
  BY <1>6 DEF CortexInv, RuntimeTypeOK
<1>9. FoundFact(w)'
  BY <1>4, <1>5, <1>7, <1>8, TaskNames DEF FoundFact
<1>10. /\ budget' \in [retries : Nat, calls : Nat] /\ crashes' \in 0..MaxCrashes
       /\ "none" \in TurnOpen \union {"none", "result_committed", "failed", "canceled"}
  BY <1>7 DEF CortexInv, RuntimeTypeOK
<1> QED
  BY <1>5, <1>6, <1>7, <1>9, <1>10, LaneMovesKeepsInv

\* A lane goes on with the same Task and step and perhaps resolves its turn.
LEMMA LaneGoesOn ==
    ASSUME CortexInv, NEW w \in Workers, NEW p \in LanePcs, Goto(w, p),
           worker[w].pc \notin {"idle", "found"}, p \notin {"idle", "found", "claimed"},
           p \in {"turn"} \union Calling => worker[w].pc \in {"turn"} \union Calling,
           UNCHANGED <<run, task, attempt, graph, clock, intake, cancel, prep, crashes>>,
           budget' \in [retries : Nat, calls : Nat],
           NEW v \in TurnOpen \union {"none", "result_committed", "failed", "canceled"}, NEW t, t = worker[w].task,
           \/ UNCHANGED turn /\ (p \in Calling => worker[w].pc \in Calling)
           \/ /\ turn' = [turn EXCEPT ![t] = v] /\ v # "unknown"
              /\ attempt[t].holder = w /\ attempt[t].state = "executing"
    PROVE  CortexInv'
<1>1. PICK x \in Lanes : /\ worker' = [worker EXCEPT ![w] = x] /\ x.pc = p
                         /\ x.task = worker[w].task /\ x.gen = worker[w].gen /\ x.step = worker[w].step
  BY GotoLane
<1>2. worker'[w] = x /\ turn \in [Tasks -> TurnOpen \union {"none", "result_committed", "failed", "canceled"}]
  BY <1>1 DEF CortexInv, RuntimeTypeOK
<1>3. HoldFact(w) /\ t \in Tasks
  BY DEF CortexInv, HoldFact
<1>4. /\ p \in Calling /\ attempt[t].holder = w => turn'[t] # "unknown"
  <2>1. CASE UNCHANGED turn /\ (p \in Calling => worker[w].pc \in Calling)
    BY <1>3, <2>1 DEF HoldFact
  <2>2. CASE turn' = [turn EXCEPT ![t] = v] /\ v # "unknown"
    BY <1>2, <1>3, <2>2
  <2> QED
    BY <2>1, <2>2
<1>5. HoldFact(w)'
  BY <1>1, <1>2, <1>3, <1>4 DEF HoldFact
<1>6. crashes' \in 0..MaxCrashes
  BY DEF CortexInv, RuntimeTypeOK
<1>7. UNCHANGED turn \/ (turn' = [turn EXCEPT ![t] = v] /\ attempt[t].holder = w /\ attempt[t].state = "executing")
  OBVIOUS
<1>8. x.pc # "found" /\ worker' = [worker EXCEPT ![w] = x] /\ t \in Tasks
  BY <1>1, <1>3
<1>9. UNCHANGED <<run, task, attempt, graph, clock, intake, cancel, prep>>
  OBVIOUS
<1>10. CASE UNCHANGED turn
  BY <1>5, <1>6, <1>8, <1>9, <1>10, LaneMovesKeepsInv
<1>11. CASE turn' = [turn EXCEPT ![t] = v] /\ attempt[t].holder = w /\ attempt[t].state = "executing"
  BY ZenonT(60), <1>5, <1>6, <1>8, <1>9, <1>11, LaneMovesKeepsInv
<1> QED
  BY <1>7, <1>10, <1>11

LEMMA ProviderReturnsKeepsInv ==
    ASSUME CortexInv, NEW w \in Workers, ProviderReturns(w)
    PROVE  CortexInv'
<1>1. PICK p \in CallOutcomes : Goto(w, p)
  BY DEF ProviderReturns
<1>2. p \in LanePcs /\ p \notin {"idle", "found", "claimed"} /\ p \in Calling
  BY PcNames DEF CallOutcomes
<1>3. /\ UNCHANGED <<run, task, attempt, turn, graph, budget, clock, intake, cancel, prep, crashes>>
      /\ worker[w].pc = "calling" /\ worker[w].pc \in Calling /\ worker[w].pc \notin {"idle", "found"}
      /\ budget' \in [retries : Nat, calls : Nat]
      /\ "none" \in TurnOpen \union {"none", "result_committed", "failed", "canceled"}
  BY DEF ProviderReturns, Calling, CortexInv, RuntimeTypeOK
<1> QED
  BY <1>1, <1>2, <1>3, LaneGoesOn

LEMMA AdmissionFailsKeepsInv ==
    ASSUME CortexInv, NEW w \in Workers, AdmissionFails(w)
    PROVE  CortexInv'
<1>1. Goto(w, "fail") /\ "fail" \in LanePcs /\ "fail" \notin {"idle", "found", "claimed"}
      /\ "fail" \notin {"turn"} \union Calling
  BY PcNames DEF AdmissionFails
<1>2. /\ UNCHANGED <<run, task, attempt, turn, graph, budget, clock, intake, cancel, prep, crashes>>
      /\ worker[w].pc \notin {"idle", "found"}
      /\ budget' \in [retries : Nat, calls : Nat]
      /\ "none" \in TurnOpen \union {"none", "result_committed", "failed", "canceled"}
  BY DEF AdmissionFails, CortexInv, RuntimeTypeOK
<1> QED
  BY <1>1, <1>2, LaneGoesOn

LEMMA ResolveFailureKeepsInv ==
    ASSUME CortexInv, NEW w \in Workers, ResolveFailure(w)
    PROVE  CortexInv'
<1> DEFINE t == worker[w].task
<1>1. Goto(w, "fail") /\ "fail" \in LanePcs /\ "fail" \notin {"idle", "found", "claimed"}
      /\ "fail" \notin {"turn"} \union Calling
  BY PcNames DEF ResolveFailure
<1>2. /\ UNCHANGED <<run, task, attempt, graph, budget, clock, intake, cancel, prep, crashes>>
      /\ worker[w].pc \notin {"idle", "found"}
      /\ budget' \in [retries : Nat, calls : Nat]
      /\ "failed" \in TurnOpen \union {"none", "result_committed", "failed", "canceled"}
  BY DEF ResolveFailure, CortexInv, RuntimeTypeOK
<1>3. turn' = [turn EXCEPT ![t] = "failed"] /\ attempt[t].holder = w /\ attempt[t].state = "executing"
  BY DEF ResolveFailure, CanResolve, Fenced, Holds
<1> QED
  BY <1>1, <1>2, <1>3, LaneGoesOn

LEMMA DispatchModelCallKeepsInv ==
    ASSUME CortexInv, NEW w \in Workers, DispatchModelCall(w)
    PROVE  CortexInv'
<1> DEFINE t == worker[w].task
<1>1. Goto(w, "calling") /\ "calling" \in LanePcs /\ "calling" \notin {"idle", "found", "claimed"}
  BY PcNames DEF DispatchModelCall
<1>2. /\ UNCHANGED <<run, task, attempt, graph, clock, intake, cancel, prep, crashes>>
      /\ worker[w].pc = "turn" /\ worker[w].pc \notin {"idle", "found"}
      /\ "dispatched" \in TurnOpen \union {"none", "result_committed", "failed", "canceled"}
  BY DEF DispatchModelCall, TurnOpen
<1>3. turn' = [turn EXCEPT ![t] = "dispatched"] /\ attempt[t].holder = w /\ attempt[t].state = "executing"
  BY DEF DispatchModelCall, CanDispatch, Fenced, Holds
<1>4. budget' \in [retries : Nat, calls : Nat]
  <2>1. budget \in [retries : Nat, calls : Nat] /\ budget.calls > 0 /\ budget' = [budget EXCEPT !.calls = @ - 1]
    BY DEF DispatchModelCall, CanDispatch, CortexInv, RuntimeTypeOK
  <2>2. budget.calls - 1 \in Nat
    BY <2>1
  <2> QED
    BY <2>1, <2>2
<1> QED
  BY <1>1, <1>2, <1>3, <1>4, LaneGoesOn

LEMMA MarkUnknownKeepsInv ==
    ASSUME CortexInv, NEW w \in Workers, MarkUnknown(w)
    PROVE  CortexInv'
<1> DEFINE t == worker[w].task
<1>1. /\ UNCHANGED <<run, task, attempt, graph, budget, clock, intake, cancel, prep, crashes>>
      /\ budget' \in [retries : Nat, calls : Nat] /\ crashes' \in 0..MaxCrashes
      /\ "unknown" \in TurnOpen \union {"none", "result_committed", "failed", "canceled"}
      /\ worker' = [worker EXCEPT ![w] = IdleLane]
  BY DEF MarkUnknown, GoIdle, CortexInv, RuntimeTypeOK, TurnOpen
<1>2. turn' = [turn EXCEPT ![t] = "unknown"] /\ attempt[t].holder = w /\ turn[t] = "dispatched"
  BY DEF MarkUnknown, Fenced, Holds
<1>3. t \in Tasks
  BY DEF MarkUnknown, CortexInv, HoldFact
<1>4. attempt[t].state = "executing"
  BY <1>2, <1>3 DEF CortexInv, TaskFact, Unresolved, TurnOpen
<1> QED
  BY <1>1, <1>2, <1>3, <1>4, IdleLaneType, LaneMovesKeepsInv

\* A lane that holds its Attempt takes another step of the same role.
LEMMA ScoutRejectedKeepsInv ==
    ASSUME CortexInv, NEW w \in Workers, ScoutRejected(w)
    PROVE  CortexInv'
<1> DEFINE t == worker[w].task
<1>1. worker[w] \in Lanes /\ worker[w].pc = "act" /\ worker[w].step = "scout" /\ HoldFact(w)
  BY DEF ScoutRejected, CortexInv, RuntimeTypeOK
<1>2. PICK y : y = [worker[w] EXCEPT !.pc = "turn"]
  OBVIOUS
<1>3. y \in Lanes /\ y.pc = "turn" /\ y.task = t
  BY <1>1, <1>2, PcNames DEF Lanes
<1>4. PICK x : x = [y EXCEPT !.step = "desk"]
  OBVIOUS
<1>5. x \in Lanes /\ x.pc = "turn" /\ x.task = t /\ x.step = "desk"
  BY <1>3, <1>4 DEF Lanes, LaneSteps
<1>6. worker' = [worker EXCEPT ![w] = x]
  BY <1>2, <1>4 DEF ScoutRejected
<1>7. /\ UNCHANGED <<run, task, attempt, turn, graph, budget, clock, intake, cancel, prep, crashes>>
      /\ budget' \in [retries : Nat, calls : Nat] /\ crashes' \in 0..MaxCrashes
      /\ "none" \in TurnOpen \union {"none", "result_committed", "failed", "canceled"}
  BY DEF ScoutRejected, CortexInv, RuntimeTypeOK
<1>8. worker'[w] = x
  BY <1>6 DEF CortexInv, RuntimeTypeOK
<1>9. t \in Tasks
  BY <1>1 DEF HoldFact
<1>10. attempt[t].holder = w /\ t = Root => "desk" \in RootSteps[task[Root].role]
  <2> SUFFICES ASSUME attempt[t].holder = w, t = Root
               PROVE  "desk" \in RootSteps[task[Root].role]
    OBVIOUS
  <2>1. "scout" \in RootSteps[task[Root].role]
    BY <1>1 DEF HoldFact
  <2>2. task[Root].role \in {"intent", "desk", "round_planner"}
    <3>1. TaskFact(Root) /\ ActsFact
      BY TaskNames DEF CortexInv
    <3>2. attempt[Root].state \in AttemptOpen
      <4>1. Root # "none" /\ w # "none"
        BY CortexConstants DEF Root
      <4> QED
        BY <3>1, <4>1 DEF TaskFact
    <3> QED
      BY <3>1, <3>2 DEF TaskFact, ActsFact, RootActs
  <2> QED
    BY <2>1, <2>2, RootTurns
<1>11. HoldFact(w)'
  <2>1. "desk" \in Purposes
    BY PurposeNames
  <2> QED
    BY <1>5, <1>7, <1>8, <1>9, <1>10, <2>1, PcNames DEF HoldFact
<1> QED
  BY <1>5, <1>6, <1>7, <1>9, <1>11, LaneMovesKeepsInv

\* A lane that holds a root Attempt is in a step of the role it acts in.
LEMMA RootHolder ==
    ASSUME CortexInv, NEW w \in Workers, attempt[Root].holder = w
    PROVE  /\ task[Root].state = "running" /\ RootActs
           /\ task[Root].role \in {"intent", "desk", "round_planner"}
<1>1. TaskFact(Root) /\ ActsFact /\ w # "none"
  BY TaskNames, CortexConstants DEF CortexInv
<1>2. task[Root].state = "running"
  BY <1>1 DEF TaskFact
<1> QED
  BY <1>1, <1>2 DEF ActsFact, RootActs

LEMMA ResolveModelCallKeepsInv ==
    ASSUME CortexInv, NEW w \in Workers, ResolveModelCall(w)
    PROVE  CortexInv'
<1> DEFINE t == worker[w].task
<1>1. worker[w] \in Lanes /\ worker[w].pc = "answered" /\ HoldFact(w) /\ CanResolve(w)
  BY DEF ResolveModelCall, CortexInv, RuntimeTypeOK
<1>2. /\ UNCHANGED <<run, task, attempt, graph, budget, clock, intake, cancel, prep, crashes>>
      /\ budget' \in [retries : Nat, calls : Nat] /\ crashes' \in 0..MaxCrashes
      /\ "result_committed" \in TurnOpen \union {"none", "result_committed", "failed", "canceled"}
  BY DEF ResolveModelCall, CortexInv, RuntimeTypeOK
<1>3. turn' = [turn EXCEPT ![t] = "result_committed"] /\ attempt[t].holder = w /\ attempt[t].state = "executing"
  BY DEF ResolveModelCall, CanResolve, Fenced, Holds
<1>4. t \in Tasks /\ worker[w].step \in Purposes
  BY <1>1, <1>3 DEF HoldFact, Calling
<1>5. PICK next \in AfterTurn[worker[w].step] \cap Choices :
         worker' = [worker EXCEPT ![w] =
                      IF next = "abandon" THEN IdleLane
                      ELSE [@ EXCEPT !.step = next,
                                     !.pc = IF next \in Purposes THEN "turn"
                                            ELSE IF next = "fail" THEN "fail" ELSE "act"]]
  BY DEF ResolveModelCall
<1>6. turn'[t] = "result_committed"
  BY <1>3, <1>4 DEF CortexInv, RuntimeTypeOK
<1>7. CASE next = "abandon"
  <2>1. worker' = [worker EXCEPT ![w] = IdleLane]
    BY <1>5, <1>7
  <2> QED
    BY <1>2, <1>3, <1>4, <2>1, IdleLaneType, LaneMovesKeepsInv
<1>8. CASE next # "abandon"
  <2>1. next \in LaneSteps
    BY <1>4, <1>5, <1>8, AfterTurns
  <2>2. PICK p : p = IF next \in Purposes THEN "turn" ELSE IF next = "fail" THEN "fail" ELSE "act"
    OBVIOUS
  <2>3. /\ p \in LanePcs /\ p \notin {"idle", "found", "claimed"} /\ p \notin Calling
        /\ p = "turn" => next \in Purposes
    BY <2>2, PcNames
  <2>4. PICK y : y = [worker[w] EXCEPT !.step = next]
    OBVIOUS
  <2>5. y \in Lanes /\ y.step = next /\ y.task = t
    BY <1>1, <2>1, <2>4 DEF Lanes
  <2>6. PICK x : x = [y EXCEPT !.pc = p]
    OBVIOUS
  <2>7. x \in Lanes /\ x.step = next /\ x.task = t /\ x.pc = p
    BY <2>3, <2>5, <2>6 DEF Lanes
  <2>8. worker' = [worker EXCEPT ![w] = x]
    BY <1>5, <1>8, <2>2, <2>4, <2>6
  <2>9. worker'[w] = x
    BY <2>8 DEF CortexInv, RuntimeTypeOK
  <2>10. t = Root => next \in RootSteps[task[Root].role]
    <3> SUFFICES ASSUME t = Root PROVE next \in RootSteps[task[Root].role]
      OBVIOUS
    <3>1. task[Root].role \in {"intent", "desk", "round_planner"}
      BY <1>3, RootHolder
    <3>2. worker[w].step \in RootSteps[task[Root].role]
      BY <1>1, <1>3 DEF HoldFact
    <3> QED
      BY <1>4, <1>5, <3>1, <3>2, RootTurns
  <2>11. HoldFact(w)'
    BY <1>2, <1>4, <2>3, <2>7, <2>9, <2>10 DEF HoldFact
  <2> QED
    BY <1>2, <1>3, <1>4, <2>3, <2>7, <2>8, <2>11, LaneMovesKeepsInv
<1> QED
  BY <1>7, <1>8

-----------------------------------------------------------------------------
(* Attempts                                                                *)

\* One Attempt changes while its Task stays as it is.
LEMMA AttemptMovesKeepsInv ==
    ASSUME CortexInv, NEW t \in Tasks, NEW a \in AttemptRecords, attempt' = [attempt EXCEPT ![t] = a],
           UNCHANGED <<run, task, graph, budget, clock, intake, cancel, prep, crashes>>,
           a.state \in AttemptOpen <=> attempt[t].state \in AttemptOpen,
           a.state = "result_committed" <=> attempt[t].state = "result_committed",
           a.holder # "none" <=> attempt[t].holder # "none",
           NEW v \in TurnOpen \union {"none", "result_committed", "failed", "canceled"},
           UNCHANGED turn \/ turn' = [turn EXCEPT ![t] = v], turn'[t] \in TurnOpen => a.state = "executing",
           worker' \in [Workers -> Lanes], NEW w \in Workers,
           turn'[t] = "unknown" => turn[t] = "unknown" \/ a.holder = w,
           a.holder = attempt[t].holder \/ a.holder = w,
           FoundFact(w)', HoldFact(w)', \A u \in Workers \ {w} : worker'[u] = worker[u]
    PROVE  CortexInv'
<1>0. RuntimeTypeOK
  BY DEF CortexInv
<1>1. attempt \in [Tasks -> AttemptRecords]
      /\ turn \in [Tasks -> TurnOpen \union {"none", "result_committed", "failed", "canceled"}]
  BY <1>0 DEF RuntimeTypeOK
<1>2. /\ attempt' \in [Tasks -> AttemptRecords] /\ attempt'[t] = a
      /\ turn' \in [Tasks -> TurnOpen \union {"none", "result_committed", "failed", "canceled"}]
      /\ \A u \in Tasks \ {t} : attempt'[u] = attempt[u] /\ turn'[u] = turn[u]
  BY <1>1
<1>3. RuntimeTypeOK'
  BY <1>0, <1>2 DEF RuntimeTypeOK
<1>4. ASSUME NEW u \in Tasks PROVE TaskFact(u)'
  <2>1. TaskFact(u)
    BY DEF CortexInv
  <2>2. CASE u = t
    BY <1>2, <2>1, <2>2 DEF TaskFact, Over, Unresolved
  <2>3. CASE u # t
    BY <1>2, <2>1, <2>3 DEF TaskFact, Over, Unresolved
  <2> QED
    BY <2>2, <2>3
<1>5. ASSUME NEW u \in Workers PROVE FoundFact(u)' /\ HoldFact(u)'
  <2>1. CASE u # w
    <3>1. worker'[u] = worker[u] /\ task[Root].gen \in Nat
      BY <1>0, <2>1, TaskNames DEF RuntimeTypeOK, TaskRecords
    <3>2. ASSUME NEW q \in Tasks, attempt'[q].holder = u
          PROVE  attempt[q].holder = u /\ (turn'[q] = "unknown" => turn[q] = "unknown")
      BY <1>2, <2>1, <3>2
    <3> QED
      BY <3>1, <3>2, LaneKept
  <2> QED
    BY <2>1
<1> QED
  BY <1>3, <1>4, <1>5, TreeKept DEF CortexInv

\* The lease of an Attempt, and nothing else of it.
LEMMA LeaseMovesKeepsInv ==
    ASSUME CortexInv, NEW t \in Tasks, NEW l \in 0..2, attempt' = [attempt EXCEPT ![t].lease = l],
           UNCHANGED <<run, task, turn, graph, budget, clock, intake, cancel, worker, prep, crashes>>
    PROVE  CortexInv'
<1>0. RuntimeTypeOK /\ TaskFact(t)
  BY DEF CortexInv
<1>1. attempt[t] \in AttemptRecords
  BY <1>0 DEF RuntimeTypeOK
<1>2. PICK a : a = [attempt[t] EXCEPT !.lease = l]
  OBVIOUS
<1>3. a \in AttemptRecords /\ a.state = attempt[t].state /\ a.holder = attempt[t].holder
  BY <1>1, <1>2 DEF AttemptRecords
<1>4. attempt' = [attempt EXCEPT ![t] = a]
  BY <1>2
<1>5. /\ attempt' \in [Tasks -> AttemptRecords]
      /\ \A u \in Tasks : attempt'[u].state = attempt[u].state /\ attempt'[u].holder = attempt[u].holder
  BY <1>0, <1>3, <1>4 DEF RuntimeTypeOK
<1>6. RuntimeTypeOK'
  BY <1>0, <1>5 DEF RuntimeTypeOK
<1>7. \A u \in Tasks : TaskFact(u)'
  BY <1>5 DEF CortexInv, TaskFact, Over, Unresolved
<1>8. ASSUME NEW u \in Workers PROVE FoundFact(u)' /\ HoldFact(u)'
  <2>1. worker'[u] = worker[u] /\ task[Root].gen \in Nat
    BY <1>0, TaskNames DEF RuntimeTypeOK, TaskRecords
  <2>2. \A q \in Tasks : attempt'[q].holder = attempt[q].holder /\ turn'[q] = turn[q]
    BY <1>5
  <2> QED
    BY <2>1, <2>2, LaneKept
<1> QED
  BY <1>6, <1>7, <1>8, TreeKept DEF CortexInv

LEMMA HeartbeatLoopKeepsInv ==
    ASSUME CortexInv, NEW w \in Workers, HeartbeatLoop(w)
    PROVE  CortexInv'
<1>1. worker[w].task \in Tasks
  BY DEF HeartbeatLoop, CortexInv, HoldFact
<1>2. /\ attempt' = [attempt EXCEPT ![worker[w].task].lease = 2] /\ 2 \in 0..2
      /\ UNCHANGED <<run, task, turn, graph, budget, clock, intake, cancel, worker, prep, crashes>>
  BY DEF HeartbeatLoop
<1> QED
  BY <1>1, <1>2, LeaseMovesKeepsInv

LEMMA LeaseAgesKeepsInv ==
    ASSUME CortexInv, NEW t \in Tasks, LeaseAges(t)
    PROVE  CortexInv'
<1>1. attempt[t].lease \in 0..2 /\ attempt[t].lease > 0
  BY DEF LeaseAges, CortexInv, RuntimeTypeOK, AttemptRecords
<1>2. PICK l : l = attempt[t].lease - 1
  OBVIOUS
<1>3. l \in 0..2
  BY <1>1, <1>2
<1>4. attempt' = [attempt EXCEPT ![t].lease = l]
  BY <1>2 DEF LeaseAges
<1>5. UNCHANGED <<run, task, turn, graph, budget, clock, intake, cancel, worker, prep, crashes>>
  BY DEF LeaseAges
<1> QED
  BY <1>3, <1>4, <1>5, LeaseMovesKeepsInv

LEMMA StartAttemptKeepsInv ==
    ASSUME CortexInv, NEW w \in Workers, StartAttempt(w)
    PROVE  CortexInv'
<1> DEFINE t == worker[w].task
<1>1. /\ worker[w] \in Lanes /\ worker[w].pc = "claimed" /\ HoldFact(w) /\ attempt[t].holder = w
      /\ attempt[t].state = "leased" /\ RuntimeTypeOK
  BY DEF StartAttempt, Fenced, Holds, CortexInv, RuntimeTypeOK
<1>2. t \in Tasks /\ worker[w].step \in Roles /\ TaskFact(t)
  BY <1>1 DEF HoldFact, CortexInv
<1>3. attempt[t] \in AttemptRecords /\ w # "none"
  BY <1>1, <1>2, CortexConstants DEF RuntimeTypeOK
<1>4. PICK a : a = [attempt[t] EXCEPT !.state = "executing"]
  OBVIOUS
<1>5. a \in AttemptRecords /\ a.state = "executing" /\ a.holder = w
  BY <1>1, <1>3, <1>4 DEF AttemptRecords, AttemptStates
<1>6. attempt' = [attempt EXCEPT ![t] = a]
  BY <1>4 DEF StartAttempt
<1>7. PICK f : f = FirstTurn[worker[w].step]
  OBVIOUS
<1>8. f \in Purposes /\ f \in LaneSteps
  BY <1>2, <1>7, FirstTurns
<1>9. PICK y : y = [worker[w] EXCEPT !.pc = "turn"]
  OBVIOUS
<1>10. y \in Lanes /\ y.pc = "turn" /\ y.task = t
  BY <1>1, <1>9, PcNames DEF Lanes
<1>11. PICK x : x = [y EXCEPT !.step = f]
  OBVIOUS
<1>12. x \in Lanes /\ x.pc = "turn" /\ x.task = t /\ x.step = f
  BY <1>8, <1>10, <1>11 DEF Lanes
<1>13. worker' = [worker EXCEPT ![w] = x]
  BY <1>7, <1>9, <1>11 DEF StartAttempt
<1>14. worker' \in [Workers -> Lanes] /\ worker'[w] = x /\ \A u \in Workers \ {w} : worker'[u] = worker[u]
  BY <1>1, <1>12, <1>13 DEF RuntimeTypeOK
<1>15. UNCHANGED <<run, task, turn, graph, budget, clock, intake, cancel, prep, crashes>>
  BY DEF StartAttempt
<1>16. t = Root => f \in RootSteps[task[Root].role]
  <2> SUFFICES ASSUME t = Root PROVE f \in RootSteps[task[Root].role]
    OBVIOUS
  <2>1. worker[w].step = task[Root].role /\ task[Root].role \in {"intent", "desk", "round_planner"}
    BY <1>1, RootHolder DEF HoldFact
  <2>2. task[Root].role \in RootSteps[task[Root].role]
    BY <1>1 , <2>1 DEF HoldFact
  <2> QED
    BY <1>7, <2>1, <2>2, RootTurns
<1>17. FoundFact(w)' /\ HoldFact(w)'
  BY <1>2, <1>8, <1>12, <1>14, <1>15, <1>16, PcNames DEF FoundFact, HoldFact
<1>18. /\ a.state \in AttemptOpen /\ attempt[t].state \in AttemptOpen /\ a.state # "result_committed"
       /\ attempt[t].state # "result_committed" /\ a.holder # "none" /\ attempt[t].holder # "none"
  BY <1>1, <1>3, <1>5 DEF AttemptOpen
<1>19. "none" \in TurnOpen \union {"none", "result_committed", "failed", "canceled"}
  OBVIOUS
<1> QED
  BY <1>1, <1>2, <1>5, <1>6, <1>14, <1>15, <1>17, <1>18, <1>19, AttemptMovesKeepsInv

-----------------------------------------------------------------------------
(* The frame of the commands that move Tasks                               *)

\* The Tasks of S move with their Attempts and Turns, the lanes of M with
\* what they know; what is left to show is how the tree hangs together.
LEMMA RecordsMove ==
    ASSUME CortexInv, RuntimeTypeOK', NEW S \in SUBSET Tasks, NEW M \in SUBSET Workers,
           \A u \in Tasks \ S : task'[u] = task[u] /\ attempt'[u] = attempt[u] /\ turn'[u] = turn[u],
           \A u \in S : TaskFact(u)',
           \A u \in S : \/ attempt'[u].holder \in M \union {"none"}
                        \/ /\ attempt'[u].holder = attempt[u].holder
                           /\ task'[u].role = task[u].role /\ turn'[u] = turn[u],
           \A m \in M : FoundFact(m)' /\ HoldFact(m)',
           \A u \in Workers \ M : worker'[u] = worker[u],
           task'[Root].gen >= task[Root].gen,
           task'[Root].gen = task[Root].gen => task'[Root].role = task[Root].role \/ task[Root].role = "none",
           RunFact', ActsFact', ParkedFact', Capacity'
    PROVE  CortexInv'
<1>1. ASSUME NEW u \in Tasks PROVE TaskFact(u)'
  <2>1. CASE u \in S
    BY <2>1
  <2>2. CASE u \notin S
    <3>1. TaskFact(u) /\ task'[u] = task[u] /\ attempt'[u] = attempt[u] /\ turn'[u] = turn[u]
      BY <2>2 DEF CortexInv
    <3> QED
      BY <3>1 DEF TaskFact, Over, Unresolved
  <2> QED
    BY <2>1, <2>2
<1>2. ASSUME NEW u \in Workers PROVE FoundFact(u)' /\ HoldFact(u)'
  <2>1. CASE u \in M
    BY <2>1
  <2>2. CASE u \notin M
    <3>1. worker'[u] = worker[u] /\ task'[Root].gen \in Nat /\ u # "none"
      BY <2>2, TaskNames, CortexConstants DEF RuntimeTypeOK, TaskRecords
    <3>2. ASSUME NEW q \in Tasks, attempt'[q].holder = u
          PROVE  attempt[q].holder = u /\ task'[q].role = task[q].role /\ turn'[q] = turn[q]
      <4>1. CASE q \in S
        BY <2>2, <3>1, <3>2, <4>1
      <4>2. CASE q \notin S
        BY <3>2, <4>2
      <4> QED
        BY <4>1, <4>2
    <3> QED
      BY <3>1, <3>2, LaneKept
  <2> QED
    BY <2>1, <2>2
<1> QED
  BY <1>1, <1>2 DEF CortexInv

\* No record moves; lanes may drop their work.
LEMMA QuietKeepsInv ==
    ASSUME CortexInv, RuntimeTypeOK', UNCHANGED <<run, task, attempt, turn, graph>>,
           run = "none" => UNCHANGED cancel,
           intake' \in {"none", "raw", "request"} <=> intake \in {"none", "raw", "request"},
           \A u \in Workers : worker'[u] = worker[u] \/ worker'[u] = IdleLane
    PROVE  CortexInv'
<1>1. /\ \A u \in Tasks : task'[u] = task[u] /\ attempt'[u] = attempt[u] /\ turn'[u] = turn[u]
      /\ task'[Root].gen >= task[Root].gen /\ task'[Root].role = task[Root].role
  BY TaskNames DEF CortexInv, RuntimeTypeOK, TaskRecords
<1>2. PICK M : M = {u \in Workers : worker'[u] = IdleLane}
  OBVIOUS
<1>3. /\ M \in SUBSET Workers /\ \A u \in Workers \ M : worker'[u] = worker[u]
      /\ \A m \in M : FoundFact(m)' /\ HoldFact(m)'
  BY <1>2, IdleLaneType DEF FoundFact, HoldFact
<1>4. RunFact' /\ ActsFact' /\ ParkedFact' /\ Capacity'
  <2>1. RunFact'
    BY DEF CortexInv, RunFact, NoGraph, OthersOver, Over
  <2>2. ActsFact'
    BY DEF CortexInv, ActsFact, RootActs, NoGraph, OthersOver, Over
  <2>3. ParkedFact'
    BY DEF CortexInv, ParkedFact, RootParked, NoGraph, Over
  <2>4. Capacity'
    BY DEF CortexInv, Capacity, Slots, ActiveNodes
  <2> QED
    BY <2>1, <2>2, <2>3, <2>4
<1>5. PICK S \in SUBSET Tasks : S = {}
  OBVIOUS
<1> QED
  BY <1>1, <1>3, <1>4, <1>5, RecordsMove

LEMMA DeniedKeepsInv ==
    ASSUME CortexInv, NEW w \in Workers, Denied(w) \/ ReadFails(w)
    PROVE  CortexInv'
<1>1. GoIdle(w) /\ UNCHANGED <<run, task, attempt, turn, graph, budget, clock, intake, cancel, prep>>
  BY DEF Denied, ReadFails
<1>2. crashes \in 0..MaxCrashes /\ MaxCrashes \in Nat
  BY CortexConstants DEF CortexInv, RuntimeTypeOK
<1>3. crashes' \in 0..MaxCrashes
  <2>1. CASE Denied(w)
    BY <1>2, <2>1 DEF Denied
  <2>2. CASE ReadFails(w)
    BY <1>2, <2>2 DEF ReadFails
  <2> QED
    BY <2>1, <2>2
<1> QED
  BY <1>1, <1>3, DropKeepsInv

LEMMA ClockKeepsInv ==
    ASSUME CortexInv, DeadlineNears \/ AuthorityRevoked \/ ControlDies \/ CommitRawInput \/ SubmitUserRequest
    PROVE  CortexInv'
<1>1. /\ UNCHANGED <<run, task, attempt, turn, graph, budget, cancel, worker>>
      /\ UNCHANGED <<crashes, prep>> \/ ControlDies
  BY DEF DeadlineNears, AuthorityRevoked, ControlDies, CommitRawInput, SubmitUserRequest
<1>2. RuntimeTypeOK /\ MaxCrashes \in Nat
  BY CortexConstants DEF CortexInv
<1>3. clock' \in [deadline : {"far", "near", "passed"}, authority : BOOLEAN]
  <2>1. CASE DeadlineNears
    <3>1. PICK d \in {"far", "near", "passed"} : d = IF clock.deadline = "far" THEN "near" ELSE "passed"
      OBVIOUS
    <3>2. clock' = [clock EXCEPT !.deadline = d]
      BY <2>1, <3>1 DEF DeadlineNears
    <3> QED
      BY <1>2, <3>1, <3>2 DEF RuntimeTypeOK
  <2>2. CASE AuthorityRevoked
    BY <1>2, <2>2 DEF AuthorityRevoked, RuntimeTypeOK
  <2>3. CASE UNCHANGED clock
    BY <1>2, <2>3 DEF RuntimeTypeOK
  <2> QED
    BY <2>1, <2>2, <2>3 DEF ControlDies, CommitRawInput, SubmitUserRequest
<1>4. /\ intake' \in {"none", "raw", "request", "admitted", "prepared"}
      /\ intake' \in {"none", "raw", "request"} <=> intake \in {"none", "raw", "request"}
  BY <1>2 DEF DeadlineNears, AuthorityRevoked, ControlDies, CommitRawInput, SubmitUserRequest, RuntimeTypeOK
<1>5. prep' \subseteq GraphTasks /\ crashes' \in 0..MaxCrashes
  BY <1>1, <1>2 DEF ControlDies, RuntimeTypeOK
<1>6. RuntimeTypeOK'
  BY <1>1, <1>2, <1>3, <1>4, <1>5 DEF RuntimeTypeOK
<1> QED
  BY <1>1, <1>4, <1>6, QuietKeepsInv

LEMMA WorkerDiesKeepsInv ==
    ASSUME CortexInv, NEW p, WorkerDies(p)
    PROVE  CortexInv'
<1>1. /\ UNCHANGED <<run, task, attempt, turn, graph, budget, clock, intake, cancel, prep>>
      /\ crashes < MaxCrashes /\ crashes' = crashes + 1
      /\ worker' = [w \in Workers |-> IF Process[w] = p THEN IdleLane ELSE worker[w]]
  BY DEF WorkerDies
<1>2. RuntimeTypeOK /\ MaxCrashes \in Nat
  BY CortexConstants DEF CortexInv
<1>3. /\ worker' \in [Workers -> Lanes]
      /\ \A u \in Workers : worker'[u] = worker[u] \/ worker'[u] = IdleLane
  BY <1>1, <1>2, IdleLaneType DEF RuntimeTypeOK
<1>4. crashes' \in 0..MaxCrashes
  BY <1>1, <1>2 DEF RuntimeTypeOK
<1>5. RuntimeTypeOK'
  BY <1>1, <1>2, <1>3, <1>4 DEF RuntimeTypeOK
<1> QED
  BY <1>1, <1>3, <1>5, QuietKeepsInv

LEMMA ReclaimAttemptKeepsInv ==
    ASSUME CortexInv, NEW w \in Workers, ReclaimAttempt(w)
    PROVE  CortexInv'
<1> DEFINE t == worker[w].task
<1>1. worker[w].pc = "found" /\ FoundFact(w) /\ RuntimeTypeOK
  BY DEF ReclaimAttempt, CortexInv
<1>2. t \in Tasks /\ worker[w].step \in Roles /\ TaskFact(t) /\ attempt[t] \in AttemptRecords /\ w # "none"
  BY <1>1, CortexConstants DEF FoundFact, CortexInv, RuntimeTypeOK
<1>3. /\ attempt[t].state = "executing" /\ worker[w].gen = task[t].gen /\ task[t].state = "running"
  BY DEF ReclaimAttempt, ReclaimAllowed, Recoverable
<1>4. PICK b : b = [attempt[t] EXCEPT !.holder = w]
  OBVIOUS
<1>5. b \in AttemptRecords /\ b.state = "executing" /\ b.holder = w
  BY <1>2, <1>3, <1>4 DEF AttemptRecords
<1>6. PICK a : a = [b EXCEPT !.lease = 2]
  OBVIOUS
<1>7. a \in AttemptRecords /\ a.state = "executing" /\ a.holder = w
  BY <1>5, <1>6 DEF AttemptRecords
<1>8. attempt' = [attempt EXCEPT ![t] = a]
  BY <1>4, <1>6 DEF ReclaimAttempt
<1>9. PICK x \in Lanes : /\ worker' = [worker EXCEPT ![w] = x] /\ x.pc = "recover"
                         /\ x.task = worker[w].task /\ x.gen = worker[w].gen /\ x.step = worker[w].step
  <2>1. Goto(w, "recover") /\ "recover" \in LanePcs
    BY PcNames DEF ReclaimAttempt
  <2> QED
    BY <2>1, GotoLane
<1>10. worker' \in [Workers -> Lanes] /\ worker'[w] = x /\ \A u \in Workers \ {w} : worker'[u] = worker[u]
  BY <1>1, <1>9 DEF RuntimeTypeOK
<1>11. /\ UNCHANGED <<run, task, graph, budget, clock, intake, cancel, prep, crashes>>
       /\ turn' = [turn EXCEPT ![t] = "unknown"]
       /\ "unknown" \in TurnOpen \union {"none", "result_committed", "failed", "canceled"}
  BY DEF ReclaimAttempt, TurnOpen
<1>12. t = Root => worker[w].step \in RootSteps[task[Root].role]
  <2> SUFFICES ASSUME t = Root PROVE worker[w].step \in RootSteps[task[Root].role]
    OBVIOUS
  <2>1. worker[w].step = task[Root].role
    BY <1>1, <1>3 DEF FoundFact
  <2>2. task[Root].role \in {"intent", "desk", "round_planner"}
    BY <1>3 DEF CortexInv, ActsFact, RootActs
  <2> QED
    BY <2>1, <2>2 DEF RootSteps
<1>13. FoundFact(w)' /\ HoldFact(w)'
  BY <1>2, <1>9, <1>10, <1>11, <1>12, PcNames DEF FoundFact, HoldFact
<1>14. /\ a.state \in AttemptOpen /\ attempt[t].state \in AttemptOpen /\ a.state # "result_committed"
       /\ attempt[t].state # "result_committed" /\ a.holder # "none" /\ attempt[t].holder # "none"
  BY <1>2, <1>3, <1>7 DEF AttemptOpen, TaskFact
<1> QED
  BY <1>2, <1>7, <1>8, <1>10, <1>11, <1>13, <1>14, AttemptMovesKeepsInv

-----------------------------------------------------------------------------
(* Commands that move one Task                                             *)

\* A lane of the Run acts on its root, or its root is parked for it.
LEMMA LiveTask ==
    ASSUME CortexInv, run \in {"queued", "running", "waiting", "canceling"}, NEW t \in Tasks, t # Root,
           ~Over(t)
    PROVE  RootParked /\ ~RootActs
<1>1. RunFact /\ ActsFact
  BY DEF CortexInv
<1>2. ~RootActs
  BY <1>1 DEF ActsFact, OthersOver
<1>3. task[Root].state \notin TaskOver \union {"absent", "blocked", "ready", "running"}
  BY <1>1, <1>2 DEF RunFact, RunOver, RootActs
<1>4. task[Root].state \in TaskStates
  BY TaskNames DEF CortexInv, RuntimeTypeOK, TaskRecords
<1> QED
  BY <1>2, <1>3, <1>4 DEF RootActs, RootParked, TaskStates, TaskOver

\* One Task of S moves with its Attempt and Turn, and a lane that worked on it.
LEMMA OneTaskMoves ==
    ASSUME CortexInv, NEW t \in Tasks, NEW r \in TaskRecords, NEW a \in AttemptRecords,
           NEW v \in TurnOpen \union {"none", "result_committed", "failed", "canceled"},
           task' = [task EXCEPT ![t] = r], attempt' = [attempt EXCEPT ![t] = a],
           turn' = [turn EXCEPT ![t] = v],
           run' \in RunOver \union {"none", "queued", "running", "waiting", "canceling"},
           graph' \in [schedule : {"none", "open", "closed"}, round : 0..MaxRounds,
                       join : {"none", "unresolved", "ready", "failed"}],
           budget' \in [retries : Nat, calls : Nat], UNCHANGED <<clock, cancel, crashes>>,
           intake' \in {"none", "raw", "request", "admitted", "prepared"}, prep' \subseteq GraphTasks,
           worker' \in [Workers -> Lanes], NEW M \in SUBSET Workers,
           \A m \in M : FoundFact(m)' /\ HoldFact(m)', \A u \in Workers \ M : worker'[u] = worker[u],
           a.holder \in M \union {"none"} \/ (a = attempt[t] /\ v = turn[t] /\ r.role = task[t].role),
           r.gen >= task[t].gen, r.gen = task[t].gen => r.role = task[t].role \/ task[t].role = "none",
           TaskFact(t)', RunFact', ActsFact', ParkedFact', Capacity'
    PROVE  CortexInv'
<1>1. RuntimeTypeOK
  BY DEF CortexInv
<1>2. /\ task' \in [Tasks -> TaskRecords] /\ task'[t] = r
      /\ attempt' \in [Tasks -> AttemptRecords] /\ attempt'[t] = a
      /\ turn' \in [Tasks -> TurnOpen \union {"none", "result_committed", "failed", "canceled"}]
      /\ turn'[t] = v
      /\ \A u \in Tasks \ {t} : task'[u] = task[u] /\ attempt'[u] = attempt[u] /\ turn'[u] = turn[u]
  BY <1>1 DEF RuntimeTypeOK
<1>3. RuntimeTypeOK'
  BY <1>1, <1>2 DEF RuntimeTypeOK
<1>4. task[Root].gen \in Nat /\ Root \in Tasks
  BY <1>1, TaskNames DEF RuntimeTypeOK, TaskRecords
<1>5. /\ task'[Root].gen >= task[Root].gen
      /\ task'[Root].gen = task[Root].gen => task'[Root].role = task[Root].role \/ task[Root].role = "none"
  <2>1. CASE t = Root
    BY <1>2, <2>1
  <2>2. CASE t # Root
    BY <1>2, <1>4, <2>2
  <2> QED
    BY <2>1, <2>2
<1>6. PICK S \in SUBSET Tasks : S = {t}
  OBVIOUS
<1>7. /\ \A u \in Tasks \ S : task'[u] = task[u] /\ attempt'[u] = attempt[u] /\ turn'[u] = turn[u]
      /\ \A u \in S : TaskFact(u)'
      /\ \A u \in S : \/ attempt'[u].holder \in M \union {"none"}
                      \/ /\ attempt'[u].holder = attempt[u].holder
                         /\ task'[u].role = task[u].role /\ turn'[u] = turn[u]
  BY <1>2, <1>6
<1> QED
  BY ZenonT(60), <1>3, <1>5, <1>7, RecordsMove

LEMMA ClaimTaskKeepsInv ==
    ASSUME CortexInv, NEW w \in Workers, ClaimTask(w)
    PROVE  CortexInv'
<1>1. PICK t : t = worker[w].task
  OBVIOUS
<1>2. worker[w].pc = "found" /\ FoundFact(w) /\ RuntimeTypeOK /\ w # "none"
  BY CortexConstants DEF ClaimTask, CortexInv
<1>3. t \in Tasks /\ worker[w].step \in Roles /\ TaskFact(t)
  BY <1>1, <1>2 DEF FoundFact, CortexInv
<1>4. /\ task[t].state \in {"ready", "waiting"} /\ worker[w].gen = task[t].gen
      /\ run \in {"running", "waiting"} \/ (run = "queued" /\ t = Root)
      /\ task[t].session = "open"
      /\ task[t].slot \/ Slots < RunParallel
      /\ Scheduled(t)
  BY <1>1 DEF ClaimTask, ClaimAllowed
<1>5. PICK m : m = Moved(t, "running")
  OBVIOUS
<1>6. task \in [Tasks -> TaskRecords] /\ "running" \in TaskStates /\ task[t].gen \in Nat
  BY <1>2, <1>3 DEF RuntimeTypeOK, TaskStates, TaskRecords
<1>7. /\ m \in TaskRecords /\ m.state = "running" /\ m.session = "open" /\ m.gen = task[t].gen + 1
      /\ m.role = task[t].role
  BY <1>3, <1>4, <1>5, <1>6, MovedRecord
<1>8. PICK r : r = [m EXCEPT !.slot = TRUE]
  OBVIOUS
<1>9. /\ r \in TaskRecords /\ r.state = "running" /\ r.session = "open" /\ r.gen = task[t].gen + 1
      /\ r.role = task[t].role /\ r.slot
  BY <1>7, <1>8 DEF TaskRecords
<1>10. PICK a : a = [state |-> "leased", holder |-> w, lease |-> 2]
  OBVIOUS
<1>11. a \in AttemptRecords /\ a.state = "leased" /\ a.holder = w
  BY <1>10 DEF AttemptRecords, AttemptStates
<1>12. /\ task' = [task EXCEPT ![t] = r] /\ attempt' = [attempt EXCEPT ![t] = a]
       /\ turn' = [turn EXCEPT ![t] = "none"] /\ run' = "running"
       /\ UNCHANGED <<graph, budget, clock, intake, cancel, prep, crashes>>
  BY <1>1, <1>5, <1>8, <1>10 DEF ClaimTask
<1>13. PICK x \in Lanes : /\ worker' = [worker EXCEPT ![w] = x] /\ x.pc = "claimed"
                          /\ x.task = t /\ x.gen = worker[w].gen /\ x.step = worker[w].step
  <2>1. Goto(w, "claimed") /\ "claimed" \in LanePcs
    BY PcNames DEF ClaimTask
  <2> QED
    BY <1>1, <2>1, GotoLane
<1>14. worker' \in [Workers -> Lanes] /\ worker'[w] = x /\ \A u \in Workers \ {w} : worker'[u] = worker[u]
  BY <1>2, <1>13 DEF RuntimeTypeOK
<1>15. /\ task'[t] = r /\ attempt'[t] = a /\ turn'[t] = "none"
       /\ \A u \in Tasks \ {t} : task'[u] = task[u]
  BY <1>2, <1>3, <1>12 DEF RuntimeTypeOK
<1>16. TaskFact(t)'
  <2>1. /\ task'[t].state = "running" /\ task'[t].slot /\ task'[t].session = "open"
        /\ task'[t].role # "none" /\ attempt'[t].state = "leased" /\ attempt'[t].holder # "none"
        /\ turn'[t] = "none"
    BY <1>2, <1>3, <1>4, <1>9, <1>11, <1>15 DEF TaskFact
  <2>2. ~Over(t)' /\ ~Unresolved(t)'
    BY <2>1 DEF Over, TaskOver, Unresolved, TurnOpen
  <2> QED
    BY <2>1, <2>2 DEF TaskFact, AttemptOpen
<1>17. RootActs \/ RootParked
  BY <1>3, <1>4, LiveTask DEF RootActs, Over, TaskOver
<1>18. t = Root <=> RootActs
  BY <1>3, <1>4 DEF RootActs, CortexInv, ActsFact, OthersOver, Over, TaskOver
<1>19. t = Root => task[Root].role \in {"intent", "desk", "round_planner"}
  BY <1>18 DEF CortexInv, ActsFact
<1>20. HoldFact(w)' /\ FoundFact(w)'
  <2>1. t = Root => x.step = task[Root].role /\ task'[Root].role = task[Root].role
    BY <1>1, <1>2, <1>4, <1>9, <1>13, <1>15 DEF FoundFact
  <2>2. t = Root => x.step \in RootSteps[task'[Root].role]
    BY <1>19, <2>1 DEF RootSteps
  <2> QED
    BY <1>3, <1>13, <1>14, <2>1, <2>2, PcNames DEF HoldFact, FoundFact
<1>21. RunFact'
  <2>1. RunFact /\ run' = "running"
    BY <1>12 DEF CortexInv
  <2>2. task'[Root].state \in {"running", "waiting", "ready"}
    <3>1. CASE t = Root
      BY <1>9, <1>15, <3>1
    <3>2. CASE t # Root
      BY <1>15, <1>17, <1>18, <3>2, TaskNames DEF RootParked
    <3> QED
      BY <3>1, <3>2
  <2>3. run # "none"
    BY <1>4
  <2> QED
    BY <1>12, <2>1, <2>2, <2>3 DEF RunFact, RunOver, TaskOver
<1>22. ActsFact' /\ ParkedFact'
  <2>1. CASE t = Root
    <3>1. RootActs /\ ActsFact /\ ~RootParked'
      BY <1>9, <1>15, <1>18, <2>1 DEF CortexInv, RootParked
    <3>2. OthersOver(Root)' /\ (NoGraph => NoGraph')
      BY <1>12, <1>15, <2>1, <3>1, TaskNames DEF ActsFact, OthersOver, Over, NoGraph
    <3>3. task'[Root].role = task[Root].role /\ task'[Scout] = task[Scout] /\ task'[Desk] = task[Desk]
      BY <1>9, <1>15, <2>1, TaskNames
    <3> QED
      BY <1>12, <3>1, <3>2, <3>3 DEF ActsFact, ParkedFact
  <2>2. CASE t # Root
    <3>1. RootParked /\ ParkedFact /\ ~RootActs'
      BY <1>15, <1>17, <1>18, <2>2, TaskNames DEF CortexInv, RootActs
    <3>2. CASE NoGraph /\ task[Scout].state # "absent"
      <4>1. t \notin GraphTasks
        BY <1>4, <3>2 DEF NoGraph
      <4>2. NoGraph' /\ task'[Scout].state # "absent"
        BY <1>9, <1>12, <1>15, <3>2, <4>1, TaskNames DEF NoGraph
      <4> QED
        BY <3>1, <4>2 DEF ActsFact, ParkedFact
    <3>3. CASE /\ task[Scout].state = "absent" /\ graph.schedule = "open"
               /\ \/ graph.join = "unresolved" /\ task[Desk].state = "blocked"
                  \/ graph.join = "ready" /\ task[Desk].state # "blocked" /\ \A n \in Nodes : Over(n)
      <4>1. t # Scout
        BY <1>4, <3>3
      <4>2. task'[Scout].state = "absent" /\ graph'.schedule = "open" /\ graph'.join = graph.join
        BY <1>12, <1>15, <3>3, <4>1, TaskNames
      <4>3. task[Desk].state = "blocked" => task'[Desk].state = "blocked"
        BY <1>4, <1>15, TaskNames
      <4>4. task[Desk].state # "blocked" => task'[Desk].state # "blocked"
        BY <1>9, <1>15, TaskNames
      <4>5. (\A n \in Nodes : Over(n)) => (\A n \in Nodes : Over(n)')
        BY <1>4, <1>15, TaskNames DEF Over, TaskOver
      <4> QED
        BY <3>1, <3>3, <4>2, <4>3, <4>4, <4>5 DEF ActsFact, ParkedFact
    <3> QED
      BY <3>1, <3>2, <3>3 DEF ParkedFact
  <2> QED
    BY <2>1, <2>2
<1>23. Capacity'
  <2>1. t \in GraphTasks => ActiveNodes < GraphParallel
    BY <1>4 DEF Scheduled
  <2>2. Capacity
    BY DEF CortexInv
  <2> QED
    BY <1>3, <1>4, <1>15, <2>1, <2>2, CountsGrow
<1>24. PICK M \in SUBSET Workers : M = {w}
  OBVIOUS
<1>25. /\ \A q \in M : FoundFact(q)' /\ HoldFact(q)'
       /\ \A u \in Workers \ M : worker'[u] = worker[u]
       /\ a.holder \in M \union {"none"}
  BY <1>11, <1>14, <1>20, <1>24
<1>26. /\ run' \in RunOver \union {"none", "queued", "running", "waiting", "canceling"}
       /\ graph' \in [schedule : {"none", "open", "closed"}, round : 0..MaxRounds,
                      join : {"none", "unresolved", "ready", "failed"}]
       /\ budget' \in [retries : Nat, calls : Nat]
       /\ intake' \in {"none", "raw", "request", "admitted", "prepared"} /\ prep' \subseteq GraphTasks
       /\ "none" \in TurnOpen \union {"none", "result_committed", "failed", "canceled"}
       /\ UNCHANGED <<clock, cancel, crashes>>
  BY <1>2, <1>12 DEF RuntimeTypeOK
<1>27. r.gen >= task[t].gen /\ r.gen # task[t].gen
  BY <1>6, <1>9
<1> QED
  BY <1>3, <1>9, <1>11, <1>12, <1>14, <1>16, <1>21, <1>22, <1>23, <1>25, <1>26, <1>27, OneTaskMoves

\* The holder of an Attempt ends it: its Task waits for a retry or is over.
LEMMA AttemptEnds ==
    ASSUME CortexInv, NEW w \in Workers, CanEnd(w), worker[w].pc \notin {"idle", "found"}, GoIdle(w),
           NEW t, t = worker[w].task, NEW r \in TaskRecords, NEW a \in AttemptRecords,
           task' = [task EXCEPT ![t] = r], attempt' = [attempt EXCEPT ![t] = a],
           r.state \in {"waiting", "dead_lettered", "succeeded"}, r.gen = task[t].gen + 1,
           r.role = task[t].role, r.slot => task[t].slot,
           r.state = "waiting" => r.session = "open",
           r.state # "waiting" => ~r.slot /\ r.session = "closed",
           a.holder = "none", a.state \notin AttemptOpen,
           r.state = "succeeded" <=> a.state = "result_committed",
           UNCHANGED <<turn, graph, clock, intake, cancel, prep, crashes>>,
           budget' \in [retries : Nat, calls : Nat],
           run' = IF t = Root THEN r.state ELSE run
    PROVE  CortexInv'
<1>1. /\ HoldFact(w) /\ RuntimeTypeOK /\ run = "running" /\ task[t].state = "running"
      /\ attempt[t].state = "executing" /\ ~Unresolved(t) /\ attempt[t].holder = w
  BY DEF CortexInv, CanEnd, Fenced, Holds
<1>2. t \in Tasks /\ TaskFact(t) /\ w # "none"
  BY <1>1, CortexConstants DEF HoldFact, CortexInv
<1>3. /\ task'[t] = r /\ attempt'[t] = a /\ turn'[t] = turn[t]
      /\ \A u \in Tasks \ {t} : task'[u] = task[u]
      /\ task[t].gen \in Nat
  BY <1>1, <1>2 DEF RuntimeTypeOK, TaskRecords
<1>4. TaskFact(t)'
  <2>1. /\ task'[t].state # "running" /\ task'[t].role # "none" /\ task'[t].state # "absent"
        /\ attempt'[t].state \notin AttemptOpen /\ attempt'[t].holder = "none"
        /\ task'[t].state = "succeeded" <=> attempt'[t].state = "result_committed"
        /\ task'[t].state = "succeeded" => task'[t].session = "closed"
    BY <1>1, <1>2, <1>3 DEF TaskFact
  <2>2. ~Unresolved(t)'
    BY <1>1, <1>3 DEF Unresolved
  <2>3. Over(t)' => ~task'[t].slot /\ task'[t].session # "open"
    BY <1>3 DEF Over, TaskOver
  <2> QED
    BY <2>1, <2>2, <2>3 DEF TaskFact
<1>5. t = Root <=> RootActs
  BY <1>1, <1>2 DEF RootActs, CortexInv, ActsFact, OthersOver, Over, TaskOver
<1>6. t # Root => RootParked
  BY <1>1, <1>2, LiveTask DEF Over, TaskOver
<1>7. RunFact /\ ActsFact /\ ParkedFact
  BY DEF CortexInv
<1>8. ASSUME t = Root PROVE RunFact' /\ ActsFact' /\ ParkedFact'
  <2>1. /\ RootActs /\ OthersOver(Root) /\ graph.schedule # "open" /\ task[Desk].state # "succeeded"
        /\ task[Scout] = task'[Scout] /\ task[Desk] = task'[Desk]
    BY <1>3, <1>5, <1>7, <1>8, TaskNames DEF ActsFact
  <2>2. OthersOver(Root)' /\ (NoGraph => NoGraph')
    BY <1>3, <1>8, <2>1, TaskNames DEF OthersOver, Over, NoGraph
  <2>3. task'[Root].state = r.state /\ run' = r.state /\ task'[Root].role = task[Root].role /\ ~RootParked'
    BY <1>3, <1>8 DEF RootParked
  <2>4. RunFact'
    BY <1>1, <1>7, <2>1, <2>2, <2>3 DEF RunFact, RunOver, TaskOver
  <2>5. ActsFact'
    BY <1>7, <2>1, <2>2, <2>3 DEF ActsFact
  <2>6. ParkedFact'
    BY <2>3 DEF ParkedFact
  <2> QED
    BY <2>4, <2>5, <2>6
<1>9. ASSUME t # Root PROVE RunFact' /\ ActsFact' /\ ParkedFact'
  <2>1. RootParked /\ ~RootActs' /\ UNCHANGED <<run, graph, intake>> /\ task'[Root] = task[Root]
    BY <1>3, <1>5, <1>6, <1>9, TaskNames DEF RootActs
  <2>2. RunFact'
    BY <1>1, <1>7, <2>1 DEF RunFact, RunOver
  <2>3. ActsFact'
    BY <2>1 DEF ActsFact
  <2>4. ParkedFact'
    <3>1. CASE NoGraph /\ task[Scout].state # "absent"
      <4>1. t \notin GraphTasks
        BY <1>1, <3>1 DEF NoGraph
      <4>2. NoGraph' /\ task'[Scout].state # "absent"
        BY <1>3, <2>1, <3>1, <4>1, TaskNames DEF NoGraph
      <4> QED
        BY <4>2 DEF ParkedFact
    <3>2. CASE /\ task[Scout].state = "absent" /\ graph.schedule = "open"
               /\ \/ graph.join = "unresolved" /\ task[Desk].state = "blocked"
                  \/ graph.join = "ready" /\ task[Desk].state # "blocked" /\ \A n \in Nodes : Over(n)
      <4>1. task'[Scout].state = "absent" /\ graph'.schedule = "open" /\ graph'.join = graph.join
        BY <1>1, <1>3, <2>1, <3>2, TaskNames
      <4>2. task[Desk].state = "blocked" => task'[Desk].state = "blocked"
        BY <1>1, <1>3, TaskNames
      <4>3. task[Desk].state # "blocked" => task'[Desk].state # "blocked"
        BY <1>3, TaskNames
      <4>4. (\A n \in Nodes : Over(n)) => (\A n \in Nodes : Over(n)')
        BY <1>1, <1>3, TaskNames DEF Over, TaskOver
      <4> QED
        BY <3>2, <4>1, <4>2, <4>3, <4>4 DEF ParkedFact
    <3> QED
      BY <1>7, <2>1, <3>1, <3>2 DEF ParkedFact
  <2> QED
    BY <2>2, <2>3, <2>4
<1>10. Capacity'
  <2>1. \A u \in Tasks : task'[u].slot => task[u].slot
    BY <1>3
  <2>2. \A u \in GraphTasks : task'[u].state = "running" => task[u].state = "running"
    BY <1>3, TaskNames
  <2> QED
    BY <2>1, <2>2, CountsKept DEF CortexInv
<1>11. /\ worker' \in [Workers -> Lanes] /\ worker'[w] = IdleLane
       /\ \A u \in Workers \ {w} : worker'[u] = worker[u]
  BY <1>1, IdleLaneType DEF GoIdle, RuntimeTypeOK
<1>12. FoundFact(w)' /\ HoldFact(w)'
  BY <1>11, IdleLaneType DEF FoundFact, HoldFact
<1>13. PICK M \in SUBSET Workers : M = {w}
  OBVIOUS
<1>14. /\ \A q \in M : FoundFact(q)' /\ HoldFact(q)'
       /\ \A u \in Workers \ M : worker'[u] = worker[u]
       /\ a.holder \in M \union {"none"}
  BY <1>11, <1>12, <1>13
<1>15. PICK v \in TurnOpen \union {"none", "result_committed", "failed", "canceled"} : v = turn[t]
  BY <1>1, <1>2 DEF RuntimeTypeOK
<1>16. turn' = [turn EXCEPT ![t] = v]
  BY <1>1, <1>15 DEF RuntimeTypeOK
<1>17. /\ run' \in RunOver \union {"none", "queued", "running", "waiting", "canceling"}
       /\ graph' \in [schedule : {"none", "open", "closed"}, round : 0..MaxRounds,
                      join : {"none", "unresolved", "ready", "failed"}]
       /\ intake' \in {"none", "raw", "request", "admitted", "prepared"} /\ prep' \subseteq GraphTasks
       /\ UNCHANGED <<clock, cancel, crashes>>
  BY <1>1 DEF RuntimeTypeOK, RunOver
<1>18. r.gen >= task[t].gen /\ r.gen # task[t].gen
  BY <1>3
<1>19. RunFact' /\ ActsFact' /\ ParkedFact'
  BY <1>8, <1>9
<1>20. a.holder \in M \union {"none"} \/ (a = attempt[t] /\ v = turn[t] /\ r.role = task[t].role)
  BY <1>14
<1>21. r.gen = task[t].gen => r.role = task[t].role \/ task[t].role = "none"
  BY <1>18
<1>22. worker' \in [Workers -> Lanes] /\ \A u \in Workers \ M : worker'[u] = worker[u]
  BY <1>11, <1>14
<1>23. \A q \in M : FoundFact(q)' /\ HoldFact(q)'
  BY <1>14
<1>24. r.gen >= task[t].gen
  BY <1>18
<1>25. t \in Tasks
  BY <1>2
<1>26. /\ CortexInv /\ task' = [task EXCEPT ![t] = r] /\ attempt' = [attempt EXCEPT ![t] = a]
       /\ budget' \in [retries : Nat, calls : Nat]
       /\ r \in TaskRecords /\ a \in AttemptRecords /\ M \in SUBSET Workers
       /\ v \in TurnOpen \union {"none", "result_committed", "failed", "canceled"}
  OBVIOUS
<1> QED
  BY ONLY <1>4, <1>10, <1>16, <1>17, <1>19, <1>20, <1>21, <1>22, <1>23, <1>24, <1>25, <1>26,
          OneTaskMoves

LEMMA FailAttemptKeepsInv ==
    ASSUME CortexInv, NEW w \in Workers, FailAttempt(w)
    PROVE  CortexInv'
<1>1. PICK t : t = worker[w].task
  OBVIOUS
<1>2. /\ HoldFact(w) /\ RuntimeTypeOK /\ CanEnd(w) /\ task[t].state = "running" /\ GoIdle(w)
      /\ worker[w].pc = "fail" /\ task[t].session = "open"
      /\ budget \in [retries : Nat, calls : Nat] /\ task \in [Tasks -> TaskRecords]
  BY <1>1 DEF FailAttempt, CortexInv, CanEnd, Fenced, RuntimeTypeOK
<1>3. t \in Tasks
  BY <1>1, <1>2 DEF HoldFact
<1>4. PICK r : r = IF budget.retries > 0 THEN Moved(t, "waiting") ELSE Ended(t, "dead_lettered")
  OBVIOUS
<1>5. /\ r \in TaskRecords /\ r.gen = task[t].gen + 1 /\ r.role = task[t].role
      /\ r.slot => task[t].slot
      /\ r.state = IF budget.retries > 0 THEN "waiting" ELSE "dead_lettered"
      /\ r.state = "waiting" => r.session = "open"
      /\ r.state # "waiting" => ~r.slot /\ r.session = "closed"
  <2>1. "waiting" \in TaskStates /\ "dead_lettered" \in TaskStates
    BY DEF TaskStates
  <2>2. CASE budget.retries > 0
    BY <1>2, <1>3, <1>4, <2>1, <2>2, MovedRecord
  <2>3. CASE ~(budget.retries > 0)
    BY <1>2, <1>3, <1>4, <2>1, <2>3, EndedRecord
  <2> QED
    BY <2>2, <2>3
<1>6. PICK a : a = Ending("failed")
  OBVIOUS
<1>7. a \in AttemptRecords /\ a.holder = "none" /\ a.state \notin AttemptOpen /\ a.state # "result_committed"
  BY <1>6, EndingRecord DEF AttemptStates, AttemptOpen
<1>8. /\ task' = [task EXCEPT ![t] = r] /\ attempt' = [attempt EXCEPT ![t] = a]
      /\ UNCHANGED <<turn, graph, clock, intake, cancel, prep, crashes>>
  BY <1>1, <1>4, <1>6 DEF FailAttempt
<1>9. budget' \in [retries : Nat, calls : Nat]
  <2>1. PICK k : k = IF budget.retries > 0 THEN budget.retries - 1 ELSE budget.retries
    OBVIOUS
  <2>2. k \in Nat /\ budget' = [budget EXCEPT !.retries = k]
    BY <1>2, <2>1 DEF FailAttempt
  <2> QED
    BY <1>2, <2>2
<1>10. run' = IF t = Root THEN r.state ELSE run
  <2>1. t = Root => OthersOver(t)
    BY <1>2 DEF CortexInv, ActsFact, RootActs
  <2> QED
    BY <1>1, <1>5, <2>1 DEF FailAttempt
<1> QED
  BY <1>1, <1>2, <1>5, <1>7, <1>8, <1>9, <1>10, AttemptEnds

LEMMA CommitAttemptKeepsInv ==
    ASSUME CortexInv, NEW w \in Workers, CommitAttempt(w)
    PROVE  CortexInv'
<1>1. PICK t : t = worker[w].task
  OBVIOUS
<1>2. /\ HoldFact(w) /\ RuntimeTypeOK /\ CanEnd(w) /\ GoIdle(w) /\ worker[w].pc = "act"
      /\ budget' \in [retries : Nat, calls : Nat] /\ task \in [Tasks -> TaskRecords]
  BY DEF CommitAttempt, CortexInv, RuntimeTypeOK
<1>3. t \in Tasks
  BY <1>1, <1>2 DEF HoldFact
<1>4. PICK r : r = Ended(t, "succeeded")
  OBVIOUS
<1>5. /\ r \in TaskRecords /\ r.gen = task[t].gen + 1 /\ r.role = task[t].role
      /\ r.state = "succeeded" /\ ~r.slot /\ r.session = "closed"
  <2>1. "succeeded" \in TaskStates
    BY DEF TaskStates
  <2> QED
    BY <1>2, <1>3, <1>4, <2>1, EndedRecord
<1>6. PICK a : a = Ending("result_committed")
  OBVIOUS
<1>7. a \in AttemptRecords /\ a.holder = "none" /\ a.state \notin AttemptOpen /\ a.state = "result_committed"
  BY <1>6, EndingRecord DEF AttemptStates, AttemptOpen
<1>8. /\ task' = [task EXCEPT ![t] = r] /\ attempt' = [attempt EXCEPT ![t] = a]
      /\ UNCHANGED <<turn, graph, clock, intake, cancel, prep, crashes>>
      /\ run' = IF t = Root THEN r.state ELSE run
  BY <1>1, <1>4, <1>5, <1>6 DEF CommitAttempt
<1> QED
  BY <1>1, <1>2, <1>5, <1>7, <1>8, AttemptEnds

-----------------------------------------------------------------------------
(* Commands that park the root or bring it back                            *)

\* A Task that waits, or is over, has no open Attempt and no unresolved Turn.
LEMMA QuietTask ==
    ASSUME NEW t, task'[t].state \in {"ready", "blocked", "waiting"}, task'[t].role # "none",
           attempt'[t].state \notin AttemptOpen, attempt'[t].state # "result_committed",
           attempt'[t].holder = "none", turn'[t] \notin TurnOpen
    PROVE  TaskFact(t)'
<1>1. ~Over(t)' /\ ~Unresolved(t)'
  BY DEF Over, TaskOver, Unresolved
<1> QED
  BY <1>1 DEF TaskFact

LEMMA OverTask ==
    ASSUME NEW t, task'[t].state \in TaskOver, task'[t].role # "none", ~task'[t].slot,
           task'[t].session # "open", task'[t].state = "succeeded" => task'[t].session = "closed",
           attempt'[t].state \notin AttemptOpen,
           task'[t].state = "succeeded" <=> attempt'[t].state = "result_committed",
           attempt'[t].holder = "none", turn'[t] \notin TurnOpen
    PROVE  TaskFact(t)'
<1>1. ~Unresolved(t)' /\ task'[t].state # "running" /\ task'[t].state # "absent"
  BY DEF TaskOver, Unresolved
<1> QED
  BY <1>1 DEF TaskFact

\* An admission took effect; the lane that asked no longer holds the Attempt.
LEMMA AdmittedLane ==
    ASSUME CortexInv, NEW w \in Workers, Admitted(w), worker[w].pc = "act",
           attempt'[worker[w].task].holder = "none"
    PROVE  /\ worker' \in [Workers -> Lanes] /\ FoundFact(w)' /\ HoldFact(w)'
           /\ \A u \in Workers \ {w} : worker'[u] = worker[u]
<1>1. worker \in [Workers -> Lanes] /\ HoldFact(w) /\ w # "none"
  BY CortexConstants DEF CortexInv, RuntimeTypeOK
<1>2. worker[w].task \in Tasks
  BY <1>1 DEF HoldFact
<1>3. PICK x \in Lanes : /\ worker' = [worker EXCEPT ![w] = x]
                         /\ x.pc = "idle" \/ (x.pc = "fail" /\ x.task = worker[w].task)
  <2>1. CASE GoIdle(w)
    BY <2>1, IdleLaneType DEF GoIdle
  <2>2. CASE Goto(w, "fail")
    <3>1. "fail" \in LanePcs
      BY PcNames
    <3> QED
      BY <2>2, <3>1, GotoLane
  <2> QED
    BY <2>1, <2>2 DEF Admitted
<1>4. /\ worker' \in [Workers -> Lanes] /\ worker'[w] = x
      /\ \A u \in Workers \ {w} : worker'[u] = worker[u]
  BY <1>1, <1>3
<1>5. FoundFact(w)' /\ HoldFact(w)'
  <2>1. CASE x.pc = "idle"
    BY <1>4, <2>1 DEF FoundFact, HoldFact
  <2>2. CASE x.pc = "fail" /\ x.task = worker[w].task
    BY <1>1, <1>2, <1>4, <2>2 DEF FoundFact, HoldFact
  <2> QED
    BY <1>3, <2>1, <2>2
<1> QED
  BY <1>4, <1>5

\* The root as its holder parks it.
LEMMA ParkingRoot ==
    ASSUME CortexInv, NEW w \in Workers, CanPark(w), worker[w].pc = "act"
    PROVE  /\ run = "running" /\ task[Root].state = "running" /\ attempt[Root].holder = w
           /\ RootActs /\ OthersOver(Root) /\ ~Unresolved(Root)
           /\ task[Root].role \in {"intent", "desk", "round_planner"}
           /\ worker[w].step \in RootSteps[task[Root].role]
<1>1. attempt[Root].holder = w /\ run = "running" /\ worker[w].task = Root /\ ~Unresolved(Root)
  BY DEF CanPark, CanEnd, Fenced, Holds
<1>2. task[Root].state = "running" /\ RootActs /\ task[Root].role \in {"intent", "desk", "round_planner"}
  BY <1>1, RootHolder
<1>3. OthersOver(Root) /\ HoldFact(w)
  BY <1>2 DEF CortexInv, ActsFact
<1> QED
  BY <1>1, <1>2, <1>3 DEF HoldFact

LEMMA AdmitScoutChildKeepsInv ==
    ASSUME CortexInv, NEW w \in Workers, AdmitScoutChild(w)
    PROVE  CortexInv'
<1>1. /\ worker[w].pc = "act" /\ worker[w].step = "scout" /\ CanPark(w) /\ task[Scout].state = "absent"
      /\ Admitted(w) /\ worker[w].task = Root
      /\ UNCHANGED <<run, turn, graph, budget, clock, intake, cancel, prep, crashes>>
      /\ RuntimeTypeOK /\ RunFact /\ ActsFact /\ TaskFact(Root) /\ TaskFact(Scout)
  BY TaskNames DEF AdmitScoutChild, CanPark, CortexInv
<1>2. /\ run = "running" /\ task[Root].state = "running" /\ RootActs /\ OthersOver(Root) /\ ~Unresolved(Root)
      /\ task[Root].role = "intent"
  BY <1>1, ParkingRoot, RootTurns
<1>3. NoGraph
  BY <1>1, <1>2 DEF ActsFact
<1>4. task \in [Tasks -> TaskRecords] /\ attempt \in [Tasks -> AttemptRecords] /\ task[Root].gen \in Nat
  BY <1>1, TaskNames DEF RuntimeTypeOK, TaskRecords
<1>5. PICK m : m = Moved(Root, "waiting")
  OBVIOUS
<1>6. m \in TaskRecords /\ m.state = "waiting" /\ m.slot = task[Root].slot /\ m.gen = task[Root].gen + 1 /\ m.role = "intent"
  <2>1. "waiting" \in TaskStates
    BY DEF TaskStates
  <2> QED
    BY <1>2, <1>4, <1>5, <2>1, MovedRecord, TaskNames
<1>7. PICK r : r = [m EXCEPT !.session = "closed"]
  OBVIOUS
<1>8. /\ r \in TaskRecords /\ r.state = "waiting" /\ r.slot = task[Root].slot /\ r.gen = task[Root].gen + 1
      /\ r.role = "intent" /\ r.session = "closed"
  BY <1>6, <1>7 DEF TaskRecords
<1>9. PICK s : s = [NoTask EXCEPT !.state = "ready", !.session = "open", !.role = "scout"]
  OBVIOUS
<1>10. s \in TaskRecords /\ s.state = "ready" /\ s.session = "open" /\ s.role = "scout" /\ ~s.slot
  BY <1>9 DEF NoTask, TaskRecords, TaskStates, Roles
<1>11. PICK a : a = Ending("superseded")
  OBVIOUS
<1>12. a \in AttemptRecords /\ a.holder = "none" /\ a.state = "superseded"
  BY <1>11, EndingRecord DEF AttemptStates
<1>13. task' = [task EXCEPT ![Root] = r, ![Scout] = s] /\ attempt' = [attempt EXCEPT ![Root] = a]
  BY <1>5, <1>7, <1>9, <1>11 DEF AdmitScoutChild
<1>14. /\ task' \in [Tasks -> TaskRecords] /\ attempt' \in [Tasks -> AttemptRecords]
       /\ task'[Root] = r /\ task'[Scout] = s /\ attempt'[Root] = a /\ attempt'[Scout] = attempt[Scout]
       /\ \A u \in Tasks \ {Root, Scout} : task'[u] = task[u] /\ attempt'[u] = attempt[u]
       /\ \A u \in Tasks : turn'[u] = turn[u]
  BY <1>1, <1>4, <1>8, <1>10, <1>12, <1>13, TaskNames
<1>15. /\ worker' \in [Workers -> Lanes] /\ FoundFact(w)' /\ HoldFact(w)'
       /\ \A u \in Workers \ {w} : worker'[u] = worker[u]
  <2>1. attempt'[worker[w].task].holder = "none"
    BY <1>1, <1>12, <1>14
  <2> QED
    BY <1>1, <2>1, AdmittedLane
<1>16. RuntimeTypeOK'
  BY <1>1, <1>14, <1>15 DEF RuntimeTypeOK
<1>17. TaskFact(Root)' /\ TaskFact(Scout)'
  <2>1. TaskFact(Root)'
    <3>1. /\ task'[Root].state = "waiting" /\ task'[Root].role # "none" /\ attempt'[Root].state \notin AttemptOpen
          /\ attempt'[Root].state # "result_committed" /\ attempt'[Root].holder = "none" /\ turn'[Root] \notin TurnOpen
      BY <1>2, <1>8, <1>12, <1>14, TaskNames DEF AttemptOpen, Unresolved
    <3> QED
      BY <3>1, QuietTask
  <2>2. /\ attempt[Scout].state \notin AttemptOpen /\ attempt[Scout].state # "result_committed"
        /\ attempt[Scout].holder = "none" /\ ~Unresolved(Scout)
    BY <1>1 DEF TaskFact, AttemptOpen
  <2>3. TaskFact(Scout)'
    <3>1. /\ task'[Scout].state = "ready" /\ task'[Scout].role # "none" /\ attempt'[Scout].state \notin AttemptOpen
          /\ attempt'[Scout].state # "result_committed" /\ attempt'[Scout].holder = "none" /\ turn'[Scout] \notin TurnOpen
      BY <1>10, <1>14, <2>2, TaskNames DEF Unresolved
    <3> QED
      BY <3>1, QuietTask
  <2> QED
    BY <2>1, <2>3
<1>18. RunFact' /\ ActsFact' /\ ParkedFact'
  <2>1. NoGraph' /\ ~RootActs' /\ task'[Scout].state # "absent"
    BY <1>1, <1>3, <1>8, <1>10, <1>14, TaskNames DEF NoGraph, RootActs
  <2>2. RunFact'
    BY <1>1, <1>2, <1>8, <1>14 DEF RunFact, RunOver, TaskOver
  <2> QED
    BY <2>1, <2>2 DEF ActsFact, ParkedFact
<1>19. Capacity'
  <2>1. \A u \in Tasks : task'[u].slot => task[u].slot
    BY <1>8, <1>10, <1>14
  <2>2. \A u \in GraphTasks : task'[u].state = "running" => task[u].state = "running"
    BY <1>14, TaskNames
  <2> QED
    BY <2>1, <2>2, CountsKept DEF CortexInv
<1>20. PICK S \in SUBSET Tasks : S = {Root, Scout}
  BY TaskNames
<1>21. PICK M \in SUBSET Workers : M = {w}
  OBVIOUS
<1>22. /\ \A u \in Tasks \ S : task'[u] = task[u] /\ attempt'[u] = attempt[u] /\ turn'[u] = turn[u]
       /\ \A u \in S : TaskFact(u)'
       /\ \A q \in M : FoundFact(q)' /\ HoldFact(q)'
       /\ \A u \in Workers \ M : worker'[u] = worker[u]
  BY <1>14, <1>15, <1>17, <1>20, <1>21
<1>23. \A u \in S : attempt'[u].holder \in M \union {"none"}
  BY <1>1, <1>12, <1>14, <1>20 DEF TaskFact, AttemptOpen
<1>24. task'[Root].gen >= task[Root].gen /\ task'[Root].gen # task[Root].gen
  BY <1>4, <1>8, <1>14
<1> QED
  BY <1>16, <1>18, <1>19, <1>22, <1>23, <1>24, RecordsMove

LEMMA NodeRecords ==
    ASSUME NEW t \in GraphTasks
    PROVE  /\ NodeAdmitted(t) \in TaskRecords
           /\ NodeAdmitted(t).state = IF t = Desk THEN "blocked" ELSE "ready"
           /\ NodeAdmitted(t).session = "none" /\ ~NodeAdmitted(t).slot
           /\ NodeAdmitted(t).role # "none"
<1>1. PICK s : s = IF t = Desk THEN "blocked" ELSE "ready"
  OBVIOUS
<1>2. PICK o : o = IF t = Desk THEN "decision_desk" ELSE IF t \in ToolNodes THEN "tool" ELSE "memo"
  OBVIOUS
<1>3. PICK r : r = [NoTask EXCEPT !.state = s]
  OBVIOUS
<1>4. r \in TaskRecords /\ r.state = s /\ r.session = "none" /\ ~r.slot
  BY <1>1, <1>3 DEF NoTask, TaskRecords, TaskStates
<1>5. NodeAdmitted(t) = [r EXCEPT !.role = o]
  BY <1>1, <1>2, <1>3 DEF NodeAdmitted
<1>6. o \in Roles /\ o # "none"
  BY <1>2 DEF Roles
<1> QED
  BY <1>1, <1>4, <1>5, <1>6 DEF TaskRecords

LEMMA AdmitTaskGraphKeepsInv ==
    ASSUME CortexInv, NEW w \in Workers, AdmitTaskGraph(w)
    PROVE  CortexInv'
<1>1. /\ worker[w].pc = "act" /\ worker[w].step = "graph" /\ CanPark(w)
      /\ Admitted(w) /\ worker[w].task = Root /\ prep' = GraphTasks
      /\ UNCHANGED <<run, budget, clock, intake, cancel, crashes>>
      /\ RuntimeTypeOK /\ RunFact /\ ActsFact /\ TaskFact(Root)
  BY TaskNames DEF AdmitTaskGraph, CanPark, CortexInv
<1>2. /\ run = "running" /\ task[Root].state = "running" /\ RootActs /\ OthersOver(Root) /\ ~Unresolved(Root)
      /\ task[Root].role \in {"intent", "round_planner"}
  BY <1>1, ParkingRoot, RootTurns
<1>3. /\ task[Scout].state = "absent" /\ graph.round \in 0..MaxRounds /\ graph.round < MaxRounds
      /\ MaxRounds \in Nat
  <2>1. graph.round \in 0..MaxRounds /\ MaxRounds \in Nat /\ MaxRounds > 0
    BY <1>1, CortexConstants DEF RuntimeTypeOK
  <2>2. CASE task[Root].role = "intent"
    BY <1>1, <1>2, <2>1, <2>2 DEF ActsFact, NoGraph
  <2>3. CASE task[Root].role = "round_planner"
    BY <1>1, <1>2, <2>1, <2>3 DEF ActsFact
  <2> QED
    BY <1>2, <2>2, <2>3
<1>4. /\ task \in [Tasks -> TaskRecords] /\ attempt \in [Tasks -> AttemptRecords] /\ task[Root].gen \in Nat
      /\ turn \in [Tasks -> TurnOpen \union {"none", "result_committed", "failed", "canceled"}]
  BY <1>1, TaskNames DEF RuntimeTypeOK, TaskRecords
<1>5. PICK m : m = Moved(Root, "waiting")
  OBVIOUS
<1>6. m \in TaskRecords /\ m.state = "waiting" /\ m.gen = task[Root].gen + 1 /\ m.role = task[Root].role
  <2>1. "waiting" \in TaskStates
    BY DEF TaskStates
  <2> QED
    BY <1>4, <1>5, <2>1, MovedRecord, TaskNames
<1>7. PICK n : n = [m EXCEPT !.session = "closed"]
  OBVIOUS
<1>8. n \in TaskRecords /\ n.state = "waiting" /\ n.gen = task[Root].gen + 1 /\ n.role = task[Root].role /\ n.session = "closed"
  BY <1>6, <1>7 DEF TaskRecords
<1>9. PICK r : r = [n EXCEPT !.slot = FALSE]
  OBVIOUS
<1>10. /\ r \in TaskRecords /\ r.state = "waiting" /\ r.gen = task[Root].gen + 1 /\ r.role = task[Root].role
       /\ r.session = "closed" /\ ~r.slot
  BY <1>8, <1>9 DEF TaskRecords
<1>11. PICK a : a = Ending("superseded")
  OBVIOUS
<1>12. a \in AttemptRecords /\ a.holder = "none" /\ a.state = "superseded"
  BY <1>11, EndingRecord DEF AttemptStates
<1>13. NoAttempt \in AttemptRecords /\ NoAttempt.holder = "none" /\ NoAttempt.state = "none"
  BY DEF NoAttempt, AttemptRecords, AttemptStates
<1>14. /\ task' = [t \in Tasks |-> IF t = Root THEN r ELSE IF t \in GraphTasks THEN NodeAdmitted(t) ELSE task[t]]
       /\ attempt' = [t \in Tasks |-> IF t = Root THEN a ELSE IF t \in GraphTasks THEN NoAttempt ELSE attempt[t]]
       /\ turn' = [t \in Tasks |-> IF t \in GraphTasks THEN "none" ELSE turn[t]]
  BY <1>5, <1>7, <1>9, <1>11 DEF AdmitTaskGraph
<1>15. /\ task'[Root] = r /\ attempt'[Root] = a /\ turn'[Root] = turn[Root]
       /\ task'[Scout] = task[Scout] /\ attempt'[Scout] = attempt[Scout] /\ turn'[Scout] = turn[Scout]
       /\ \A t \in GraphTasks : task'[t] = NodeAdmitted(t) /\ attempt'[t] = NoAttempt /\ turn'[t] = "none"
  BY <1>14, TaskNames
<1>16. /\ task' \in [Tasks -> TaskRecords] /\ attempt' \in [Tasks -> AttemptRecords]
       /\ turn' \in [Tasks -> TurnOpen \union {"none", "result_committed", "failed", "canceled"}]
  BY <1>4, <1>10, <1>12, <1>13, <1>14, NodeRecords
<1>17. /\ graph' = [schedule |-> "open", round |-> graph.round + 1, join |-> "unresolved"]
       /\ graph' \in [schedule : {"none", "open", "closed"}, round : 0..MaxRounds,
                      join : {"none", "unresolved", "ready", "failed"}]
  <2>1. graph.round + 1 \in 0..MaxRounds
    BY <1>3
  <2>2. graph' = [schedule |-> "open", round |-> graph.round + 1, join |-> "unresolved"]
    BY DEF AdmitTaskGraph
  <2> QED
    BY <2>1, <2>2
<1>18. /\ worker' \in [Workers -> Lanes] /\ FoundFact(w)' /\ HoldFact(w)'
       /\ \A u \in Workers \ {w} : worker'[u] = worker[u]
  <2>1. attempt'[worker[w].task].holder = "none"
    BY <1>1, <1>12, <1>15
  <2> QED
    BY <1>1, <2>1, AdmittedLane
<1>19. RuntimeTypeOK'
  BY <1>1, <1>16, <1>17, <1>18 DEF RuntimeTypeOK
<1>20. TaskFact(Root)'
  BY <1>2, <1>10, <1>12, <1>15 DEF TaskFact, Over, TaskOver, AttemptOpen, Unresolved
<1>21. ASSUME NEW t \in GraphTasks PROVE TaskFact(t)'
  <2>1. /\ task'[t].state \in {"blocked", "ready"} /\ task'[t].role # "none"
        /\ attempt'[t].state = "none" /\ attempt'[t].holder = "none" /\ turn'[t] = "none"
    BY <1>13, <1>15, NodeRecords
  <2> QED
    BY <2>1 DEF TaskFact, Over, TaskOver, AttemptOpen, Unresolved, TurnOpen
<1>22. RunFact' /\ ActsFact' /\ ParkedFact'
  <2>1. /\ ~RootActs' /\ task'[Scout].state = "absent" /\ graph'.schedule = "open"
        /\ graph'.join = "unresolved" /\ task'[Desk].state = "blocked"
    BY <1>3, <1>10, <1>15, <1>17, NodeRecords, TaskNames DEF RootActs
  <2>2. RunFact'
    BY <1>1, <1>2, <1>10, <1>15 DEF RunFact, RunOver, TaskOver
  <2> QED
    BY <2>1, <2>2 DEF ActsFact, ParkedFact
<1>23. Capacity'
  <2>1. \A u \in Tasks : task'[u].slot => task[u].slot
    <3> SUFFICES ASSUME NEW u \in Tasks, task'[u].slot PROVE task[u].slot
      OBVIOUS
    <3> QED
      BY <1>10, <1>15, NodeRecords, TaskNames
  <2>2. \A u \in GraphTasks : task'[u].state = "running" => task[u].state = "running"
    BY <1>15, NodeRecords
  <2> QED
    BY <2>1, <2>2, CountsKept DEF CortexInv
<1>24. PICK S \in SUBSET Tasks : S = GraphTasks \union {Root}
  BY TaskNames
<1>25. PICK M \in SUBSET Workers : M = {w}
  OBVIOUS
<1>26. \A u \in Tasks \ S : task'[u] = task[u] /\ attempt'[u] = attempt[u] /\ turn'[u] = turn[u]
  BY <1>15, <1>24, TaskNames
<1>27. /\ \A u \in S : TaskFact(u)'
       /\ \A q \in M : FoundFact(q)' /\ HoldFact(q)'
       /\ \A u \in Workers \ M : worker'[u] = worker[u]
  BY <1>18, <1>20, <1>21, <1>24, <1>25
<1>28. \A u \in S : attempt'[u].holder \in M \union {"none"}
  BY <1>12, <1>13, <1>15, <1>24
<1>29. task'[Root].gen >= task[Root].gen /\ task'[Root].gen # task[Root].gen
  BY <1>4, <1>10, <1>15
<1> QED
  BY <1>19, <1>22, <1>23, <1>26, <1>27, <1>28, <1>29, RecordsMove

\* A root that waits with a Decision Desk is parked for its graph.
LEMMA GraphDesk ==
    ASSUME CortexInv, task[Root].state = "waiting", task[Desk].state \in {"blocked", "running", "succeeded"}
    PROVE  /\ RootParked /\ task[Scout].state = "absent" /\ graph.schedule = "open"
           /\ \/ graph.join = "unresolved" /\ task[Desk].state = "blocked"
              \/ graph.join = "ready" /\ task[Desk].state # "blocked" /\ \A n \in Nodes : Over(n)
<1>1. ~RootActs
  BY TaskNames DEF CortexInv, ActsFact, OthersOver, Over, TaskOver
<1>2. RootParked /\ ~NoGraph
  BY <1>1, TaskNames DEF RootActs, RootParked, NoGraph
<1> QED
  BY <1>2 DEF CortexInv, ParkedFact

LEMMA PrepareTaskGraphNextRoundKeepsInv ==
    ASSUME CortexInv, NEW w \in Workers, PrepareTaskGraphNextRound(w)
    PROVE  CortexInv'
<1>1. /\ worker[w].pc = "act" /\ CanEnd(w) /\ worker[w].task = Desk /\ run = "running"
      /\ task[Desk].state = "running" /\ ~Unresolved(Desk) /\ Admitted(w)
      /\ graph.round < MaxRounds /\ task[Root].state = "waiting"
      /\ UNCHANGED <<run, turn, budget, clock, intake, cancel, prep, crashes>>
      /\ graph' = [graph EXCEPT !.schedule = "closed"]
      /\ RuntimeTypeOK /\ RunFact /\ TaskFact(Root) /\ TaskFact(Desk)
  BY TaskNames DEF PrepareTaskGraphNextRound, CanRefine, CanEnd, Fenced, CortexInv
<1>2. task[Scout].state = "absent" /\ \A n \in Nodes : Over(n)
  BY <1>1, GraphDesk
<1>3. /\ task \in [Tasks -> TaskRecords] /\ attempt \in [Tasks -> AttemptRecords] /\ task[Root].gen \in Nat
  BY <1>1, TaskNames DEF RuntimeTypeOK, TaskRecords
<1>4. PICK m : m = Moved(Root, "ready")
  OBVIOUS
<1>5. m \in TaskRecords /\ m.state = "ready" /\ m.gen = task[Root].gen + 1 /\ m.slot = task[Root].slot
  <2>1. "ready" \in TaskStates
    BY DEF TaskStates
  <2> QED
    BY <1>3, <1>4, <2>1, MovedRecord, TaskNames
<1>6. PICK n : n = [m EXCEPT !.session = "open"]
  OBVIOUS
<1>7. n \in TaskRecords /\ n.state = "ready" /\ n.gen = task[Root].gen + 1 /\ n.slot = task[Root].slot
  BY <1>5, <1>6 DEF TaskRecords
<1>8. PICK r : r = [n EXCEPT !.role = "round_planner"]
  OBVIOUS
<1>9. /\ r \in TaskRecords /\ r.state = "ready" /\ r.gen = task[Root].gen + 1 /\ r.slot = task[Root].slot
      /\ r.role = "round_planner"
  BY <1>7, <1>8 DEF TaskRecords, Roles
<1>10. PICK d : d = Ended(Desk, "superseded")
  OBVIOUS
<1>11. d \in TaskRecords /\ d.state = "superseded" /\ d.session = "closed" /\ ~d.slot /\ d.role = task[Desk].role
  <2>1. "superseded" \in TaskStates
    BY DEF TaskStates
  <2> QED
    BY <1>3, <1>10, <2>1, EndedRecord, TaskNames
<1>12. PICK a : a = Ending("superseded")
  OBVIOUS
<1>13. a \in AttemptRecords /\ a.holder = "none" /\ a.state = "superseded"
  BY <1>12, EndingRecord DEF AttemptStates
<1>14. task' = [task EXCEPT ![Desk] = d, ![Root] = r] /\ attempt' = [attempt EXCEPT ![Desk] = a]
  BY <1>4, <1>6, <1>8, <1>10, <1>12 DEF PrepareTaskGraphNextRound
<1>15. /\ task' \in [Tasks -> TaskRecords] /\ attempt' \in [Tasks -> AttemptRecords]
       /\ task'[Root] = r /\ task'[Desk] = d /\ attempt'[Desk] = a /\ attempt'[Root] = attempt[Root]
       /\ \A u \in Tasks \ {Root, Desk} : task'[u] = task[u] /\ attempt'[u] = attempt[u]
       /\ \A u \in Tasks : turn'[u] = turn[u]
  BY <1>1, <1>3, <1>9, <1>11, <1>13, <1>14, TaskNames
<1>16. /\ worker' \in [Workers -> Lanes] /\ FoundFact(w)' /\ HoldFact(w)'
       /\ \A u \in Workers \ {w} : worker'[u] = worker[u]
  <2>1. attempt'[worker[w].task].holder = "none"
    BY <1>1, <1>13, <1>15
  <2> QED
    BY <1>1, <2>1, AdmittedLane
<1>17. /\ graph'.schedule = "closed" /\ graph'.round = graph.round
       /\ graph' \in [schedule : {"none", "open", "closed"}, round : 0..MaxRounds,
                      join : {"none", "unresolved", "ready", "failed"}]
  BY <1>1 DEF RuntimeTypeOK
<1>18. RuntimeTypeOK'
  BY <1>1, <1>15, <1>16, <1>17 DEF RuntimeTypeOK
<1>19. TaskFact(Root)'
  <2>1. /\ attempt[Root].state \notin AttemptOpen /\ attempt[Root].state # "result_committed"
        /\ attempt[Root].holder = "none" /\ turn[Root] \notin TurnOpen
    BY <1>1 DEF TaskFact, AttemptOpen, Unresolved
  <2> QED
    BY <1>9, <1>15, <2>1, QuietTask, TaskNames
<1>20. TaskFact(Desk)'
  <2>1. /\ task'[Desk].state \in TaskOver /\ task'[Desk].state # "succeeded" /\ task'[Desk].role # "none"
        /\ ~task'[Desk].slot /\ task'[Desk].session # "open"
        /\ attempt'[Desk].state \notin AttemptOpen /\ attempt'[Desk].state # "result_committed"
        /\ attempt'[Desk].holder = "none" /\ turn'[Desk] \notin TurnOpen
    BY <1>1, <1>11, <1>13, <1>15, TaskNames DEF TaskFact, TaskOver, AttemptOpen, Unresolved
  <2> QED
    BY <2>1, OverTask
<1>21. RunFact' /\ ActsFact' /\ ParkedFact'
  <2>1. OthersOver(Root)'
    <3> SUFFICES ASSUME NEW u \in Tasks \ {Root} PROVE Over(u)'
      BY DEF OthersOver
    <3>1. u = Scout \/ u = Desk \/ u \in Nodes
      BY TaskNames
    <3>2. CASE u = Desk
      BY <1>11, <1>15, <3>2 DEF Over, TaskOver
    <3>3. CASE u # Desk
      BY <1>2, <1>15, <3>1, <3>3 DEF Over, TaskOver
    <3> QED
      BY <3>2, <3>3
  <2>2. /\ ~RootParked' /\ task'[Scout].state = "absent" /\ graph'.schedule # "open" /\ graph'.round < MaxRounds
        /\ task'[Desk].state # "succeeded" /\ task'[Root].role = "round_planner" /\ task'[Root].state = "ready"
    BY <1>1, <1>2, <1>9, <1>11, <1>15, <1>17, TaskNames DEF RootParked
  <2>3. RunFact'
    BY <1>1, <2>2 DEF RunFact, RunOver, TaskOver
  <2> QED
    BY <2>1, <2>2, <2>3 DEF ActsFact, ParkedFact
<1>22. Capacity'
  <2>1. \A u \in Tasks : task'[u].slot => task[u].slot
    BY <1>9, <1>11, <1>15
  <2>2. \A u \in GraphTasks : task'[u].state = "running" => task[u].state = "running"
    BY <1>11, <1>15, TaskNames
  <2> QED
    BY <2>1, <2>2, CountsKept DEF CortexInv
<1>23. PICK S \in SUBSET Tasks : S = {Root, Desk}
  BY TaskNames
<1>24. PICK M \in SUBSET Workers : M = {w}
  OBVIOUS
<1>25. /\ \A u \in Tasks \ S : task'[u] = task[u] /\ attempt'[u] = attempt[u] /\ turn'[u] = turn[u]
       /\ \A u \in S : TaskFact(u)'
       /\ \A q \in M : FoundFact(q)' /\ HoldFact(q)'
       /\ \A u \in Workers \ M : worker'[u] = worker[u]
  BY <1>15, <1>16, <1>19, <1>20, <1>23, <1>24
<1>26. \A u \in S : attempt'[u].holder \in M \union {"none"}
  BY <1>1, <1>13, <1>15, <1>23 DEF TaskFact, AttemptOpen
<1>27. task'[Root].gen >= task[Root].gen /\ task'[Root].gen # task[Root].gen
  BY <1>3, <1>9, <1>15
<1> QED
  BY <1>18, <1>21, <1>22, <1>25, <1>26, <1>27, RecordsMove

\* A Session opens for a Task that waits for one; nothing else moves.
LEMMA SessionOpens ==
    ASSUME CortexInv, NEW t \in Tasks, task' = [task EXCEPT ![t].session = "open"],
           task[t].state \in {"ready", "blocked"},
           UNCHANGED <<run, attempt, turn, graph, budget, clock, cancel, worker, crashes>>,
           intake' \in {"none", "raw", "request", "admitted", "prepared"}, prep' \subseteq GraphTasks,
           intake' \in {"none", "raw", "request"} <=> intake \in {"none", "raw", "request"}
    PROVE  CortexInv'
<1>1. RuntimeTypeOK /\ TaskFact(t) /\ RunFact /\ ActsFact /\ ParkedFact /\ task \in [Tasks -> TaskRecords]
  BY DEF CortexInv, RuntimeTypeOK
<1>2. PICK r : r = [task[t] EXCEPT !.session = "open"]
  OBVIOUS
<1>3. /\ r \in TaskRecords /\ r.state = task[t].state /\ r.slot = task[t].slot /\ r.gen = task[t].gen
      /\ r.role = task[t].role /\ r.session = "open"
  BY <1>1, <1>2 DEF TaskRecords
<1>4. task' = [task EXCEPT ![t] = r]
  BY <1>2
<1>5. /\ task' \in [Tasks -> TaskRecords] /\ task'[t] = r
      /\ \A u \in Tasks \ {t} : task'[u] = task[u]
      /\ \A u \in Tasks : /\ task'[u].state = task[u].state /\ task'[u].slot = task[u].slot
                           /\ task'[u].gen = task[u].gen /\ task'[u].role = task[u].role
      /\ \A u \in Tasks : attempt'[u] = attempt[u] /\ turn'[u] = turn[u]
  BY <1>1, <1>3, <1>4
<1>6. RuntimeTypeOK'
  BY <1>1, <1>5 DEF RuntimeTypeOK
<1>7. TaskFact(t)'
  <2>1. /\ attempt[t].state \notin AttemptOpen /\ attempt[t].state # "result_committed"
        /\ attempt[t].holder = "none" /\ turn[t] \notin TurnOpen /\ task[t].role # "none"
    BY <1>1 DEF TaskFact, AttemptOpen, Unresolved
  <2> QED
    BY <1>5, <2>1, QuietTask
<1>8. \A u \in Tasks : Over(u)' <=> Over(u)
  BY <1>5 DEF Over
<1>9. /\ NoGraph' <=> NoGraph
      /\ OthersOver(Root)' <=> OthersOver(Root)
      /\ (\A n \in Nodes : Over(n)') <=> (\A n \in Nodes : Over(n))
  BY <1>5, <1>8, TaskNames DEF NoGraph, OthersOver
<1>10. /\ task'[Root].state = task[Root].state /\ task'[Scout].state = task[Scout].state
       /\ task'[Desk].state = task[Desk].state /\ task'[Root].role = task[Root].role
       /\ RootActs' <=> RootActs
       /\ RootParked' <=> RootParked
  <2>1. task[Root].state = "waiting" => t # Root
    BY <1>5
  <2> QED
    BY <1>5, <2>1, TaskNames DEF RootActs, RootParked
<1>11. RunFact' /\ ActsFact' /\ ParkedFact'
  <2>1. RunFact'
    BY <1>1, <1>9, <1>10 DEF RunFact
  <2>2. ActsFact'
    BY <1>1, <1>9, <1>10 DEF ActsFact
  <2>3. ParkedFact'
    BY <1>1, <1>9, <1>10 DEF ParkedFact
  <2> QED
    BY <2>1, <2>2, <2>3
<1>12. Capacity'
  BY <1>5, CountsKept, TaskNames DEF CortexInv
<1>13. PICK S \in SUBSET Tasks : S = {t}
  OBVIOUS
<1>14. PICK M \in SUBSET Workers : M = {}
  OBVIOUS
<1>15. /\ \A u \in Tasks \ S : task'[u] = task[u] /\ attempt'[u] = attempt[u] /\ turn'[u] = turn[u]
       /\ \A u \in S : TaskFact(u)'
       /\ \A q \in M : FoundFact(q)' /\ HoldFact(q)'
       /\ \A u \in Workers \ M : worker'[u] = worker[u]
       /\ \A u \in S : /\ attempt'[u].holder = attempt[u].holder
                       /\ task'[u].role = task[u].role /\ turn'[u] = turn[u]
  BY <1>5, <1>7, <1>13, <1>14
<1>16. task'[Root].gen >= task[Root].gen
  BY <1>1, <1>5, TaskNames DEF TaskRecords
<1> QED
  BY <1>6, <1>10, <1>11, <1>12, <1>15, <1>16, RecordsMove

LEMMA SessionsKeepInv ==
    ASSUME CortexInv,
           \/ \E t \in GraphTasks : PrepareTaskGraphNodeSession(t) \/ RecoverNodeSession(t)
           \/ PrepareRootSession
    PROVE  CortexInv'
<1>0. prep \subseteq GraphTasks /\ RuntimeTypeOK
  BY DEF CortexInv, RuntimeTypeOK
<1>1. ASSUME NEW t \in GraphTasks, PrepareTaskGraphNodeSession(t) PROVE CortexInv'
  <2>1. /\ UNCHANGED <<run, attempt, turn, graph, budget, clock, intake, cancel, worker, crashes>>
        /\ prep' \subseteq GraphTasks /\ t \in Tasks
    BY <1>0, <1>1, TaskNames DEF PrepareTaskGraphNodeSession
  <2>2. CASE SessionMissing(t)
    <3>1. task' = [task EXCEPT ![t].session = "open"]
      BY <1>1, <2>2 DEF PrepareTaskGraphNodeSession
    <3>2. task[t].state \in {"ready", "blocked"}
      BY <2>2 DEF SessionMissing
    <3>3. intake' \in {"none", "raw", "request", "admitted", "prepared"}
      BY <1>0, <2>1 DEF RuntimeTypeOK
    <3> QED
      BY <2>1, <3>1, <3>2, <3>3, SessionOpens
  <2>3. CASE ~SessionMissing(t)
    <3>1. UNCHANGED task
      BY <1>0, <1>1, <2>1, <2>3 DEF PrepareTaskGraphNodeSession, RuntimeTypeOK, TaskRecords
    <3>2. RuntimeTypeOK'
      BY <1>0, <2>1, <3>1 DEF RuntimeTypeOK
    <3> QED
      BY <2>1, <3>1, <3>2, QuietKeepsInv
  <2> QED
    BY <2>2, <2>3
<1>2. ASSUME NEW t \in GraphTasks, RecoverNodeSession(t) PROVE CortexInv'
  <2>1. /\ UNCHANGED <<run, attempt, turn, graph, budget, clock, intake, cancel, worker, crashes>>
        /\ prep' \subseteq GraphTasks /\ t \in Tasks /\ task' = [task EXCEPT ![t].session = "open"]
        /\ task[t].state \in {"ready", "blocked"}
        /\ intake' \in {"none", "raw", "request", "admitted", "prepared"}
    BY <1>0, <1>2, TaskNames DEF RecoverNodeSession, SessionMissing, RuntimeTypeOK
  <2> QED
    BY <2>1, SessionOpens
<1>3. ASSUME PrepareRootSession PROVE CortexInv'
  <2>1. /\ UNCHANGED <<run, attempt, turn, graph, budget, clock, cancel, worker, prep, crashes>>
        /\ intake = "admitted" /\ intake' = "prepared" /\ task' = [task EXCEPT ![Root].session = "open"]
        /\ task[Root].state \in {"ready", "blocked"} /\ Root \in Tasks /\ prep' \subseteq GraphTasks
    BY <1>0, <1>3, TaskNames DEF PrepareRootSession
  <2> QED
    BY <2>1, SessionOpens
<1> QED
  BY <1>1, <1>2, <1>3

-----------------------------------------------------------------------------
(* The daemons of cortex-input                                             *)

\* A root that does not run is moved.
LEMMA RootMoves ==
    ASSUME CortexInv, NEW r \in TaskRecords, task' = [task EXCEPT ![Root] = r],
           task[Root].state \notin {"running", "succeeded"},
           UNCHANGED <<attempt, turn, budget, clock, cancel, worker, prep, crashes>>,
           run' \in RunOver \union {"none", "queued", "running", "waiting", "canceling"},
           graph' \in [schedule : {"none", "open", "closed"}, round : 0..MaxRounds,
                       join : {"none", "unresolved", "ready", "failed"}],
           intake' \in {"none", "raw", "request", "admitted", "prepared"},
           r.state \in {"ready", "failed", "superseded"}, r.role # "none",
           r.state # "ready" => ~r.slot /\ r.session = "closed",
           r.slot => task[Root].slot, r.gen >= task[Root].gen,
           r.gen = task[Root].gen => r.role = task[Root].role \/ task[Root].role = "none",
           RunFact', ActsFact', ParkedFact'
    PROVE  CortexInv'
<1>1. /\ RuntimeTypeOK /\ TaskFact(Root) /\ task \in [Tasks -> TaskRecords] /\ Root \in Tasks
      /\ attempt \in [Tasks -> AttemptRecords]
      /\ turn \in [Tasks -> TurnOpen \union {"none", "result_committed", "failed", "canceled"}]
  BY TaskNames DEF CortexInv, RuntimeTypeOK
<1>2. task'[Root] = r /\ \A u \in Tasks \ {Root} : task'[u] = task[u]
  BY <1>1
<1>3. /\ attempt[Root].state \notin AttemptOpen /\ attempt[Root].state # "result_committed"
      /\ attempt[Root].holder = "none" /\ turn[Root] \notin TurnOpen
  BY <1>1 DEF TaskFact, AttemptOpen, Unresolved
<1>4. TaskFact(Root)'
  <2>1. CASE r.state = "ready"
    BY <1>2, <1>3, <2>1, QuietTask
  <2>2. CASE r.state # "ready"
    <3>1. task'[Root].state \in TaskOver /\ task'[Root].state # "succeeded" /\ task'[Root].session # "open"
          /\ ~task'[Root].slot /\ task'[Root].role # "none"
      BY <1>2, <2>2 DEF TaskOver
    <3> QED
      BY <1>3, <3>1, OverTask
  <2> QED
    BY <2>1, <2>2
<1>5. Capacity'
  <2>1. \A u \in Tasks : task'[u].slot => task[u].slot
    BY <1>2
  <2>2. \A u \in GraphTasks : task'[u].state = "running" => task[u].state = "running"
    BY <1>2, TaskNames
  <2> QED
    BY <2>1, <2>2, CountsKept DEF CortexInv
<1>6. PICK a \in AttemptRecords : a = attempt[Root]
  BY <1>1
<1>7. PICK v \in TurnOpen \union {"none", "result_committed", "failed", "canceled"} : v = turn[Root]
  BY <1>1
<1>8. attempt' = [attempt EXCEPT ![Root] = a] /\ turn' = [turn EXCEPT ![Root] = v]
  BY <1>1, <1>6, <1>7
<1>9. PICK M \in SUBSET Workers : M = {}
  OBVIOUS
<1>10. /\ \A m \in M : FoundFact(m)' /\ HoldFact(m)'
       /\ \A u \in Workers \ M : worker'[u] = worker[u]
       /\ a.holder \in M \union {"none"} /\ worker' \in [Workers -> Lanes]
       /\ budget' \in [retries : Nat, calls : Nat] /\ prep' \subseteq GraphTasks
       /\ UNCHANGED <<clock, cancel, crashes>>
  BY <1>1, <1>3, <1>6, <1>9 DEF RuntimeTypeOK
<1> QED
  BY <1>1, <1>4, <1>5, <1>8, <1>10, OneTaskMoves

LEMMA AdmitRunKeepsInv ==
    ASSUME CortexInv, AdmitRun
    PROVE  CortexInv'
<1>1. /\ RuntimeTypeOK /\ RunFact /\ task \in [Tasks -> TaskRecords] /\ task[Root] \in TaskRecords
      /\ intake = "request" /\ intake' = "admitted" /\ run' = "queued"
      /\ UNCHANGED <<attempt, turn, graph, budget, clock, cancel, worker, prep, crashes>>
  BY TaskNames DEF AdmitRun, CortexInv, RuntimeTypeOK
<1>2. run = "none" /\ task[Root].state = "absent" /\ NoGraph /\ task[Scout].state = "absent" /\ task[Root].role = "none"
  BY <1>1 DEF RunFact
<1>3. PICK m : m = [task[Root] EXCEPT !.state = "ready"]
  OBVIOUS
<1>4. m \in TaskRecords /\ m.state = "ready" /\ m.slot = task[Root].slot /\ m.gen = task[Root].gen
  BY <1>1, <1>3 DEF TaskRecords, TaskStates
<1>5. PICK r : r = [m EXCEPT !.role = "intent"]
  OBVIOUS
<1>6. /\ r \in TaskRecords /\ r.state = "ready" /\ r.slot = task[Root].slot /\ r.gen = task[Root].gen
      /\ r.role = "intent"
  BY <1>4, <1>5 DEF TaskRecords, Roles
<1>7. task' = [task EXCEPT ![Root] = r]
  BY <1>3, <1>5 DEF AdmitRun
<1>8. task'[Root] = r /\ \A u \in Tasks \ {Root} : task'[u] = task[u]
  BY <1>1, <1>7, TaskNames
<1>9. NoGraph' /\ OthersOver(Root)' /\ task'[Scout].state = "absent" /\ task'[Desk].state = "absent"
  <2>1. \A u \in Tasks \ {Root} : task'[u].state = "absent"
    BY <1>2, <1>8, TaskNames DEF NoGraph
  <2> QED
    BY <1>1, <1>2, <2>1, TaskNames DEF NoGraph, OthersOver, Over
<1>10. RunFact' /\ ActsFact' /\ ParkedFact'
  <2>1. RunFact'
    BY <1>1, <1>6, <1>8, <1>9 DEF RunFact, RunOver, TaskOver
  <2>2. ActsFact'
    BY <1>1, <1>2, <1>6, <1>8, <1>9 DEF ActsFact, NoGraph
  <2>3. ParkedFact'
    BY <1>6, <1>8 DEF ParkedFact, RootParked
  <2> QED
    BY <2>1, <2>2, <2>3
<1>11. task[Root].gen \in Nat /\ r.gen >= task[Root].gen
  BY <1>1, <1>6 DEF TaskRecords
<1>12. /\ graph' \in [schedule : {"none", "open", "closed"}, round : 0..MaxRounds,
                      join : {"none", "unresolved", "ready", "failed"}]
  BY <1>1 DEF RuntimeTypeOK
<1> QED
  BY <1>1, <1>2, <1>6, <1>7, <1>10, <1>11, <1>12, RootMoves

LEMMA ContinueScoutParentKeepsInv ==
    ASSUME CortexInv, ContinueScoutParent
    PROVE  CortexInv'
<1>1. /\ RuntimeTypeOK /\ RunFact /\ ActsFact /\ ParkedFact /\ task \in [Tasks -> TaskRecords]
      /\ task[Root].gen \in Nat /\ run = "running"
      /\ task[Root].state = "waiting" /\ task[Root].role = "intent" /\ task[Scout].state = "succeeded"
      /\ UNCHANGED <<run, attempt, turn, graph, budget, clock, intake, cancel, worker, prep, crashes>>
  BY TaskNames DEF ContinueScoutParent, CortexInv, RuntimeTypeOK, TaskRecords
<1>2. ~RootActs
  BY <1>1 DEF ActsFact
<1>3. NoGraph
  BY <1>1, <1>2 DEF RootActs, RootParked, ParkedFact
<1>4. PICK m : m = Moved(Root, "ready")
  OBVIOUS
<1>5. m \in TaskRecords /\ m.state = "ready" /\ m.gen = task[Root].gen + 1 /\ m.slot = task[Root].slot
  <2>1. "ready" \in TaskStates
    BY DEF TaskStates
  <2> QED
    BY <1>1, <1>4, <2>1, MovedRecord, TaskNames
<1>6. PICK n : n = [m EXCEPT !.session = "open"]
  OBVIOUS
<1>7. n \in TaskRecords /\ n.state = "ready" /\ n.gen = task[Root].gen + 1 /\ n.slot = task[Root].slot
  BY <1>5, <1>6 DEF TaskRecords
<1>8. PICK r : r = [n EXCEPT !.role = "desk"]
  OBVIOUS
<1>9. r \in TaskRecords /\ r.state = "ready" /\ r.gen = task[Root].gen + 1 /\ r.slot = task[Root].slot /\ r.role = "desk"
  BY <1>7, <1>8 DEF TaskRecords, Roles
<1>10. task' = [task EXCEPT ![Root] = r]
  BY <1>4, <1>6, <1>8 DEF ContinueScoutParent
<1>11. task'[Root] = r /\ \A u \in Tasks \ {Root} : task'[u] = task[u]
  BY <1>1, <1>10, TaskNames
<1>12. NoGraph' /\ OthersOver(Root)' /\ task'[Scout].state = "succeeded" /\ task'[Desk].state = "absent"
  <2>1. \A u \in Tasks \ {Root} : task'[u].state \in {"absent", "succeeded"}
    BY <1>1, <1>3, <1>11, TaskNames DEF NoGraph
  <2> QED
    BY <1>1, <1>3, <1>11, <2>1, TaskNames DEF NoGraph, OthersOver, Over, TaskOver
<1>13. RunFact' /\ ActsFact' /\ ParkedFact'
  <2>1. RunFact'
    BY <1>1, <1>9, <1>11 DEF RunFact, RunOver, TaskOver
  <2>2. ActsFact'
    BY <1>1, <1>3, <1>9, <1>11, <1>12 DEF ActsFact, NoGraph
  <2>3. ParkedFact'
    BY <1>9, <1>11 DEF ParkedFact, RootParked
  <2> QED
    BY <2>1, <2>2, <2>3
<1>14. r.gen >= task[Root].gen /\ r.gen # task[Root].gen
  BY <1>1, <1>9
<1>15. /\ run' \in RunOver \union {"none", "queued", "running", "waiting", "canceling"}
       /\ graph' \in [schedule : {"none", "open", "closed"}, round : 0..MaxRounds,
                      join : {"none", "unresolved", "ready", "failed"}]
       /\ intake' \in {"none", "raw", "request", "admitted", "prepared"}
  BY <1>1 DEF RuntimeTypeOK
<1> QED
  BY <1>1, <1>9, <1>10, <1>13, <1>14, <1>15, RootMoves

\* The root ends with its Run, once everything else is over.
LEMMA RootEnds ==
    ASSUME CortexInv, NEW s \in {"failed", "superseded"}, task' = [task EXCEPT ![Root] = Ended(Root, s)],
           task[Root].state = "waiting", run \in {"running", "waiting"}, OthersOver(Root),
           UNCHANGED <<attempt, turn, budget, clock, cancel, worker, prep, crashes, intake>>,
           graph' \in [schedule : {"none", "open", "closed"}, round : 0..MaxRounds,
                       join : {"none", "unresolved", "ready", "failed"}],
           graph'.schedule # "open",
           run' = (IF s = "failed" THEN "failed" ELSE "succeeded"),
           s = "superseded" => task[Desk].state = "succeeded"
    PROVE  CortexInv'
<1>1. /\ RuntimeTypeOK /\ RunFact /\ task \in [Tasks -> TaskRecords] /\ task[Root].gen \in Nat
      /\ TaskFact(Root)
  BY TaskNames DEF CortexInv, RuntimeTypeOK, TaskRecords
<1>2. PICK r : r = Ended(Root, s)
  OBVIOUS
<1>3. /\ r \in TaskRecords /\ r.state = s /\ r.session = "closed" /\ ~r.slot /\ r.gen = task[Root].gen + 1
      /\ r.role = task[Root].role /\ r.role # "none"
  <2>1. s \in TaskStates
    BY DEF TaskStates
  <2>2. task[Root].role # "none"
    BY <1>1 DEF TaskFact
  <2> QED
    BY <1>1, <1>2, <2>1, <2>2, EndedRecord, TaskNames
<1>4. task' = [task EXCEPT ![Root] = r]
  BY <1>2
<1>5. task'[Root] = r /\ \A u \in Tasks \ {Root} : task'[u] = task[u]
  BY <1>1, <1>4, TaskNames
<1>6. OthersOver(Root)' /\ task'[Desk] = task[Desk]
  BY <1>5, TaskNames DEF OthersOver, Over
<1>7. RunFact' /\ ActsFact' /\ ParkedFact'
  <2>1. RunFact'
    <3>1. CASE s = "failed"
      BY <1>1, <1>3, <1>5, <1>6, <3>1 DEF RunFact, RunOver, TaskOver
    <3>2. CASE s = "superseded"
      BY <1>1, <1>3, <1>5, <1>6, <3>2 DEF RunFact, RunOver, TaskOver
    <3> QED
      BY <3>1, <3>2
  <2>2. ~RootActs' /\ ~RootParked'
    BY <1>3, <1>5 DEF RootActs, RootParked
  <2> QED
    BY <2>1, <2>2 DEF ActsFact, ParkedFact
<1>8. r.gen >= task[Root].gen /\ r.gen # task[Root].gen
  BY <1>1, <1>3
<1>9. /\ run' \in RunOver \union {"none", "queued", "running", "waiting", "canceling"}
      /\ intake' \in {"none", "raw", "request", "admitted", "prepared"}
  BY <1>1 DEF RuntimeTypeOK, RunOver
<1> QED
  BY <1>3, <1>4, <1>7, <1>8, <1>9, RootMoves

LEMMA FailScoutParentKeepsInv ==
    ASSUME CortexInv, FailScoutParent
    PROVE  CortexInv'
<1>1. /\ run \in {"running", "waiting"} /\ task[Root].state = "waiting" /\ task[Root].session = "closed"
      /\ task[Scout].state \in {"failed", "dead_lettered"} /\ OthersOver(Root) /\ run' = "failed"
      /\ task' = [task EXCEPT ![Root] = Ended(Root, "failed")]
      /\ UNCHANGED <<attempt, turn, graph, budget, clock, intake, cancel, worker, prep, crashes>>
  BY DEF FailScoutParent
<1>2. RootParked /\ ParkedFact /\ RuntimeTypeOK
  BY <1>1 DEF RootParked, CortexInv
<1>3. graph.schedule = "none"
  BY <1>1, <1>2 DEF ParkedFact, NoGraph
<1>4. /\ graph' \in [schedule : {"none", "open", "closed"}, round : 0..MaxRounds,
                     join : {"none", "unresolved", "ready", "failed"}]
      /\ graph'.schedule # "open"
  BY <1>1, <1>2, <1>3 DEF RuntimeTypeOK
<1> QED
  BY <1>1, <1>4, RootEnds

LEMMA CompleteGraphKeepsInv ==
    ASSUME CortexInv, CompleteGraph
    PROVE  CortexInv'
<1>1. /\ run \in {"running", "waiting"} /\ task[Root].state = "waiting" /\ run' = "succeeded"
      /\ task[Desk].state = "succeeded" /\ graph.join = "ready"
      /\ task' = [task EXCEPT ![Root] = Ended(Root, "superseded")]
      /\ graph' = [graph EXCEPT !.schedule = "closed"]
      /\ UNCHANGED <<attempt, turn, budget, clock, intake, cancel, worker, prep, crashes>>
  BY DEF CompleteGraph
<1>2. task[Scout].state = "absent" /\ \A n \in Nodes : Over(n)
  BY <1>1, GraphDesk
<1>3. OthersOver(Root)
  <2> SUFFICES ASSUME NEW u \in Tasks \ {Root} PROVE Over(u)
    BY DEF OthersOver
  <2>1. u = Scout \/ u = Desk \/ u \in Nodes
    BY TaskNames
  <2> QED
    BY <1>1, <1>2, <2>1 DEF Over, TaskOver
<1>4. /\ graph' \in [schedule : {"none", "open", "closed"}, round : 0..MaxRounds,
                     join : {"none", "unresolved", "ready", "failed"}]
      /\ graph'.schedule # "open"
  BY <1>1 DEF CortexInv, RuntimeTypeOK
<1> QED
  BY <1>1, <1>3, <1>4, RootEnds

LEMMA ResolveJoinKeepsInv ==
    ASSUME CortexInv, ResolveJoin
    PROVE  CortexInv'
<1>1. /\ graph.join = "unresolved" /\ task[Desk].state = "blocked" /\ task[Root].state = "waiting"
      /\ run \in {"running", "waiting"} /\ \A n \in Nodes : Over(n)
      /\ UNCHANGED <<attempt, turn, budget, clock, intake, cancel, worker, prep, crashes>>
      /\ RuntimeTypeOK /\ RunFact /\ TaskFact(Root) /\ TaskFact(Desk)
      /\ task \in [Tasks -> TaskRecords] /\ task[Root].gen \in Nat /\ task[Desk].gen \in Nat
      /\ attempt \in [Tasks -> AttemptRecords]
      /\ turn \in [Tasks -> TurnOpen \union {"none", "result_committed", "failed", "canceled"}]
  BY TaskNames DEF ResolveJoin, CortexInv, RuntimeTypeOK, TaskRecords
<1>2. RootParked /\ task[Scout].state = "absent" /\ graph.schedule = "open"
  BY <1>1, GraphDesk
<1>3. ASSUME NEW t \in {Root, Desk}
      PROVE  /\ attempt[t].state \notin AttemptOpen /\ attempt[t].state # "result_committed"
             /\ attempt[t].holder = "none" /\ turn[t] \notin TurnOpen /\ task[t].role # "none"
  BY <1>1 DEF TaskFact, AttemptOpen, Unresolved
<1>4. PICK memos : memos = {n \in Nodes : task[n].state = "succeeded"}
  OBVIOUS
<1>5. PICK enough : enough = (Cardinality(memos) >= MinSuccess)
  OBVIOUS
<1>6. CASE enough
  <2>1. task' = [task EXCEPT ![Desk] = Moved(Desk, "ready")] /\ UNCHANGED run
    BY <1>4, <1>5, <1>6 DEF ResolveJoin
  <2>2. PICK r : r = Moved(Desk, "ready")
    OBVIOUS
  <2>3. /\ r \in TaskRecords /\ r.state = "ready" /\ r.slot = task[Desk].slot /\ r.gen = task[Desk].gen + 1
        /\ r.role = task[Desk].role
    <3>1. "ready" \in TaskStates
      BY DEF TaskStates
    <3> QED
      BY <1>1, <2>2, <3>1, MovedRecord, TaskNames
  <2>4. task' = [task EXCEPT ![Desk] = r]
    BY <2>1, <2>2
  <2>5. task'[Desk] = r /\ \A u \in Tasks \ {Desk} : task'[u] = task[u]
    BY <1>1, <2>4, TaskNames
  <2>6. graph' = [graph EXCEPT !.join = "ready"]
    BY <1>1, <1>4, <1>5, <1>6 DEF ResolveJoin, RuntimeTypeOK
  <2>7. /\ graph' \in [schedule : {"none", "open", "closed"}, round : 0..MaxRounds,
                       join : {"none", "unresolved", "ready", "failed"}]
        /\ graph'.join = "ready" /\ graph'.schedule = "open"
    BY <1>1, <1>2, <2>6 DEF RuntimeTypeOK
  <2>8. TaskFact(Desk)'
    BY <1>1, <1>3, <2>3, <2>5, QuietTask
  <2>9. task'[Root] = task[Root] /\ task'[Scout] = task[Scout] /\ \A n \in Nodes : Over(n)'
    BY <1>1, <2>5, TaskNames DEF Over
  <2>10. RunFact' /\ ActsFact' /\ ParkedFact'
    <3>1. RunFact'
      BY <1>1, <2>1, <2>9 DEF RunFact, RunOver
    <3>2. ~RootActs'
      BY <1>2, <2>9 DEF RootParked, RootActs
    <3>3. ParkedFact'
      BY <1>2, <2>3, <2>5, <2>7, <2>9 DEF ParkedFact
    <3> QED
      BY <3>1, <3>2, <3>3 DEF ActsFact
  <2>11. Capacity'
    <3>1. \A u \in Tasks : task'[u].slot => task[u].slot
      BY <2>3, <2>5
    <3>2. \A u \in GraphTasks : task'[u].state = "running" => task[u].state = "running"
      BY <2>3, <2>5, TaskNames
    <3> QED
      BY <3>1, <3>2, CountsKept DEF CortexInv
  <2>12. PICK a \in AttemptRecords : a = attempt[Desk]
    BY <1>1, TaskNames
  <2>13. PICK v \in TurnOpen \union {"none", "result_committed", "failed", "canceled"} : v = turn[Desk]
    BY <1>1, TaskNames
  <2>14. attempt' = [attempt EXCEPT ![Desk] = a] /\ turn' = [turn EXCEPT ![Desk] = v]
    BY <1>1, <2>12, <2>13
  <2>15. PICK M \in SUBSET Workers : M = {}
    OBVIOUS
  <2>16. /\ \A m \in M : FoundFact(m)' /\ HoldFact(m)'
         /\ \A u \in Workers \ M : worker'[u] = worker[u]
         /\ a.holder \in M \union {"none"} /\ worker' \in [Workers -> Lanes]
         /\ budget' \in [retries : Nat, calls : Nat] /\ prep' \subseteq GraphTasks
         /\ UNCHANGED <<clock, cancel, crashes>>
         /\ run' \in RunOver \union {"none", "queued", "running", "waiting", "canceling"}
         /\ intake' \in {"none", "raw", "request", "admitted", "prepared"}
    BY <1>1, <1>3, <2>1, <2>12, <2>15 DEF RuntimeTypeOK
  <2>17. r.gen >= task[Desk].gen /\ r.gen # task[Desk].gen /\ Desk \in Tasks
    BY <1>1, <2>3, TaskNames
  <2> QED
    BY <2>3, <2>4, <2>7, <2>8, <2>10, <2>11, <2>14, <2>16, <2>17, OneTaskMoves
<1>7. CASE ~enough
  <2>1. /\ task' = [task EXCEPT ![Desk] = Ended(Desk, "dead_lettered"), ![Root] = Ended(Root, "dead_lettered")]
        /\ run' = "dead_lettered"
    BY <1>4, <1>5, <1>7 DEF ResolveJoin
  <2>2. graph' = [graph EXCEPT !.join = "failed", !.schedule = "closed"]
    BY <1>4, <1>5, <1>7 DEF ResolveJoin
  <2>3. /\ graph' \in [schedule : {"none", "open", "closed"}, round : 0..MaxRounds,
                       join : {"none", "unresolved", "ready", "failed"}]
        /\ graph'.schedule = "closed"
    <3>1. PICK g : g = [graph EXCEPT !.join = "failed"]
      OBVIOUS
    <3>2. /\ g \in [schedule : {"none", "open", "closed"}, round : 0..MaxRounds,
                    join : {"none", "unresolved", "ready", "failed"}]
      BY <1>1, <3>1 DEF RuntimeTypeOK
    <3>3. graph' = [g EXCEPT !.schedule = "closed"]
      BY <2>2, <3>1
    <3> QED
      BY <3>2, <3>3
  <2>4. PICK d : d = Ended(Desk, "dead_lettered")
    OBVIOUS
  <2>5. PICK r : r = Ended(Root, "dead_lettered")
    OBVIOUS
  <2>6. /\ d \in TaskRecords /\ d.state = "dead_lettered" /\ ~d.slot /\ d.session = "closed" /\ d.role = task[Desk].role
        /\ r \in TaskRecords /\ r.state = "dead_lettered" /\ ~r.slot /\ r.session = "closed" /\ r.role = task[Root].role
        /\ r.gen = task[Root].gen + 1
    <3>1. "dead_lettered" \in TaskStates
      BY DEF TaskStates
    <3> QED
      BY <1>1, <2>4, <2>5, <3>1, EndedRecord, TaskNames
  <2>7. /\ task' \in [Tasks -> TaskRecords] /\ task'[Desk] = d /\ task'[Root] = r
        /\ \A u \in Tasks \ {Root, Desk} : task'[u] = task[u]
    BY <1>1, <2>1, <2>4, <2>5, <2>6, TaskNames
  <2>8. RuntimeTypeOK'
    BY <1>1, <2>1, <2>3, <2>7 DEF RuntimeTypeOK, RunOver
  <2>9. TaskFact(Root)' /\ TaskFact(Desk)'
    <3> SUFFICES ASSUME NEW t \in {Root, Desk} PROVE TaskFact(t)'
      OBVIOUS
    <3>1. /\ task'[t].state \in TaskOver /\ task'[t].state # "succeeded" /\ task'[t].session # "open"
          /\ ~task'[t].slot /\ task'[t].role # "none"
      BY <1>3, <2>6, <2>7 DEF TaskOver
    <3>2. /\ attempt'[t].state \notin AttemptOpen /\ attempt'[t].state # "result_committed"
          /\ attempt'[t].holder = "none" /\ turn'[t] \notin TurnOpen
      BY <1>1, <1>3
    <3> QED
      BY <3>1, <3>2, OverTask
  <2>10. RunFact' /\ ActsFact' /\ ParkedFact'
    <3>1. OthersOver(Root)'
      <4> SUFFICES ASSUME NEW u \in Tasks \ {Root} PROVE Over(u)'
        BY DEF OthersOver
      <4>1. u = Scout \/ u = Desk \/ u \in Nodes
        BY TaskNames
      <4>2. CASE u = Desk
        BY <2>6, <2>7, <4>2 DEF Over, TaskOver
      <4>3. CASE u # Desk
        BY <1>1, <1>2, <2>7, <4>1, <4>3 DEF Over, TaskOver
      <4> QED
        BY <4>2, <4>3
    <3>2. RunFact'
      BY <1>1, <2>1, <2>3, <2>6, <2>7, <3>1 DEF RunFact, RunOver, TaskOver
    <3>3. ~RootActs' /\ ~RootParked'
      BY <2>6, <2>7 DEF RootActs, RootParked
    <3> QED
      BY <3>2, <3>3 DEF ActsFact, ParkedFact
  <2>11. Capacity'
    <3>1. \A u \in Tasks : task'[u].slot => task[u].slot
      BY <2>6, <2>7
    <3>2. \A u \in GraphTasks : task'[u].state = "running" => task[u].state = "running"
      BY <2>6, <2>7, TaskNames
    <3> QED
      BY <3>1, <3>2, CountsKept DEF CortexInv
  <2>12. PICK S \in SUBSET Tasks : S = {Root, Desk}
    BY TaskNames
  <2>13. PICK M \in SUBSET Workers : M = {}
    OBVIOUS
  <2>14. /\ \A u \in Tasks \ S : task'[u] = task[u] /\ attempt'[u] = attempt[u] /\ turn'[u] = turn[u]
         /\ \A u \in S : TaskFact(u)'
         /\ \A q \in M : FoundFact(q)' /\ HoldFact(q)'
         /\ \A u \in Workers \ M : worker'[u] = worker[u]
    BY <1>1, <2>7, <2>9, <2>12, <2>13
  <2>15. \A u \in S : attempt'[u].holder \in M \union {"none"}
    BY <1>1, <1>3, <2>12
  <2>16. task'[Root].gen >= task[Root].gen /\ task'[Root].gen # task[Root].gen
    BY <1>1, <2>6, <2>7
  <2> QED
    BY <2>8, <2>10, <2>11, <2>14, <2>15, <2>16, RecordsMove
<1> QED
  BY <1>6, <1>7

-----------------------------------------------------------------------------
(* Closing the whole tree                                                  *)

\* What a Task is after its tree was closed.
LEMMA ClosedTask ==
    ASSUME CortexInv, NEW ts \in {"failed", "canceled"}, NEW as \in {"timed_out", "canceled"},
           NEW ks \in {"dead_lettered", "canceled"}, NEW rs, CloseTree(ts, as, ks, rs), NEW t \in Tasks
    PROVE  /\ task'[t] \in TaskRecords /\ attempt'[t] \in AttemptRecords
           /\ turn'[t] \in TurnOpen \union {"none", "result_committed", "failed", "canceled"}
           /\ task'[t].state = (IF Over(t) THEN task[t].state ELSE ks)
           /\ ~task'[t].slot /\ task'[t].session # "open"
           /\ task'[t].gen >= task[t].gen /\ task'[t].role = task[t].role
           /\ attempt'[t].holder = "none" /\ turn'[t] \notin TurnOpen /\ TaskFact(t)'
<1>1. /\ RuntimeTypeOK /\ TaskFact(t) /\ task \in [Tasks -> TaskRecords] /\ task[t] \in TaskRecords
      /\ attempt[t] \in AttemptRecords /\ task[t].gen \in Nat
      /\ turn[t] \in TurnOpen \union {"none", "result_committed", "failed", "canceled"}
  BY DEF CortexInv, RuntimeTypeOK, TaskRecords
<1>2. /\ attempt'[t] = IF attempt[t].state \in AttemptOpen THEN Ending(as) ELSE attempt[t]
      /\ turn'[t] = IF Unresolved(t) THEN ts ELSE turn[t]
  BY DEF CloseTree
<1>3. turn'[t] \in {"none", "result_committed", "failed", "canceled"} /\ turn'[t] \notin TurnOpen
  BY <1>1, <1>2 DEF Unresolved, TurnOpen
<1>4. as \in AttemptStates /\ as \notin AttemptOpen /\ as # "result_committed"
  BY DEF AttemptStates, AttemptOpen
<1>5. /\ attempt'[t] \in AttemptRecords /\ attempt'[t].holder = "none" /\ attempt'[t].state \notin AttemptOpen
      /\ attempt'[t].state = "result_committed" <=> attempt[t].state = "result_committed"
  <2>1. CASE attempt[t].state \in AttemptOpen
    BY <1>2, <1>4, <2>1, EndingRecord DEF AttemptOpen
  <2>2. CASE attempt[t].state \notin AttemptOpen
    BY <1>1, <1>2, <2>2 DEF TaskFact
  <2> QED
    BY <2>1, <2>2
<1>6. CASE Over(t)
  <2>1. task'[t] = task[t] /\ ~task[t].slot /\ task[t].session # "open" /\ task[t].state # "running"
    BY <1>1, <1>6 DEF CloseTree, TaskFact, Over, TaskOver
  <2>2. TaskFact(t)'
    <3>1. ~Unresolved(t)' /\ (Over(t)' <=> Over(t))
      BY <1>3, <2>1 DEF Unresolved, Over
    <3> QED
      BY <1>1, <1>5, <2>1, <3>1 DEF TaskFact
  <2> QED
    BY <1>1, <1>3, <1>5, <1>6, <2>1, <2>2
<1>7. CASE ~Over(t)
  <2>1. PICK m : m = Moved(t, ks)
    OBVIOUS
  <2>2. m \in TaskRecords /\ m.state = ks /\ m.gen = task[t].gen + 1 /\ m.role = task[t].role
    <3>1. ks \in TaskStates
      BY DEF TaskStates
    <3> QED
      BY <1>1, <2>1, <3>1, MovedRecord
  <2>3. PICK n : n = [m EXCEPT !.slot = FALSE]
    OBVIOUS
  <2>4. n \in TaskRecords /\ n.state = ks /\ n.gen = task[t].gen + 1 /\ n.role = task[t].role /\ ~n.slot
    BY <2>2, <2>3 DEF TaskRecords
  <2>5. PICK s \in {"none", "closed"} : s = IF m.session = "none" THEN "none" ELSE "closed"
    OBVIOUS
  <2>6. PICK r : r = [n EXCEPT !.session = s]
    OBVIOUS
  <2>7. /\ r \in TaskRecords /\ r.state = ks /\ r.gen = task[t].gen + 1 /\ r.role = task[t].role /\ ~r.slot
        /\ r.session = s
    BY <2>4, <2>6 DEF TaskRecords
  <2>8. n.session = m.session
    BY <2>2, <2>3 DEF TaskRecords
  <2>9. task'[t] = r
    BY <1>7, <2>1, <2>3, <2>5, <2>6, <2>8 DEF CloseTree
  <2>10. /\ task'[t].state \in TaskOver /\ task'[t].state # "succeeded" /\ task[t].state # "succeeded"
         /\ task'[t].role # "none" /\ ~task'[t].slot /\ task'[t].session # "open"
    BY <1>1, <1>7, <2>7, <2>9 DEF TaskOver, TaskFact, Over
  <2>11. TaskFact(t)'
    <3>1. attempt'[t].state # "result_committed"
      BY <1>1, <1>5, <2>10 DEF TaskFact
    <3> QED
      BY <1>3, <1>5, <2>10, <3>1, OverTask
  <2> QED
    BY <1>1, <1>3, <1>5, <1>7, <2>7, <2>9, <2>10, <2>11
<1> QED
  BY <1>6, <1>7

LEMMA CloseTreeKeepsInv ==
    ASSUME CortexInv, NEW ts \in {"failed", "canceled"}, NEW as \in {"timed_out", "canceled"},
           NEW ks \in {"dead_lettered", "canceled"}, CloseTree(ts, as, ks, ks),
           run \notin RunOver \union {"none"}, cancel' \in {"none", "pending", "canceled", "denied"},
           UNCHANGED <<budget, clock, intake, worker, prep, crashes>>
    PROVE  CortexInv'
<1>1. RuntimeTypeOK /\ RunFact /\ graph.schedule \in {"none", "open", "closed"}
  BY DEF CortexInv, RuntimeTypeOK
<1>2. /\ run' = ks /\ graph' = [graph EXCEPT !.schedule = IF graph.schedule = "none" THEN graph.schedule ELSE "closed"]
  BY DEF CloseTree
<1>3. /\ task' \in [Tasks -> TaskRecords] /\ attempt' \in [Tasks -> AttemptRecords]
      /\ turn' \in [Tasks -> TurnOpen \union {"none", "result_committed", "failed", "canceled"}]
  <2>1. task' = [t \in Tasks |-> task'[t]] /\ attempt' = [t \in Tasks |-> attempt'[t]] /\ turn' = [t \in Tasks |-> turn'[t]]
    BY DEF CloseTree
  <2>2. \A t \in Tasks : /\ task'[t] \in TaskRecords /\ attempt'[t] \in AttemptRecords
                          /\ turn'[t] \in TurnOpen \union {"none", "result_committed", "failed", "canceled"}
    BY ClosedTask
  <2> QED
    BY <2>1, <2>2
<1>4. /\ graph' \in [schedule : {"none", "open", "closed"}, round : 0..MaxRounds,
                     join : {"none", "unresolved", "ready", "failed"}]
      /\ graph'.schedule # "open"
  BY <1>1, <1>2 DEF RuntimeTypeOK
<1>5. RuntimeTypeOK'
  BY <1>1, <1>2, <1>3, <1>4 DEF RuntimeTypeOK, RunOver
<1>6. \A t \in Tasks : TaskFact(t)' /\ attempt'[t].holder = "none" /\ task'[t].gen >= task[t].gen
                        /\ task'[t].role = task[t].role /\ ~task'[t].slot /\ task'[t].session # "open"
  BY ClosedTask
<1>7. \A t \in Tasks : task'[t].state = (IF Over(t) THEN task[t].state ELSE ks)
  BY ClosedTask
<1>8. \A t \in Tasks : Over(t)'
  BY <1>7 DEF Over, TaskOver
<1>9. RunFact' /\ ActsFact' /\ ParkedFact'
  <2>1. ~Over(Root)
    BY <1>1 DEF RunFact, Over
  <2>2. task'[Root].state = ks /\ OthersOver(Root)'
    BY <1>7, <1>8, <2>1, TaskNames DEF OthersOver
  <2>3. RunFact'
    BY <1>1, <1>2, <1>4, <2>2 DEF RunFact, RunOver, TaskOver
  <2>4. ~RootActs' /\ ~RootParked'
    BY <2>2 DEF RootActs, RootParked
  <2> QED
    BY <2>3, <2>4 DEF ActsFact, ParkedFact
<1>10. Capacity'
  <2>1. \A u \in GraphTasks : task'[u].state = "running" => task[u].state = "running"
    BY <1>7, TaskNames
  <2> QED
    BY <1>6, <2>1, CountsKept DEF CortexInv
<1>11. PICK S \in SUBSET Tasks : S = Tasks
  OBVIOUS
<1>12. PICK M \in SUBSET Workers : M = {}
  OBVIOUS
<1>13. /\ \A u \in Tasks \ S : task'[u] = task[u] /\ attempt'[u] = attempt[u] /\ turn'[u] = turn[u]
       /\ \A u \in S : TaskFact(u)' /\ attempt'[u].holder \in M \union {"none"}
       /\ \A q \in M : FoundFact(q)' /\ HoldFact(q)'
       /\ \A u \in Workers \ M : worker'[u] = worker[u]
       /\ task'[Root].gen >= task[Root].gen /\ task'[Root].role = task[Root].role
  BY <1>6, <1>11, <1>12, TaskNames
<1> QED
  BY <1>5, <1>9, <1>10, <1>13, RecordsMove

LEMMA CancellationsKeepInv ==
    ASSUME CortexInv, ReconcileExpiredRuns \/ CancelRun \/ ReconcileRunCancellations
    PROVE  CortexInv'
<1>1. RuntimeTypeOK
  BY DEF CortexInv
<1>2. UNCHANGED <<budget, clock, intake, worker, prep, crashes>>
  BY DEF ReconcileExpiredRuns, CancelRun, ReconcileRunCancellations
<1>3. CASE ReconcileExpiredRuns
  <2>1. /\ CloseTree("failed", "timed_out", "dead_lettered", "dead_lettered")
        /\ run \notin RunOver \union {"none"} /\ cancel' \in {"none", "pending", "canceled", "denied"}
    BY <1>1, <1>3 DEF ReconcileExpiredRuns, RuntimeTypeOK
  <2> QED
    BY <1>2, <2>1, CloseTreeKeepsInv
<1>4. CASE CloseTree("canceled", "canceled", "canceled", "canceled") /\ cancel' = "canceled"
           /\ run \notin RunOver \union {"none"}
  BY <1>2, <1>4, CloseTreeKeepsInv
<1>5. CASE cancel' = "denied" /\ run \in RunOver /\ UNCHANGED <<run, task, attempt, turn, graph>>
  <2>1. RuntimeTypeOK'
    BY <1>1, <1>2, <1>5 DEF RuntimeTypeOK
  <2> QED
    BY <1>2, <1>5, <2>1, QuietKeepsInv DEF RunOver
<1>6. CASE /\ cancel' = "pending" /\ run' = "canceling" /\ run \notin RunOver \union {"none"}
           /\ UNCHANGED <<task, attempt, turn, graph>>
  <2>1. RuntimeTypeOK'
    BY <1>1, <1>2, <1>6 DEF RuntimeTypeOK
  <2>2. RunFact'
    BY <1>2, <1>6 DEF CortexInv, RunFact, RunOver
  <2>3. ActsFact'
    BY <1>6 DEF CortexInv, ActsFact, RootActs, NoGraph, OthersOver, Over
  <2>4. ParkedFact'
    BY <1>6 DEF CortexInv, ParkedFact, RootParked, NoGraph, Over
  <2>5. Capacity'
    BY <1>6 DEF CortexInv, Capacity, Slots, ActiveNodes
  <2>6. PICK S \in SUBSET Tasks : S = {}
    OBVIOUS
  <2>7. PICK M \in SUBSET Workers : M = {}
    OBVIOUS
  <2>8. /\ \A u \in Tasks \ S : task'[u] = task[u] /\ attempt'[u] = attempt[u] /\ turn'[u] = turn[u]
        /\ \A u \in S : TaskFact(u)'
        /\ \A u \in S : attempt'[u].holder \in M \union {"none"}
        /\ \A q \in M : FoundFact(q)' /\ HoldFact(q)'
        /\ \A u \in Workers \ M : worker'[u] = worker[u]
        /\ task'[Root].gen >= task[Root].gen /\ task'[Root].role = task[Root].role
    BY <1>1, <1>2, <1>6, <2>6, <2>7, TaskNames DEF RuntimeTypeOK, TaskRecords
  <2> QED
    BY <2>1, <2>2, <2>3, <2>4, <2>5, <2>8, RecordsMove
<1>7. CASE CancelRun
  <2>1. run # "none" /\ (CancelSeed = "terminal" <=> run \in RunOver)
    BY <1>7 DEF CancelRun, CancelSeed
  <2>2. \/ cancel' = "denied" /\ run \in RunOver /\ UNCHANGED <<run, task, attempt, turn, graph>>
        \/ /\ CloseTree("canceled", "canceled", "canceled", "canceled") /\ cancel' = "canceled"
           /\ run \notin RunOver \union {"none"}
        \/ /\ cancel' = "pending" /\ run' = "canceling" /\ run \notin RunOver \union {"none"}
           /\ UNCHANGED <<task, attempt, turn, graph>>
    BY <1>7, <2>1 DEF CancelRun
  <2> QED
    BY <1>4, <1>5, <1>6, <2>2
<1>8. CASE ReconcileRunCancellations
  <2>1. run # "none"
    BY <1>8 DEF ReconcileRunCancellations, CortexInv, RunFact
  <2> QED
    BY <1>4, <1>5, <1>8, <2>1 DEF ReconcileRunCancellations
<1> QED
  BY <1>3, <1>7, <1>8

-----------------------------------------------------------------------------
(* Every step                                                              *)

LEMMA LaneStepKeepsInv ==
    ASSUME CortexInv, NEW w \in Workers, LaneStep(w) \/ HeartbeatLoop(w) \/ ReadFails(w)
    PROVE  CortexInv'
BY NextTaskKeepsInv, ReclaimAttemptKeepsInv, ClaimTaskKeepsInv, StartAttemptKeepsInv,
   DispatchModelCallKeepsInv, ProviderReturnsKeepsInv, ResolveModelCallKeepsInv, ResolveFailureKeepsInv,
   MarkUnknownKeepsInv, FailAttemptKeepsInv, CommitAttemptKeepsInv, AdmitScoutChildKeepsInv,
   ScoutRejectedKeepsInv, AdmitTaskGraphKeepsInv, PrepareTaskGraphNextRoundKeepsInv, DeniedKeepsInv,
   AdmissionFailsKeepsInv, HeartbeatLoopKeepsInv
   DEF LaneStep

LEMMA DaemonsKeepInv ==
    ASSUME CortexInv, Daemons \/ CancelRun
    PROVE  CortexInv'
BY SessionsKeepInv, ContinueScoutParentKeepsInv, FailScoutParentKeepsInv, ResolveJoinKeepsInv,
   CompleteGraphKeepsInv, CancellationsKeepInv
   DEF Daemons

LEMMA IntakeKeepsInv ==
    ASSUME CortexInv, Intake \/ ControlDies \/ DeadlineNears \/ AuthorityRevoked
    PROVE  CortexInv'
BY ClockKeepsInv, AdmitRunKeepsInv, SessionsKeepInv DEF Intake

LEMMA CortexStutterKeepsInv ==
    ASSUME CortexInv, UNCHANGED cortexVars
    PROVE  CortexInv'
<1>1. UNCHANGED <<run, task, attempt, turn, graph, budget, clock, intake, cancel, worker, prep, crashes>>
  BY DEF cortexVars
<1>2. RuntimeTypeOK'
  BY <1>1 DEF CortexInv, RuntimeTypeOK
<1> QED
  BY <1>1, <1>2, QuietKeepsInv

LEMMA CortexNextInv == CortexInv /\ [CortexNext]_cortexVars => CortexInv'
<1> SUFFICES ASSUME CortexInv, [CortexNext]_cortexVars PROVE CortexInv'
  OBVIOUS
<1>1. CASE UNCHANGED cortexVars
  BY <1>1, CortexStutterKeepsInv
<1>2. CASE \E w \in Workers : LaneStep(w) \/ HeartbeatLoop(w) \/ ReadFails(w)
  BY <1>2, LaneStepKeepsInv
<1>3. CASE \E w \in Workers : WorkerDies(Process[w])
  BY <1>3, WorkerDiesKeepsInv
<1>4. CASE \E t \in Tasks : LeaseAges(t)
  BY <1>4, LeaseAgesKeepsInv
<1>5. CASE Daemons \/ CancelRun
  BY <1>5, DaemonsKeepInv
<1>6. CASE Intake \/ ControlDies \/ DeadlineNears \/ AuthorityRevoked
  BY <1>6, IntakeKeepsInv
<1> QED
  BY <1>1, <1>2, <1>3, <1>4, <1>5, <1>6 DEF CortexNext

\* Whatever the lanes, handlers and daemons of a Run do, and whenever they
\* die: its Tasks, Attempts and Turns agree, it stays within its parallel
\* slots, and once it is over nothing of it is left.
THEOREM RecordsAlwaysAgree == CortexSpec => []RecordsAgree
<1>1. CortexInv => RecordsAgree
  <2> SUFFICES ASSUME CortexInv PROVE RecordsAgree
    OBVIOUS
  <2>1. RuntimeTypeOK /\ RunFact /\ Capacity /\ \A t \in Tasks : TaskFact(t)
    BY DEF CortexInv
  <2>2. CortexTypeOK
    <3>1. TaskStates = TaskOver \union {"absent", "blocked", "ready", "running", "waiting"}
      BY DEF TaskStates, TaskOver
    <3>2. task \in [Tasks -> [state : TaskOver \union {"absent", "blocked", "ready", "running", "waiting"},
                              session : {"none", "open", "closed"}, slot : BOOLEAN, gen : Nat,
                              role : DOMAIN FirstTurn \union {"none"}]]
      BY <2>1, <3>1, RoleNames DEF RuntimeTypeOK, TaskRecords
    <3>3. attempt \in [Tasks -> [state : AttemptOpen \union {"none", "result_committed", "failed",
                                                          "timed_out", "canceled", "superseded"},
                                 holder : Workers \union {"none"}, lease : 0..2]]
      BY <2>1 DEF RuntimeTypeOK, AttemptRecords, AttemptStates, AttemptOpen
    <3> QED
      BY <2>1, <3>2, <3>3 DEF RuntimeTypeOK, CortexTypeOK
  <2>3. RunningIsBacked
    <3>1. ASSUME NEW t \in Tasks
          PROVE  /\ task[t].state = "running" <=> attempt[t].state \in AttemptOpen
                 /\ task[t].state = "running" => task[t].slot
                 /\ ValidTask(t) /\ ValidAttempt(t)
      BY <2>1 DEF TaskFact, ValidTask, ValidAttempt
    <3> QED
      BY <2>1, <2>2, <3>1 DEF RunningIsBacked, Capacity
  <2>4. NothingLeftOver
    <3> SUFFICES ASSUME run \in RunOver
                 PROVE  /\ graph.schedule # "open"
                        /\ \A t \in Tasks : /\ Over(t) /\ ~task[t].slot /\ task[t].session # "open"
                                            /\ ~Unresolved(t)
      BY DEF NothingLeftOver
    <3>1. graph.schedule # "open" /\ \A t \in Tasks : Over(t)
      BY <2>1, TaskNames DEF RunFact, OthersOver, Over
    <3>2. \A t \in Tasks : task[t].state # "running"
      BY <3>1 DEF Over, TaskOver
    <3>3. ASSUME NEW t \in Tasks PROVE ~task[t].slot /\ task[t].session # "open" /\ ~Unresolved(t)
      BY <2>1, <3>1, <3>2 DEF TaskFact, AttemptOpen
    <3> QED
      BY <3>1, <3>3
  <2>5. OneAnswer
    BY <2>1 DEF RunFact, OneAnswer
  <2> QED
    BY <2>3, <2>4, <2>5 DEF RecordsAgree
<1> QED
  BY <1>1, CortexInitInv, CortexNextInv, PTL DEF CortexSpec

-----------------------------------------------------------------------------
(* How the records of a Run move                                           *)

RunLive == {"queued", "running", "waiting", "canceling"}

RunStep(a, b) ==
    \/ a = b
    \/ a = "none" /\ b = "queued"
    \/ a \in {"queued", "running", "waiting"} /\ b \in {"running", "canceling"}
    \/ a \in {"running", "waiting"} /\ b \in {"waiting", "succeeded", "failed"}
    \/ a \in RunLive /\ b \in {"canceled", "dead_lettered"}

TaskStep(a, b) ==
    \/ a = b
    \/ a \in TaskOver \union {"absent"} /\ b \in {"ready", "blocked"}
    \/ a \in {"ready", "waiting"} /\ b = "running"
    \/ a = "running" /\ b \in {"waiting", "succeeded", "superseded"}
    \/ a \in {"waiting", "blocked"} /\ b = "ready"
    \/ a = "waiting" /\ b \in {"failed", "superseded"}
    \/ a \in {"blocked", "ready", "running", "waiting"} /\ b \in {"canceled", "dead_lettered"}

AttemptStep(a, b) ==
    \/ a = b
    \/ a \notin AttemptOpen /\ b \in {"leased", "none"}
    \/ a = "leased" /\ b = "executing"
    \/ a = "executing" /\ b \in {"failed", "result_committed", "superseded"}
    \/ a \in AttemptOpen /\ b \in {"timed_out", "canceled"}

\* The lane that holds the lease has the provider's answer.
Answered(t) ==
    \E w \in Workers : /\ attempt[t].holder = w /\ attempt[t].lease > 0
                       /\ worker[w].pc = "answered" /\ worker[w].task = t

TurnStep(t) ==
    \/ turn'[t] = turn[t]
    \/ turn[t] \notin TurnOpen /\ turn'[t] \in {"none", "dispatched"}
    \/ turn[t] = "dispatched" /\ turn'[t] \in {"unknown", "failed", "canceled"}
    \/ turn[t] = "dispatched" /\ turn'[t] = "result_committed" /\ Answered(t)
    \/ turn[t] = "unknown" /\ turn'[t] = "failed"

RecordsStill ==
    /\ UNCHANGED <<run, turn>>
    /\ \A t \in Tasks : task'[t].state = task[t].state /\ attempt'[t].state = attempt[t].state

RecordsStep ==
    /\ RunStep(run, run')
    /\ \A t \in Tasks : /\ TaskStep(task[t].state, task'[t].state)
                        /\ AttemptStep(attempt[t].state, attempt'[t].state)
                        /\ TurnStep(t)
    /\ run \in RunOver => RecordsStill

LEMMA StillStep == RecordsStill => RecordsStep
BY DEF RecordsStill, RecordsStep, RunStep, TaskStep, AttemptStep, TurnStep

\* One Task moves, with its Attempt or Turn, in a Run that is alive.
LEMMA OneRecordSteps ==
    ASSUME CortexInv, NEW t \in Tasks, run \notin RunOver,
           \A u \in Tasks \ {t} : task'[u].state = task[u].state /\ attempt'[u].state = attempt[u].state
                                  /\ turn'[u] = turn[u],
           RunStep(run, run'), TaskStep(task[t].state, task'[t].state),
           AttemptStep(attempt[t].state, attempt'[t].state), TurnStep(t)
    PROVE  RecordsStep
BY DEF RecordsStep, RunStep, TaskStep, AttemptStep, TurnStep

LEMMA TurnCommandSteps ==
    ASSUME CortexInv, NEW w \in Workers, NEW t, t = worker[w].task, worker[w].pc # "idle",
           NEW v, turn' = [turn EXCEPT ![t] = v], UNCHANGED <<run, task>>, run = "running",
           t \in Tasks => /\ \A u \in Tasks : attempt'[u].state = attempt[u].state
                          /\ \/ turn[t] \notin TurnOpen /\ v = "dispatched"
                             \/ turn[t] \in TurnOpen /\ v \in {"unknown", "failed"}
                             \/ turn[t] = "dispatched" /\ v = "result_committed" /\ Answered(t)
    PROVE  RecordsStep
<1>1. turn \in [Tasks -> TurnOpen \union {"none", "result_committed", "failed", "canceled"}]
  BY DEF CortexInv, RuntimeTypeOK
<1>2. t \in Tasks
  <2>1. FoundFact(w) /\ HoldFact(w)
    BY DEF CortexInv
  <2> QED
    BY <2>1 DEF FoundFact, HoldFact
<1>3. turn'[t] = v /\ \A u \in Tasks \ {t} : turn'[u] = turn[u]
  BY <1>1, <1>2
<1>4. TurnStep(t)
  BY <1>2, <1>3 DEF TurnStep, TurnOpen
<1>5. RunStep(run, run') /\ TaskStep(task[t].state, task'[t].state) /\ AttemptStep(attempt[t].state, attempt'[t].state)
  BY <1>2 DEF RunStep, TaskStep, AttemptStep
<1>6. run \notin RunOver
  BY DEF RunOver
<1> QED
  BY <1>2, <1>3, <1>4, <1>5, <1>6, OneRecordSteps

LEMMA TurnActionsStep ==
    ASSUME CortexInv, NEW w \in Workers,
           ReclaimAttempt(w) \/ DispatchModelCall(w) \/ ResolveModelCall(w) \/ ResolveFailure(w) \/ MarkUnknown(w)
    PROVE  RecordsStep
<1>1. PICK t : t = worker[w].task
  OBVIOUS
<1>0. t \in Tasks
  <2>1. FoundFact(w) /\ HoldFact(w)
    BY DEF CortexInv
  <2>2. worker[w].pc # "idle"
    BY DEF ReclaimAttempt, DispatchModelCall, ResolveModelCall, ResolveFailure, MarkUnknown
  <2> QED
    BY <1>1, <2>1, <2>2 DEF FoundFact, HoldFact
<1>2. CASE ReclaimAttempt(w)
  <2>1. /\ worker[w].pc # "idle" /\ turn' = [turn EXCEPT ![t] = "unknown"] /\ UNCHANGED <<run, task>>
        /\ run = "running" /\ turn[t] \in TurnOpen
        /\ attempt' = [attempt EXCEPT ![t].holder = w, ![t].lease = 2]
    BY <1>1, <1>2 DEF ReclaimAttempt, ReclaimAllowed, Recoverable, Unresolved
  <2>2. \A u \in Tasks : attempt'[u].state = attempt[u].state
    <3>1. attempt \in [Tasks -> AttemptRecords]
      BY DEF CortexInv, RuntimeTypeOK
    <3> QED
      BY <2>1, <3>1 DEF AttemptRecords
  <2> QED
    BY <1>1, <2>1, <2>2, TurnCommandSteps
<1>3. CASE DispatchModelCall(w)
  <2>1. /\ worker[w].pc # "idle" /\ turn' = [turn EXCEPT ![t] = "dispatched"] /\ UNCHANGED <<run, task, attempt>>
        /\ run = "running" /\ turn[t] \notin TurnOpen
    BY <1>1, <1>3 DEF DispatchModelCall, CanDispatch, Fenced, Unresolved
  <2> QED
    BY <1>1, <2>1, TurnCommandSteps
<1>4. CASE ResolveModelCall(w)
  <2>1. /\ worker[w].pc = "answered" /\ turn' = [turn EXCEPT ![t] = "result_committed"] /\ UNCHANGED <<run, task, attempt>>
        /\ run = "running" /\ turn[t] \in TurnOpen /\ attempt[t].holder = w /\ attempt[t].lease > 0
    BY <1>1, <1>4 DEF ResolveModelCall, CanResolve, Fenced, Holds, Unresolved
  <2>2. turn[t] # "unknown"
    BY <1>1, <2>1 DEF CortexInv, HoldFact, Calling
  <2>3. turn[t] = "dispatched" /\ Answered(t)
    BY <1>1, <2>1, <2>2 DEF TurnOpen, Answered
  <2> QED
    BY <1>1, <2>1, <2>3, TurnCommandSteps
<1>5. CASE ResolveFailure(w)
  <2>1. /\ worker[w].pc # "idle" /\ turn' = [turn EXCEPT ![t] = "failed"] /\ UNCHANGED <<run, task, attempt>>
        /\ run = "running" /\ turn[t] \in TurnOpen
    BY <1>1, <1>5 DEF ResolveFailure, CanResolve, Fenced, Unresolved
  <2> QED
    BY <1>1, <2>1, TurnCommandSteps
<1>6. CASE MarkUnknown(w)
  <2>1. /\ worker[w].pc # "idle" /\ turn' = [turn EXCEPT ![t] = "unknown"] /\ UNCHANGED <<run, task, attempt>>
        /\ run = "running" /\ turn[t] \in TurnOpen
    BY <1>1, <1>6 DEF MarkUnknown, Fenced, TurnOpen
  <2> QED
    BY <1>1, <2>1, TurnCommandSteps
<1> QED
  BY <1>2, <1>3, <1>4, <1>5, <1>6

LEMMA AttemptActionsStep ==
    ASSUME CortexInv, NEW w \in Workers,
           ClaimTask(w) \/ StartAttempt(w) \/ FailAttempt(w) \/ CommitAttempt(w)
    PROVE  RecordsStep
<1>1. PICK t : t = worker[w].task
  OBVIOUS
<1>2. t \in Tasks
  <2>1. FoundFact(w) /\ HoldFact(w)
    BY DEF CortexInv
  <2>2. worker[w].pc # "idle"
    BY DEF ClaimTask, StartAttempt, FailAttempt, CommitAttempt
  <2> QED
    BY <1>1, <2>1, <2>2 DEF FoundFact, HoldFact
<1>3. /\ TaskFact(t) /\ task \in [Tasks -> TaskRecords] /\ attempt \in [Tasks -> AttemptRecords]
      /\ turn \in [Tasks -> TurnOpen \union {"none", "result_committed", "failed", "canceled"}]
  BY <1>2 DEF CortexInv, RuntimeTypeOK
<1>4. {"running", "waiting", "dead_lettered", "succeeded"} \subseteq TaskStates
  BY DEF TaskStates
<1>5. CASE ClaimTask(w)
  <2>1. /\ run \in {"queued", "running", "waiting"} /\ run' = "running"
        /\ task' = [task EXCEPT ![t] = [Moved(t, "running") EXCEPT !.slot = TRUE]]
        /\ attempt' = [attempt EXCEPT ![t] = [state |-> "leased", holder |-> w, lease |-> 2]]
        /\ turn' = [turn EXCEPT ![t] = "none"] /\ task[t].state \in {"ready", "waiting"}
    BY <1>1, <1>5 DEF ClaimTask, ClaimAllowed
  <2>2. PICK m : m = Moved(t, "running")
    OBVIOUS
  <2>3. m \in TaskRecords /\ m.state = "running"
    BY <1>2, <1>3, <1>4, <2>2, MovedRecord
  <2>4. PICK r : r = [m EXCEPT !.slot = TRUE]
    OBVIOUS
  <2>5. r.state = "running" /\ task' = [task EXCEPT ![t] = r]
    BY <2>1, <2>2, <2>3, <2>4 DEF TaskRecords
  <2>6. /\ task'[t].state = "running" /\ attempt'[t].state = "leased" /\ turn'[t] = "none"
        /\ \A u \in Tasks \ {t} : task'[u].state = task[u].state /\ attempt'[u].state = attempt[u].state
                                  /\ turn'[u] = turn[u]
    BY <1>2, <1>3, <2>1, <2>5
  <2>7. attempt[t].state \notin AttemptOpen /\ turn[t] \notin TurnOpen
    BY <1>3, <2>1 DEF TaskFact, AttemptOpen, Unresolved
  <2>8. /\ RunStep(run, run') /\ TaskStep(task[t].state, task'[t].state)
        /\ AttemptStep(attempt[t].state, attempt'[t].state) /\ TurnStep(t) /\ run \notin RunOver
    BY <2>1, <2>6, <2>7 DEF RunStep, TaskStep, AttemptStep, TurnStep, RunOver
  <2> QED
    BY <1>2, <2>6, <2>8, OneRecordSteps
<1>6. CASE StartAttempt(w)
  <2>1. /\ run = "running" /\ attempt' = [attempt EXCEPT ![t].state = "executing"] /\ UNCHANGED <<run, task, turn>>
        /\ attempt[t].state = "leased"
    BY <1>1, <1>6 DEF StartAttempt, Fenced
  <2>2. /\ attempt'[t].state = "executing" /\ \A u \in Tasks \ {t} : attempt'[u].state = attempt[u].state
    BY <1>2, <1>3, <2>1 DEF AttemptRecords
  <2>3. /\ RunStep(run, run') /\ TaskStep(task[t].state, task'[t].state)
        /\ AttemptStep(attempt[t].state, attempt'[t].state) /\ TurnStep(t) /\ run \notin RunOver
    BY <1>2, <2>1, <2>2 DEF RunStep, TaskStep, AttemptStep, TurnStep, RunOver
  <2> QED
    BY <1>2, <2>1, <2>2, <2>3, OneRecordSteps
<1>7. CASE FailAttempt(w)
  <2>1. /\ run = "running" /\ task[t].state = "running" /\ attempt[t].state = "executing" /\ UNCHANGED turn
        /\ attempt' = [attempt EXCEPT ![t] = Ending("failed")]
        /\ task' = [task EXCEPT ![t] = IF budget.retries > 0 THEN Moved(t, "waiting") ELSE Ended(t, "dead_lettered")]
        /\ run' \in {run, "waiting", "dead_lettered"}
    BY <1>1, <1>7 DEF FailAttempt, CanEnd, Fenced
  <2>2. Ending("failed").state = "failed"
    BY EndingRecord DEF AttemptStates
  <2>3. Moved(t, "waiting").state = "waiting" /\ Ended(t, "dead_lettered").state = "dead_lettered"
    BY <1>2, <1>3, <1>4, MovedRecord, EndedRecord
  <2>4. /\ task'[t].state \in {"waiting", "dead_lettered"} /\ attempt'[t].state = "failed"
        /\ \A u \in Tasks \ {t} : task'[u].state = task[u].state /\ attempt'[u].state = attempt[u].state
                                  /\ turn'[u] = turn[u]
    BY <1>2, <1>3, <2>1, <2>2, <2>3
  <2>5. /\ RunStep(run, run') /\ TaskStep(task[t].state, task'[t].state)
        /\ AttemptStep(attempt[t].state, attempt'[t].state) /\ TurnStep(t) /\ run \notin RunOver
    BY <1>2, <2>1, <2>4 DEF RunStep, TaskStep, AttemptStep, TurnStep, RunOver, RunLive
  <2> QED
    BY <1>2, <2>4, <2>5, OneRecordSteps
<1>8. CASE CommitAttempt(w)
  <2>1. /\ run = "running" /\ task[t].state = "running" /\ attempt[t].state = "executing" /\ UNCHANGED turn
        /\ attempt' = [attempt EXCEPT ![t] = Ending("result_committed")]
        /\ task' = [task EXCEPT ![t] = Ended(t, "succeeded")]
        /\ run' \in {run, "succeeded"}
    BY <1>1, <1>8 DEF CommitAttempt, CanEnd, Fenced
  <2>2. Ending("result_committed").state = "result_committed"
    BY EndingRecord DEF AttemptStates
  <2>3. Ended(t, "succeeded").state = "succeeded"
    BY <1>2, <1>3, <1>4, EndedRecord
  <2>4. /\ task'[t].state = "succeeded" /\ attempt'[t].state = "result_committed"
        /\ \A u \in Tasks \ {t} : task'[u].state = task[u].state /\ attempt'[u].state = attempt[u].state
                                  /\ turn'[u] = turn[u]
    BY <1>2, <1>3, <2>1, <2>2, <2>3
  <2>5. /\ RunStep(run, run') /\ TaskStep(task[t].state, task'[t].state)
        /\ AttemptStep(attempt[t].state, attempt'[t].state) /\ TurnStep(t) /\ run \notin RunOver
    BY <1>2, <2>1, <2>4 DEF RunStep, TaskStep, AttemptStep, TurnStep, RunOver
  <2> QED
    BY <1>2, <2>4, <2>5, OneRecordSteps
<1> QED
  BY <1>5, <1>6, <1>7, <1>8

LEMMA MovedStates ==
    ASSUME CortexInv, NEW t \in Tasks, NEW s \in TaskStates
    PROVE  /\ Moved(t, s).state = s /\ Ended(t, s).state = s
           /\ \A x : [Moved(t, s) EXCEPT !.session = x].state = s
           /\ \A x, y : [Moved(t, s) EXCEPT !.session = x, !.slot = y].state = s
           /\ \A x, y : [Moved(t, s) EXCEPT !.slot = y, !.session = x].state = s
           /\ \A x, y : [Moved(t, s) EXCEPT !.session = x, !.role = y].state = s
<1>1. PICK m : m = Moved(t, s)
  OBVIOUS
<1>2. m \in TaskRecords /\ m.state = s /\ Ended(t, s).state = s
  BY <1>1, MovedRecord, EndedRecord DEF CortexInv, RuntimeTypeOK
<1>3. /\ \A x : [m EXCEPT !.session = x].state = s
      /\ \A x, y : [m EXCEPT !.session = x, !.slot = y].state = s
      /\ \A x, y : [m EXCEPT !.slot = y, !.session = x].state = s
      /\ \A x, y : [m EXCEPT !.session = x, !.role = y].state = s
  BY <1>2 DEF TaskRecords
<1> QED
  BY <1>1, <1>2, <1>3

LEMMA TreeTypes ==
    ASSUME CortexInv
    PROVE  /\ task \in [Tasks -> TaskRecords] /\ attempt \in [Tasks -> AttemptRecords]
           /\ turn \in [Tasks -> TurnOpen \union {"none", "result_committed", "failed", "canceled"}]
           /\ \A t \in Tasks : /\ task[t].state \in TaskStates /\ attempt[t].state \in AttemptStates
                               /\ turn[t] \in TurnOpen \union {"none", "result_committed", "failed", "canceled"}
                               /\ task[t].state # "running" => attempt[t].state \notin AttemptOpen /\ turn[t] \notin TurnOpen
<1>1. ASSUME NEW t \in Tasks, task[t].state # "running"
      PROVE  attempt[t].state \notin AttemptOpen /\ turn[t] \notin TurnOpen
  BY <1>1 DEF CortexInv, TaskFact, AttemptOpen, Unresolved
<1> QED
  BY <1>1 DEF CortexInv, RuntimeTypeOK, TaskRecords, AttemptRecords

LEMMA ParkingActionsStep ==
    ASSUME CortexInv, NEW w \in Workers,
           AdmitScoutChild(w) \/ AdmitTaskGraph(w) \/ PrepareTaskGraphNextRound(w)
    PROVE  RecordsStep
<1>1. {"waiting", "ready", "superseded"} \subseteq TaskStates
  BY DEF TaskStates
<1>2. Ending("superseded").state = "superseded"
  BY EndingRecord DEF AttemptStates
<1>3. CASE AdmitScoutChild(w)
  <2>1. /\ run = "running" /\ task[Root].state = "running" /\ attempt[Root].state = "executing"
        /\ task[Scout].state = "absent" /\ UNCHANGED <<run, turn>>
        /\ attempt' = [attempt EXCEPT ![Root] = Ending("superseded")]
        /\ task' = [task EXCEPT
             ![Root] = [Moved(Root, "waiting") EXCEPT !.session = "closed"],
             ![Scout] = [NoTask EXCEPT !.state = "ready", !.session = "open", !.role = "scout"]]
    BY <1>3 DEF AdmitScoutChild, CanPark, CanEnd, Fenced
  <2>2. /\ [Moved(Root, "waiting") EXCEPT !.session = "closed"].state = "waiting"
        /\ [NoTask EXCEPT !.state = "ready", !.session = "open", !.role = "scout"].state = "ready"
    BY <1>1, MovedStates, TaskNames DEF NoTask
  <2>3. /\ task'[Root].state = "waiting" /\ task'[Scout].state = "ready" /\ attempt'[Root].state = "superseded"
        /\ \A u \in Tasks \ {Root, Scout} : task'[u] = task[u]
        /\ \A u \in Tasks \ {Root} : attempt'[u] = attempt[u]
    BY <1>2, <2>1, <2>2, TaskNames, TreeTypes
  <2>4. ASSUME NEW u \in Tasks
        PROVE  /\ TaskStep(task[u].state, task'[u].state) /\ AttemptStep(attempt[u].state, attempt'[u].state)
               /\ TurnStep(u)
    BY <2>1, <2>3 DEF TaskStep, AttemptStep, TurnStep
  <2> QED
    BY <2>1, <2>4 DEF RecordsStep, RunStep, RunOver
<1>4. CASE AdmitTaskGraph(w)
  <2>1. /\ run = "running" /\ task[Root].state = "running" /\ attempt[Root].state = "executing"
        /\ UNCHANGED run /\ worker[w].pc = "act" /\ CanPark(w)
        /\ attempt' = [t \in Tasks |-> IF t = Root THEN Ending("superseded")
                                       ELSE IF t \in GraphTasks THEN NoAttempt ELSE attempt[t]]
        /\ turn' = [t \in Tasks |-> IF t \in GraphTasks THEN "none" ELSE turn[t]]
        /\ task' = [t \in Tasks |->
                      IF t = Root THEN [Moved(Root, "waiting") EXCEPT !.session = "closed", !.slot = FALSE]
                      ELSE IF t \in GraphTasks THEN NodeAdmitted(t) ELSE task[t]]
    BY <1>4 DEF AdmitTaskGraph, CanPark, CanEnd, Fenced, Moved
  <2>2. OthersOver(Root)
    BY <2>1, ParkingRoot
  <2>3. [Moved(Root, "waiting") EXCEPT !.session = "closed", !.slot = FALSE].state = "waiting"
    BY <1>1, MovedStates, TaskNames
  <2>4. ASSUME NEW u \in Tasks
        PROVE  /\ TaskStep(task[u].state, task'[u].state) /\ AttemptStep(attempt[u].state, attempt'[u].state)
               /\ TurnStep(u)
    <3>1. CASE u = Root
      BY <1>2, <2>1, <2>3, <3>1, TaskNames DEF TaskStep, AttemptStep, TurnStep
    <3>2. CASE u \in GraphTasks
      <4>1. /\ task'[u].state \in {"blocked", "ready"} /\ attempt'[u].state = "none" /\ turn'[u] = "none"
        BY <2>1, <3>2, NodeRecords, TaskNames DEF NoAttempt
      <4>2. task[u].state \in TaskOver \union {"absent"}
        BY <2>2, <3>2, TaskNames DEF OthersOver, Over
      <4>3. attempt[u].state \notin AttemptOpen /\ turn[u] \notin TurnOpen
        BY <4>2, TreeTypes DEF TaskOver
      <4> QED
        BY <4>1, <4>2, <4>3 DEF TaskStep, AttemptStep, TurnStep
    <3>3. CASE u # Root /\ u \notin GraphTasks
      BY <2>1, <3>3 DEF TaskStep, AttemptStep, TurnStep
    <3> QED
      BY <3>1, <3>2, <3>3
  <2> QED
    BY <2>1, <2>4 DEF RecordsStep, RunStep, RunOver
<1>5. CASE PrepareTaskGraphNextRound(w)
  <2>1. /\ run = "running" /\ task[Desk].state = "running" /\ attempt[Desk].state = "executing"
        /\ task[Root].state = "waiting" /\ UNCHANGED <<run, turn>>
        /\ attempt' = [attempt EXCEPT ![Desk] = Ending("superseded")]
        /\ task' = [task EXCEPT
             ![Desk] = Ended(Desk, "superseded"),
             ![Root] = [Moved(Root, "ready") EXCEPT !.session = "open", !.role = "round_planner"]]
    BY <1>5 DEF PrepareTaskGraphNextRound, CanRefine, CanEnd, Fenced
  <2>2. /\ Ended(Desk, "superseded").state = "superseded"
        /\ [Moved(Root, "ready") EXCEPT !.session = "open", !.role = "round_planner"].state = "ready"
    BY <1>1, MovedStates, TaskNames
  <2>3. /\ task'[Root].state = "ready" /\ task'[Desk].state = "superseded" /\ attempt'[Desk].state = "superseded"
        /\ \A u \in Tasks \ {Root, Desk} : task'[u] = task[u]
        /\ \A u \in Tasks \ {Desk} : attempt'[u] = attempt[u]
    BY <1>2, <2>1, <2>2, TaskNames, TreeTypes
  <2>4. ASSUME NEW u \in Tasks
        PROVE  /\ TaskStep(task[u].state, task'[u].state) /\ AttemptStep(attempt[u].state, attempt'[u].state)
               /\ TurnStep(u)
    BY <2>1, <2>3 DEF TaskStep, AttemptStep, TurnStep
  <2> QED
    BY <2>1, <2>4 DEF RecordsStep, RunStep, RunOver
<1> QED
  BY <1>3, <1>4, <1>5

LEMMA RootActionsStep ==
    ASSUME CortexInv,
           AdmitRun \/ ContinueScoutParent \/ FailScoutParent \/ ResolveJoin \/ CompleteGraph
    PROVE  RecordsStep
<1>1. {"waiting", "ready", "superseded", "failed", "dead_lettered"} \subseteq TaskStates
  BY DEF TaskStates
<1>2. UNCHANGED <<attempt, turn>>
  BY DEF AdmitRun, ContinueScoutParent, FailScoutParent, ResolveJoin, CompleteGraph
<1>3. CASE AdmitRun
  <2>1. run = "none" /\ run' = "queued" /\ task[Root].state = "absent"
    BY <1>3 DEF AdmitRun, CortexInv, RunFact
  <2>2. task' = [task EXCEPT ![Root] = [task[Root] EXCEPT !.state = "ready", !.role = "intent"]]
    BY <1>3 DEF AdmitRun
  <2>3. [task[Root] EXCEPT !.state = "ready", !.role = "intent"].state = "ready"
    BY TreeTypes, TaskNames DEF TaskRecords
  <2>4. task'[Root].state = "ready" /\ \A u \in Tasks \ {Root} : task'[u] = task[u]
    BY <2>2, <2>3, TreeTypes, TaskNames
  <2> QED
    BY <1>2, <2>1, <2>4, TaskNames DEF RecordsStep, RunStep, TaskStep, AttemptStep, TurnStep, RunOver
<1>4. CASE ContinueScoutParent
  <2>1. /\ run = "running" /\ UNCHANGED run /\ task[Root].state = "waiting"
        /\ task' = [task EXCEPT ![Root] = [Moved(Root, "ready") EXCEPT !.session = "open", !.role = "desk"]]
    BY <1>4 DEF ContinueScoutParent
  <2>2. [Moved(Root, "ready") EXCEPT !.session = "open", !.role = "desk"].state = "ready"
    BY <1>1, MovedStates, TaskNames
  <2>3. task'[Root].state = "ready" /\ \A u \in Tasks \ {Root} : task'[u] = task[u]
    BY <2>1, <2>2, TreeTypes, TaskNames
  <2> QED
    BY <1>2, <2>1, <2>3, TaskNames DEF RecordsStep, RunStep, TaskStep, AttemptStep, TurnStep, RunOver
<1>5. CASE FailScoutParent \/ CompleteGraph
  <2>1. PICK s \in {"failed", "superseded"} :
           task' = [task EXCEPT ![Root] = Ended(Root, s)]
    BY <1>5 DEF FailScoutParent, CompleteGraph
  <2>2. /\ run \in {"running", "waiting"} /\ run' \in {"failed", "succeeded"} /\ task[Root].state = "waiting"
    BY <1>5 DEF FailScoutParent, CompleteGraph
  <2>3. Ended(Root, s).state = s
    BY <1>1, MovedStates, TaskNames
  <2>4. task'[Root].state = s /\ \A u \in Tasks \ {Root} : task'[u] = task[u]
    BY <2>1, <2>3, TreeTypes, TaskNames
  <2> QED
    BY <1>2, <2>2, <2>4, TaskNames DEF RecordsStep, RunStep, TaskStep, AttemptStep, TurnStep, RunOver
<1>6. CASE ResolveJoin
  <2>1. /\ run \in {"running", "waiting"} /\ run' \in {run, "dead_lettered"}
        /\ task[Root].state = "waiting" /\ task[Desk].state = "blocked"
        /\ \/ task' = [task EXCEPT ![Desk] = Moved(Desk, "ready")]
           \/ task' = [task EXCEPT ![Desk] = Ended(Desk, "dead_lettered"), ![Root] = Ended(Root, "dead_lettered")]
    BY <1>6 DEF ResolveJoin
  <2>2. /\ Moved(Desk, "ready").state = "ready" /\ Ended(Desk, "dead_lettered").state = "dead_lettered"
        /\ Ended(Root, "dead_lettered").state = "dead_lettered"
    BY <1>1, MovedStates, TaskNames
  <2>3. /\ task'[Desk].state \in {"ready", "dead_lettered"} /\ task'[Root].state \in {"waiting", "dead_lettered"}
        /\ \A u \in Tasks \ {Root, Desk} : task'[u] = task[u]
    <3>1. CASE task' = [task EXCEPT ![Desk] = Moved(Desk, "ready")]
      BY <2>1, <2>2, <3>1, TreeTypes, TaskNames
    <3>2. CASE task' = [task EXCEPT ![Desk] = Ended(Desk, "dead_lettered"), ![Root] = Ended(Root, "dead_lettered")]
      BY <2>1, <2>2, <3>2, TreeTypes, TaskNames
    <3> QED
      BY <2>1, <3>1, <3>2
  <2>4. ASSUME NEW u \in Tasks PROVE TaskStep(task[u].state, task'[u].state)
    BY <2>1, <2>3 DEF TaskStep
  <2> QED
    BY <1>2, <2>1, <2>4 DEF RecordsStep, RunStep, AttemptStep, TurnStep, RunOver, RunLive
<1> QED
  BY <1>3, <1>4, <1>5, <1>6

\* Closing a live Run moves everything that is alive, and nothing else.
LEMMA CloseTreeStep ==
    ASSUME CortexInv, NEW ts \in {"failed", "canceled"}, NEW as \in {"timed_out", "canceled"},
           NEW ks \in {"dead_lettered", "canceled"}, CloseTree(ts, as, ks, ks),
           run \notin RunOver \union {"none"}, ts = "canceled" => NoneUnknown
    PROVE  RecordsStep
<1>1. run' = ks /\ run \in RunLive
  BY DEF CloseTree, RunLive, CortexInv, RuntimeTypeOK
<1>2. ASSUME NEW t \in Tasks
      PROVE  /\ TaskStep(task[t].state, task'[t].state) /\ AttemptStep(attempt[t].state, attempt'[t].state)
             /\ TurnStep(t)
  <2>1. task'[t].state = (IF Over(t) THEN task[t].state ELSE ks)
    BY ClosedTask
  <2>2. task[t].state \in TaskStates
    BY TreeTypes
  <2>3. TaskStep(task[t].state, task'[t].state)
    BY <2>1, <2>2 DEF TaskStep, Over, TaskOver, TaskStates
  <2>4. attempt'[t] = IF attempt[t].state \in AttemptOpen THEN Ending(as) ELSE attempt[t]
    BY DEF CloseTree
  <2>5. Ending(as).state = as
    BY EndingRecord DEF AttemptStates
  <2>6. AttemptStep(attempt[t].state, attempt'[t].state)
    BY <2>4, <2>5 DEF AttemptStep
  <2>7. turn'[t] = IF turn[t] \in TurnOpen THEN ts ELSE turn[t]
    BY DEF CloseTree, Unresolved
  <2>8. TurnStep(t)
    BY <2>7 DEF TurnStep, NoneUnknown, TurnOpen
  <2> QED
    BY <2>3, <2>6, <2>8
<1> QED
  BY <1>1, <1>2 DEF RecordsStep, RunStep

LEMMA CancellationsStep ==
    ASSUME CortexInv, ReconcileExpiredRuns \/ CancelRun \/ ReconcileRunCancellations
    PROVE  RecordsStep
<1>1. CASE ReconcileExpiredRuns
  BY <1>1, CloseTreeStep DEF ReconcileExpiredRuns
<1>2. CASE CloseTree("canceled", "canceled", "canceled", "canceled") /\ NoneUnknown
           /\ run \notin RunOver \union {"none"}
  BY <1>2, CloseTreeStep
<1>3. CASE UNCHANGED <<run, task, attempt, turn, graph>>
  BY <1>3, StillStep DEF RecordsStill
<1>4. CASE run' = "canceling" /\ run \notin RunOver \union {"none"} /\ UNCHANGED <<task, attempt, turn, graph>>
  <2>1. run \in RunLive
    BY <1>4 DEF CortexInv, RuntimeTypeOK, RunLive
  <2> QED
    BY <1>4, <2>1 DEF RecordsStep, RunStep, TaskStep, AttemptStep, TurnStep, RunLive
<1>5. CASE CancelRun
  BY <1>2, <1>3, <1>4, <1>5 DEF CancelRun, CancelSeed
<1>6. CASE ReconcileRunCancellations
  <2>1. run # "none"
    BY <1>6 DEF ReconcileRunCancellations, CortexInv, RunFact
  <2> QED
    BY <1>2, <1>3, <1>6, <2>1 DEF ReconcileRunCancellations
<1> QED
  BY <1>1, <1>5, <1>6

\* Leases, lanes, Sessions and clocks move no record of the contract.
LEMMA QuietActionsStep ==
    ASSUME CortexInv,
           \/ \E w \in Workers : \/ \E t \in Tasks : NextTask(w, t)
                                 \/ ProviderReturns(w) \/ ScoutRejected(w) \/ Denied(w) \/ AdmissionFails(w)
                                 \/ HeartbeatLoop(w) \/ ReadFails(w) \/ WorkerDies(Process[w])
           \/ \E t \in Tasks : LeaseAges(t)
           \/ \E t \in GraphTasks : PrepareTaskGraphNodeSession(t) \/ RecoverNodeSession(t)
           \/ PrepareRootSession \/ CommitRawInput \/ SubmitUserRequest
           \/ ControlDies \/ DeadlineNears \/ AuthorityRevoked \/ UNCHANGED cortexVars
    PROVE  RecordsStep
<1> SUFFICES RecordsStill
  BY StillStep
<1>1. UNCHANGED <<run, turn>>
  BY DEF NextTask, ProviderReturns, ScoutRejected, Denied, AdmissionFails, HeartbeatLoop, ReadFails, WorkerDies,
         LeaseAges, PrepareTaskGraphNodeSession, RecoverNodeSession, PrepareRootSession, CommitRawInput,
         SubmitUserRequest, ControlDies, DeadlineNears, AuthorityRevoked, cortexVars
<1>2. \/ UNCHANGED attempt
      \/ \E w \in Workers : HeartbeatLoop(w)
      \/ \E t \in Tasks : LeaseAges(t)
  BY DEF NextTask, ProviderReturns, ScoutRejected, Denied, AdmissionFails, ReadFails, WorkerDies,
         PrepareTaskGraphNodeSession, RecoverNodeSession, PrepareRootSession, CommitRawInput,
         SubmitUserRequest, ControlDies, DeadlineNears, AuthorityRevoked, cortexVars
<1>3. \A u \in Tasks : attempt'[u].state = attempt[u].state
  <2>1. CASE UNCHANGED attempt
    BY <2>1
  <2>2. CASE \E w \in Workers : HeartbeatLoop(w)
    BY <2>2, TreeTypes DEF HeartbeatLoop, AttemptRecords
  <2>3. CASE \E t \in Tasks : LeaseAges(t)
    BY <2>3, TreeTypes DEF LeaseAges, AttemptRecords
  <2> QED
    BY <1>2, <2>1, <2>2, <2>3
<1>4. \/ UNCHANGED task \/ PrepareRootSession
      \/ \E t \in GraphTasks : PrepareTaskGraphNodeSession(t) \/ RecoverNodeSession(t)
  BY DEF NextTask, ProviderReturns, ScoutRejected, Denied, AdmissionFails, HeartbeatLoop, ReadFails, WorkerDies,
         LeaseAges, CommitRawInput, SubmitUserRequest, ControlDies, DeadlineNears, AuthorityRevoked, cortexVars
<1>5. \/ UNCHANGED task
      \/ \E t \in Tasks : \E s : task' = [task EXCEPT ![t].session = s]
  BY <1>4, TaskNames DEF PrepareRootSession, PrepareTaskGraphNodeSession, RecoverNodeSession
<1>6. \A u \in Tasks : task'[u].state = task[u].state
  <2>1. CASE UNCHANGED task
    BY <2>1
  <2>2. ASSUME NEW t \in Tasks, NEW s, task' = [task EXCEPT ![t].session = s]
        PROVE  \A u \in Tasks : task'[u].state = task[u].state
    BY <2>2, TreeTypes DEF TaskRecords
  <2> QED
    BY <1>5, <2>1, <2>2
<1> QED
  BY <1>1, <1>3, <1>6 DEF RecordsStill

LEMMA CortexNextStep ==
    ASSUME CortexInv, [CortexNext]_cortexVars
    PROVE  RecordsStep
<1>1. CASE \E w \in Workers : LaneStep(w)
  BY <1>1, QuietActionsStep, TurnActionsStep, AttemptActionsStep, ParkingActionsStep DEF LaneStep
<1>2. CASE \E w \in Workers : HeartbeatLoop(w) \/ ReadFails(w) \/ WorkerDies(Process[w])
  BY <1>2, QuietActionsStep
<1>3. CASE Intake
  BY <1>3, QuietActionsStep, RootActionsStep DEF Intake
<1>4. CASE Daemons \/ CancelRun
  BY <1>4, QuietActionsStep, RootActionsStep, CancellationsStep DEF Daemons
<1>5. CASE (\E t \in Tasks : LeaseAges(t)) \/ ControlDies \/ DeadlineNears \/ AuthorityRevoked \/ UNCHANGED cortexVars
  BY <1>5, QuietActionsStep
<1> QED
  BY <1>1, <1>2, <1>3, <1>4, <1>5 DEF CortexNext

\* However long the provider takes and whoever reclaimed the lease meanwhile: a
\* Turn whose outcome was given up is only resolved as failed, and a result is
\* only committed by the lane that holds the lease of its Attempt.
THEOREM LateAnswersAreRefused == CortexSpec => LateAnswerNeverAccepted
<1>1. CortexInv /\ [CortexNext]_cortexVars =>
        [\A t \in Tasks :
           /\ turn[t] = "unknown" => turn'[t] \in {"unknown", "failed"}
           /\ turn[t] = "dispatched" /\ turn'[t] = "result_committed" =>
                \E w \in Workers : /\ attempt[t].holder = w /\ attempt[t].lease > 0
                                   /\ worker[w].pc = "answered" /\ worker[w].task = t]_cortexVars
  <2> SUFFICES ASSUME CortexInv, [CortexNext]_cortexVars, NEW t \in Tasks
               PROVE  /\ turn[t] = "unknown" => turn'[t] \in {"unknown", "failed"}
                      /\ turn[t] = "dispatched" /\ turn'[t] = "result_committed" =>
                           \E w \in Workers : /\ attempt[t].holder = w /\ attempt[t].lease > 0
                                              /\ worker[w].pc = "answered" /\ worker[w].task = t
    OBVIOUS
  <2>1. TurnStep(t)
    BY CortexNextStep DEF RecordsStep
  <2> QED
    BY <2>1 DEF TurnStep, TurnOpen, Answered
<1> QED
  BY <1>1, CortexInitInv, CortexNextInv, PTL DEF CortexSpec, LateAnswerNeverAccepted

-----------------------------------------------------------------------------
(* The lifecycle contract of the Go side                                   *)

LEMMA ContractSubjects ==
    /\ DOMAIN RunContract!transitionGraph["Run"] = RunLive
    /\ DOMAIN RunContract!transitionGraph["Task"] = {"blocked", "ready", "running", "waiting", "result_committed"}
    /\ DOMAIN RunContract!transitionGraph["Attempt"] = AttemptOpen
    /\ DOMAIN RunContract!transitionGraph["Turn"] = {"planned"} \union TurnOpen
    /\ RunContract!transitionGraph.Run = RunContract!transitionGraph["Run"]
BY DEF RunContract!transitionGraph, RunLive, AttemptOpen, TurnOpen

LEMMA RunTransitions ==
    /\ RunContract!CanTransition("Run", "queued", "running")
    /\ \A b \in {"waiting", "canceling", "succeeded", "failed", "dead_lettered"} :
         RunContract!CanTransition("Run", "running", b)
    /\ \A b \in {"running", "canceling", "failed", "canceled", "dead_lettered"} :
         RunContract!CanTransition("Run", "waiting", b)
    /\ \A b \in {"canceled", "dead_lettered"} : /\ RunContract!CanTransition("Run", "canceling", b)
                                                /\ RunContract!CanTransition("Run", "queued", b)
BY DEF RunContract!CanTransition, RunContract!transitionGraph

LEMMA RunFollows ==
    ASSUME NEW a \in RunLive, NEW b, RunStep(a, b)
    PROVE  RunContract!Follows("Run", a, b)
<1>1. a = b \/ RunContract!CanTransition("Run", a, b)
      \/ \E mid \in RunLive : RunContract!CanTransition("Run", a, mid) /\ RunContract!CanTransition("Run", mid, b)
  <2>1. {"running", "canceling"} \subseteq RunLive
    BY DEF RunLive
  <2>2. CASE a = "queued"
    BY <2>1, <2>2, RunTransitions DEF RunStep
  <2>3. CASE a = "running"
    BY <2>1, <2>3, RunTransitions DEF RunStep
  <2>4. CASE a = "waiting"
    BY <2>1, <2>4, RunTransitions DEF RunStep
  <2>5. CASE a = "canceling"
    BY <2>1, <2>5, RunTransitions DEF RunStep
  <2> QED
    BY <2>2, <2>3, <2>4, <2>5 DEF RunLive
<1> QED
  BY <1>1, ContractSubjects DEF RunContract!Follows

LEMMA TaskTransitions ==
    /\ \A b \in {"ready", "canceled", "dead_lettered"} : RunContract!CanTransition("Task", "blocked", b)
    /\ \A b \in {"running", "canceled", "dead_lettered"} : RunContract!CanTransition("Task", "ready", b)
    /\ \A b \in {"waiting", "result_committed", "canceled", "superseded", "dead_lettered"} :
         RunContract!CanTransition("Task", "running", b)
    /\ \A b \in {"ready", "running", "failed", "canceled", "superseded", "dead_lettered"} :
         RunContract!CanTransition("Task", "waiting", b)
    /\ RunContract!CanTransition("Task", "result_committed", "succeeded")
BY DEF RunContract!CanTransition, RunContract!transitionGraph

\* The state of a Task as the contract names it.
Shown(s) == IF s = "absent" THEN "none" ELSE s

LEMMA TaskMoves ==
    ASSUME NEW a \in TaskStates, NEW b \in TaskStates, TaskStep(a, b)
    PROVE  RunContract!Moves("Task", Shown(a), Shown(b))
<1>1. CASE a = b
  BY <1>1 DEF RunContract!Moves, RunContract!Follows
<1>2. CASE a # b /\ a \in TaskOver \union {"absent"}
  <2>1. b \in {"ready", "blocked"} /\ Shown(b) = b
    BY <1>2 DEF TaskStep, Shown, TaskOver
  <2>2. Shown(a) \notin DOMAIN RunContract!transitionGraph["Task"]
    BY <1>2, ContractSubjects DEF Shown, TaskOver
  <2>3. b \in RunContract!initialSubjectState["Task"]
    BY <2>1 DEF RunContract!initialSubjectState
  <2> QED
    BY <2>1, <2>2, <2>3 DEF RunContract!Moves, RunContract!Replaced, RunContract!Follows
<1>3. CASE a # b /\ a \in {"blocked", "ready", "running", "waiting"}
  <2>1. Shown(a) = a /\ Shown(b) = b
    BY <1>3 DEF Shown, TaskStep, TaskOver
  <2>2. \/ RunContract!CanTransition("Task", a, b)
        \/ RunContract!CanTransition("Task", a, "result_committed") /\ RunContract!CanTransition("Task", "result_committed", b)
    BY <1>3, TaskTransitions DEF TaskStep, TaskOver
  <2>3. "result_committed" \in DOMAIN RunContract!transitionGraph["Task"]
    BY ContractSubjects
  <2> QED
    BY <2>1, <2>2, <2>3 DEF RunContract!Moves, RunContract!Follows
<1> QED
  BY <1>1, <1>2, <1>3 DEF TaskStates, TaskOver

LEMMA AttemptMoves ==
    ASSUME NEW a \in AttemptStates, NEW b, AttemptStep(a, b)
    PROVE  RunContract!Moves("Attempt", a, b)
<1>1. CASE a = b
  BY <1>1 DEF RunContract!Moves, RunContract!Follows
<1>2. CASE a # b /\ a \notin AttemptOpen
  <2>1. b \in {"leased", "none"}
    BY <1>2 DEF AttemptStep, AttemptOpen
  <2>2. "leased" \in RunContract!initialSubjectState["Attempt"]
    BY DEF RunContract!initialSubjectState
  <2> QED
    BY <1>2, <2>1, <2>2, ContractSubjects DEF RunContract!Moves, RunContract!Replaced, RunContract!Follows
<1>3. CASE a # b /\ a \in AttemptOpen
  <2>1. RunContract!CanTransition("Attempt", a, b)
    BY <1>3 DEF AttemptStep, AttemptOpen, RunContract!CanTransition, RunContract!transitionGraph
  <2> QED
    BY <2>1 DEF RunContract!Moves, RunContract!Follows
<1> QED
  BY <1>1, <1>2, <1>3

LEMMA TurnMoves ==
    ASSUME NEW t, turn[t] # "planned", TurnStep(t)
    PROVE  RunContract!Moves("Turn", turn[t], turn'[t])
<1>1. CASE turn'[t] = turn[t]
  BY <1>1 DEF RunContract!Moves, RunContract!Follows
<1>2. CASE turn[t] \notin TurnOpen /\ turn'[t] \in {"none", "dispatched"}
  <2>1. "planned" \in RunContract!initialSubjectState["Turn"] /\ RunContract!CanTransition("Turn", "planned", "dispatched")
    BY DEF RunContract!initialSubjectState, RunContract!CanTransition, RunContract!transitionGraph
  <2>2. turn[t] \notin DOMAIN RunContract!transitionGraph["Turn"]
    BY <1>2, ContractSubjects
  <2> QED
    BY <1>2, <2>1, <2>2 DEF RunContract!Moves, RunContract!Replaced, RunContract!Follows
<1>3. CASE turn[t] \in TurnOpen /\ turn'[t] # turn[t]
  <2>1. RunContract!CanTransition("Turn", turn[t], turn'[t])
    BY <1>3 DEF TurnStep, TurnOpen, RunContract!CanTransition, RunContract!transitionGraph
  <2> QED
    BY <2>1 DEF RunContract!Moves, RunContract!Follows
<1> QED
  BY <1>1, <1>2, <1>3 DEF TurnStep, TurnOpen

\* When the Run is over, so is everything the contract counts.
AllOver ==
    run \in RunOver =>
        \A t \in Tasks : /\ Shown(task[t].state) \in TaskOver \union {"none"}
                          /\ attempt[t].state \notin AttemptOpen
                          /\ turn[t] \notin {"planned"} \union TurnOpen

LEMMA RunOverAllOver == CortexInv => AllOver
<1> SUFFICES ASSUME CortexInv, run \in RunOver, NEW t \in Tasks
             PROVE  /\ Shown(task[t].state) \in TaskOver \union {"none"}
                    /\ attempt[t].state \notin AttemptOpen /\ turn[t] \notin {"planned"} \union TurnOpen
  BY DEF AllOver
<1>1. Over(t)
  BY TaskNames DEF CortexInv, RunFact, OthersOver, Over
<1>2. task[t].state # "running"
  BY <1>1 DEF Over, TaskOver
<1> QED
  BY <1>1, <1>2, TreeTypes DEF Over, Shown, TurnOpen

LEMMA RunOverAllOverNext == CortexInv' => AllOver'
BY RunOverAllOver, PTL

LEMMA ContractInitially == CortexInit => RunContract!ContractInit
<1> SUFFICES ASSUME CortexInit PROVE RunContract!ContractInit
  OBVIOUS
<1>1. \A t \in Tasks : task[t].state = "absent" /\ attempt[t].state = "none"
  BY DEF CortexInit, NoTask, NoAttempt
<1> QED
  BY <1>1 DEF CortexInit, RunContract!ContractInit

LEMMA ContractStep ==
    ASSUME CortexInv, CortexInv', RecordsStep
    PROVE  RunContract!ContractNext \/ UNCHANGED RunContract!contractVars
<1>1. CASE RecordsStill
  <2>1. /\ [t \in Tasks |-> IF task'[t].state = "absent" THEN "none" ELSE task'[t].state]
             = [t \in Tasks |-> IF task[t].state = "absent" THEN "none" ELSE task[t].state]
        /\ [t \in Tasks |-> attempt'[t].state] = [t \in Tasks |-> attempt[t].state]
        /\ run' = run /\ turn' = turn
    BY <1>1 DEF RecordsStill
  <2> QED
    BY <2>1 DEF RunContract!contractVars
<1>2. CASE ~RecordsStill
  <2>1. /\ run \notin RunOver /\ RunStep(run, run')
        /\ \A t \in Tasks : /\ TaskStep(task[t].state, task'[t].state)
                            /\ AttemptStep(attempt[t].state, attempt'[t].state) /\ TurnStep(t)
    BY <1>2 DEF RecordsStep
  <2>2. run \in RunLive \union {"none"} /\ run' \in RunOver \union RunLive \union {"none"}
    BY <2>1 DEF CortexInv, RuntimeTypeOK, RunLive
  <2>3. RunContract!Follows("Run", run, run') \/ (run = "none" /\ run' = "queued")
    <3>1. CASE run = "none"
      BY <2>1, <3>1 DEF RunStep, RunLive, RunContract!Follows
    <3>2. CASE run \in RunLive
      BY <2>1, <3>2, RunFollows
    <3> QED
      BY <2>2, <3>1, <3>2
  <2>4. ASSUME NEW t \in Tasks
        PROVE  /\ RunContract!Moves("Task", Shown(task[t].state), Shown(task'[t].state))
               /\ RunContract!Moves("Attempt", attempt[t].state, attempt'[t].state)
               /\ RunContract!Moves("Turn", turn[t], turn'[t])
    <3>1. task[t].state \in TaskStates /\ task'[t].state \in TaskStates /\ attempt[t].state \in AttemptStates
      BY DEF CortexInv, RuntimeTypeOK, TaskRecords, AttemptRecords
    <3>2. turn[t] # "planned"
      BY TreeTypes DEF TurnOpen
    <3> QED
      BY <2>1, <3>1, <3>2, TaskMoves, AttemptMoves, TurnMoves
  <2>5. Shown(task[Root].state) # "none" => ~RunContract!Replaced("Task", Shown(task[Root].state), Shown(task'[Root].state))
    <3>1. task[Root].state \in TaskStates \ (TaskOver \union {"blocked"})
      BY <2>1, TreeTypes, TaskNames DEF CortexInv, RunFact
    <3>2. Shown(task[Root].state) # "none" => Shown(task[Root].state) \in DOMAIN RunContract!transitionGraph["Task"]
      BY <3>1, ContractSubjects DEF Shown, TaskStates, TaskOver
    <3> QED
      BY <3>2 DEF RunContract!Replaced
  <2>6. run # "none" => run \in DOMAIN RunContract!transitionGraph.Run
    BY <2>2, ContractSubjects
  <2>7. ASSUME run' # "none", RunContract!Over("Run", run'), NEW t \in Tasks
        PROVE  /\ RunContract!Over("Task", Shown(task'[t].state)) /\ RunContract!Over("Attempt", attempt'[t].state)
               /\ RunContract!Over("Turn", turn'[t])
    <3>1. run' \in RunOver
      BY <2>2, <2>7, ContractSubjects DEF RunContract!Over
    <3>2. /\ Shown(task'[t].state) \in TaskOver \union {"none"}
          /\ attempt'[t].state \notin AttemptOpen /\ turn'[t] \notin {"planned"} \union TurnOpen
      BY <3>1, RunOverAllOverNext DEF AllOver, Shown
    <3> QED
      BY <3>1, <3>2, ContractSubjects DEF RunContract!Over, TaskOver
  <2>8. RunContract!ContractNext
    BY <2>3, <2>4, <2>5, <2>6, <2>7, TaskNames DEF RunContract!ContractNext, Shown
  <2> QED
    BY <2>8
<1> QED
  BY <1>1, <1>2

\* The database commands and the processes that issue them implement the
\* contract the Go side declares: every record moves along its transition
\* graph, a Run ends once with everything in it over, and nothing moves then.
THEOREM CommandsImplementContract == CortexSpec => ImplementsContract
<1>1. CortexInv /\ CortexInv' /\ [CortexNext]_cortexVars =>
        [RunContract!ContractNext]_(RunContract!contractVars)
  BY CortexNextStep, ContractStep
<1> QED
  BY <1>1, ContractInitially, CortexInitInv, CortexNextInv, PTL
     DEF CortexSpec, ImplementsContract, RunContract!ContractSpec
=============================================================================
