---------------------------- MODULE CortexRuntime ----------------------------
(***************************************************************************)
(* One Cortex Run of the agent platform: the Run, its root Task, the Scout *)
(* child and the nodes of its TaskGraph, their Attempts, model Turns and   *)
(* Sessions; the lanes of cortex-worker that execute them under leases;    *)
(* the HTTP handlers of cortex-input that admit work; and its recovery     *)
(* daemons.  Every database command is one transaction, so it is one       *)
(* action; what a process remembers between two commands is in worker.     *)
(* Time is abstract: a lease has the phases 2 (long enough for a model     *)
(* call), 1 (alive) and 0 (expired), a deadline is far, near or passed.    *)
(***************************************************************************)
EXTENDS Naturals, FiniteSets

CONSTANTS
    Workers,        \* worker lanes
    Process,        \* Process[w]: the process lane w belongs to
    Nodes,          \* specialist nodes of the TaskGraph
    ToolNodes,      \* the nodes that carry a granted Tool
    MinSuccess,     \* the Join's minimum_success
    GraphParallel,  \* limit_parallelism of the graph's schedule
    RunParallel,    \* parallel slots of the Run's budget
    MaxRounds,      \* frozen round limit
    Budgets,        \* [retries, calls]: budgets a Run may be admitted with
    MaxCrashes,     \* bound: process deaths and failed reads considered
    Choices         \* bound: what the model may ask for after a turn

ASSUME CortexConstants ==
    /\ ToolNodes \subseteq Nodes /\ IsFiniteSet(Nodes)
    /\ {MinSuccess, GraphParallel, RunParallel, MaxRounds} \subseteq Nat \ {0}
    /\ Budgets \subseteq [retries : Nat, calls : Nat] /\ MaxCrashes \in Nat
    /\ \A w \in Workers : w # "none"
    /\ {"root", "scout", "desk"} \cap Nodes = {}

VARIABLES
    run,      \* state of the Run; "none" before admission
    task,     \* per Task: state, session, parallel slot, generation, role
    attempt,  \* per Task: its newest Attempt: state, lease holder, lease phase
    turn,     \* per Task: state of the newest model Turn of that Attempt
    graph,    \* schedule and Join of the current TaskGraph round
    budget,   \* retries and model calls left
    clock,    \* Run deadline and whether the Run's authority is current
    intake,   \* how far POST /v1/user-requests came
    cancel,   \* the cancellation request of the Run
    worker,   \* what each lane is doing
    prep,     \* node Sessions the admitting handler still has to prepare
    crashes   \* processes that died and reads that failed so far

cortexVars == <<run, task, attempt, turn, graph, budget, clock, intake,
                cancel, worker, prep, crashes>>

Root == "root"
Scout == "scout"
Desk == "desk"
GraphTasks == Nodes \cup {Desk}
Tasks == GraphTasks \cup {Root, Scout}

RunOver == {"succeeded", "failed", "canceled", "superseded", "dead_lettered"}
TaskOver == {"succeeded", "failed", "canceled", "superseded", "dead_lettered"}
AttemptOpen == {"leased", "executing"}
TurnOpen == {"dispatched", "unknown"}

Over(t) == task[t].state \in TaskOver \cup {"absent"}
OthersOver(t) == \A u \in Tasks \ {t} : Over(u)
Unresolved(t) == turn[t] \in TurnOpen
Slots == Cardinality({t \in Tasks : task[t].slot})
ActiveNodes == Cardinality({t \in GraphTasks : task[t].state = "running"})
InTime == clock.deadline # "passed"

NoTask == [state |-> "absent", session |-> "none", slot |-> FALSE, gen |-> 0,
           role |-> "none"]
NoAttempt == [state |-> "none", holder |-> "none", lease |-> 0]
IdleLane == [pc |-> "idle", task |-> "none", gen |-> 0, step |-> "none"]

\* A Task moves to state s; its generation fences commands that saw it before.
Moved(t, s) == [task[t] EXCEPT !.state = s, !.gen = @ + 1]
Ended(t, s) == [Moved(t, s) EXCEPT !.slot = FALSE, !.session = "closed"]
Ending(a) == [NoAttempt EXCEPT !.state = a]

\* The turn an Attempt starts with, by the role its Session binds.
FirstTurn == [intent |-> "intent", desk |-> "desk", round_planner |-> "proposal",
              scout |-> "memo", memo |-> "memo", tool |-> "plan",
              decision_desk |-> "decide"]

\* What execute does after a turn of each purpose resolved with valid output:
\* another turn, a command, failAfterResolved, or return with the Attempt left.
AfterIntent == {"commit", "proposal", "scout", "specialist", "desk", "fail"}
AfterSpecialist == {"desk", "fail"}
AfterDesk == {"commit", "fail"}
AfterProposal == {"graph"}
AfterMemo == {"commit"}
AfterPlan == {"correct", "memo", "fail", "abandon"}
AfterCorrection == {"memo", "fail", "abandon"}
AfterDecision == {"commit", "round"}
AfterTurn ==
    [intent |-> AfterIntent, specialist |-> AfterSpecialist, desk |-> AfterDesk,
     proposal |-> AfterProposal, memo |-> AfterMemo, plan |-> AfterPlan,
     correct |-> AfterCorrection, decide |-> AfterDecision]
Purposes == DOMAIN AfterTurn

-----------------------------------------------------------------------------
CortexInit ==
    /\ run = "none"
    /\ task = [t \in Tasks |-> NoTask]
    /\ attempt = [t \in Tasks |-> NoAttempt]
    /\ turn = [t \in Tasks |-> "none"]
    /\ graph = [schedule |-> "none", round |-> 0, join |-> "none"]
    /\ budget \in Budgets
    /\ clock = [deadline |-> "far", authority |-> TRUE]
    /\ intake = "none"
    /\ cancel = "none"
    /\ worker = [w \in Workers |-> IdleLane]
    /\ prep = {}
    /\ crashes = 0

-----------------------------------------------------------------------------
(* Intake: POST /v1/user-requests, four commits in a row.  A client that    *)
(* retries after a failure replays the earlier ones, which are idempotent.  *)

CommitRawInput ==
    /\ intake = "none" /\ InTime
    /\ intake' = "raw"
    /\ UNCHANGED <<run, task, attempt, turn, graph, budget, clock, cancel, worker, prep, crashes>>

SubmitUserRequest ==
    /\ intake = "raw" /\ InTime
    /\ intake' = "request"
    /\ UNCHANGED <<run, task, attempt, turn, graph, budget, clock, cancel, worker, prep, crashes>>

AdmitRun ==
    /\ intake = "request" /\ InTime /\ clock.authority
    /\ intake' = "admitted"
    /\ run' = "queued"
    /\ task' = [task EXCEPT ![Root] = [@ EXCEPT !.state = "ready", !.role = "intent"]]
    /\ UNCHANGED <<attempt, turn, graph, budget, clock, cancel, worker, prep, crashes>>

PrepareRootSession ==
    /\ intake = "admitted" /\ InTime
    /\ run = "queued" /\ task[Root].state = "ready"
    /\ intake' = "prepared"
    /\ task' = [task EXCEPT ![Root].session = "open"]
    /\ UNCHANGED <<run, attempt, turn, graph, budget, clock, cancel, worker, prep, crashes>>

-----------------------------------------------------------------------------
(* A worker lane.                                                          *)

Holds(w) ==
    LET t == worker[w].task
    IN  attempt[t].holder = w /\ attempt[t].lease > 0
\* The fence every command of a lease holder passes.
Fenced(w) ==
    LET t == worker[w].task
    IN  /\ Holds(w)
        /\ run = "running" /\ task[t].state = "running"
        /\ task[t].session = "open"
GoIdle(w) == worker' = [worker EXCEPT ![w] = IdleLane]
Goto(w, pc) == worker' = [worker EXCEPT ![w].pc = pc]
\* An admission took effect; if its response is lost the lane goes on to
\* failAfterResolved against an Attempt it no longer holds.
Admitted(w) == GoIdle(w) \/ Goto(w, "fail")

\* Mutant: only a dispatched call is recovered, one marked unknown is not.
RecoverableDispatched(t) ==
    /\ task[t].state = "running" /\ attempt[t].state = "executing"
    /\ attempt[t].lease = 0 /\ turn[t] = "dispatched"
Recoverable(t) ==
    /\ task[t].state = "running" /\ attempt[t].state = "executing"
    /\ attempt[t].lease = 0 /\ Unresolved(t)
Scheduled(t) ==
    t \in GraphTasks => /\ graph.schedule = "open"
                        /\ ActiveNodes < GraphParallel
Discoverable(t) ==
    /\ task[t].state \in {"ready", "waiting"} \/ Recoverable(t)
    /\ task[t].session = "open"
    /\ run \in {"queued", "running", "waiting"}
    /\ clock.deadline = "far"
    /\ Scheduled(t)

\* next_cortex_task, then the in-process guard: no other lane of this process
\* may work on the same Task.
NextTask(w, t) ==
    /\ worker[w].pc = "idle"
    /\ Discoverable(t)
    /\ \A v \in Workers \ {w} : Process[v] = Process[w] => worker[v].task # t
    /\ worker' = [worker EXCEPT ![w] = [pc |-> "found", task |-> t,
                                        gen |-> task[t].gen, step |-> task[t].role]]
    /\ UNCHANGED <<run, task, attempt, turn, graph, budget, clock, intake, cancel, prep, crashes>>

ReclaimAllowed(w) ==
    LET t == worker[w].task
    IN  /\ Recoverable(t) /\ worker[w].gen = task[t].gen
        /\ run = "running" /\ task[t].session = "open" /\ task[t].slot
        /\ InTime

ClaimAllowed(w) ==
    LET t == worker[w].task
    IN  /\ task[t].state \in {"ready", "waiting"} /\ worker[w].gen = task[t].gen
        /\ run = "running" \/ run = "waiting" \/ (run = "queued" /\ t = Root)
        /\ task[t].session = "open"
        /\ attempt[t].state \notin AttemptOpen
        /\ task[t].slot \/ Slots < RunParallel
        /\ Scheduled(t)
        /\ clock.authority /\ InTime

\* claim_task on an expired Attempt whose model call was dispatched: the Turn
\* becomes unknown and the lease moves to the caller.
ReclaimAttempt(w) ==
    LET t == worker[w].task
    IN  /\ worker[w].pc = "found" /\ ReclaimAllowed(w)
        /\ turn' = [turn EXCEPT ![t] = "unknown"]
        /\ attempt' = [attempt EXCEPT ![t].holder = w, ![t].lease = 2]
        /\ Goto(w, "recover")
        /\ UNCHANGED <<run, task, graph, budget, clock, intake, cancel, prep, crashes>>

ClaimTask(w) ==
    LET t == worker[w].task
    IN  /\ worker[w].pc = "found" /\ ~ReclaimAllowed(w) /\ ClaimAllowed(w)
        /\ run' = "running"
        /\ task' = [task EXCEPT ![t] = [Moved(t, "running") EXCEPT !.slot = TRUE]]
        /\ attempt' = [attempt EXCEPT ![t] = [state |-> "leased", holder |-> w, lease |-> 2]]
        /\ turn' = [turn EXCEPT ![t] = "none"]
        /\ Goto(w, "claimed")
        /\ UNCHANGED <<graph, budget, clock, intake, cancel, prep, crashes>>

StartAttempt(w) ==
    LET t == worker[w].task
    IN  /\ worker[w].pc = "claimed"
        /\ Fenced(w) /\ attempt[t].state = "leased"
        /\ attempt' = [attempt EXCEPT ![t].state = "executing"]
        /\ worker' = [worker EXCEPT ![w].pc = "turn", ![w].step = FirstTurn[@]]
        /\ UNCHANGED <<run, task, turn, graph, budget, clock, intake, cancel, prep, crashes>>

CanDispatch(w) ==
    LET t == worker[w].task
    IN  /\ Fenced(w) /\ attempt[t].state = "executing" /\ attempt[t].lease = 2
        /\ ~Unresolved(t)
        /\ budget.calls > 0 /\ clock.authority /\ clock.deadline = "far"

DispatchModelCall(w) ==
    LET t == worker[w].task
    IN  /\ worker[w].pc = "turn" /\ CanDispatch(w)
        /\ turn' = [turn EXCEPT ![t] = "dispatched"]
        /\ budget' = [budget EXCEPT !.calls = @ - 1]
        /\ Goto(w, "calling")
        /\ UNCHANGED <<run, task, attempt, graph, clock, intake, cancel, prep, crashes>>

\* heartbeatLoop: the lease of a lane that waits for the provider is extended.
HeartbeatLoop(w) ==
    LET t == worker[w].task
    IN  /\ worker[w].pc = "calling"
        /\ Fenced(w) /\ attempt[t].lease = 1
        /\ attempt' = [attempt EXCEPT ![t].lease = 2]
        /\ UNCHANGED <<run, task, turn, graph, budget, clock, intake, cancel, worker, prep, crashes>>

\* The provider answered (and the output was published), failed for certain or
\* returned what the contract rejects, or its outcome is not known.
CallOutcomes == {"answered", "rejected", "uncertain"}

ProviderReturns(w) ==
    /\ worker[w].pc = "calling"
    /\ \E pc \in CallOutcomes : Goto(w, pc)
    /\ UNCHANGED <<run, task, attempt, turn, graph, budget, clock, intake, cancel, prep, crashes>>

\* Mutant: the lease generation and token are not compared.
CanResolveUnfenced(w) ==
    LET t == worker[w].task
    IN  run = "running" /\ attempt[t].state = "executing" /\ Unresolved(t)
CanResolve(w) ==
    LET t == worker[w].task
    IN  Fenced(w) /\ attempt[t].state = "executing" /\ Unresolved(t)

ResolveModelCall(w) ==
    LET t == worker[w].task
    IN  /\ worker[w].pc = "answered" /\ CanResolve(w)
        /\ turn' = [turn EXCEPT ![t] = "result_committed"]
        /\ \E next \in AfterTurn[worker[w].step] \cap Choices :
             worker' = [worker EXCEPT ![w] =
                          IF next = "abandon" THEN IdleLane
                          ELSE [@ EXCEPT !.step = next,
                                         !.pc = IF next \in Purposes THEN "turn"
                                                ELSE IF next = "fail" THEN "fail" ELSE "act"]]
        /\ UNCHANGED <<run, task, attempt, graph, budget, clock, intake, cancel, prep, crashes>>

\* resolveFailure and recoverAmbiguousModelTurn: first the Turn is resolved
\* failed, then fail_attempt.
ResolveFailure(w) ==
    LET t == worker[w].task
    IN  /\ worker[w].pc \in {"rejected", "recover"} /\ CanResolve(w)
        /\ turn' = [turn EXCEPT ![t] = "failed"]
        /\ Goto(w, "fail")
        /\ UNCHANGED <<run, task, attempt, graph, budget, clock, intake, cancel, prep, crashes>>

MarkUnknown(w) ==
    LET t == worker[w].task
    IN  /\ worker[w].pc = "uncertain"
        /\ Fenced(w) /\ turn[t] = "dispatched"
        /\ turn' = [turn EXCEPT ![t] = "unknown"]
        /\ GoIdle(w)
        /\ UNCHANGED <<run, task, attempt, graph, budget, clock, intake, cancel, prep, crashes>>

CanEnd(w) ==
    LET t == worker[w].task
    IN  Fenced(w) /\ attempt[t].state = "executing" /\ ~Unresolved(t) /\ InTime

\* fail_attempt: a granted retry leaves the Task waiting with its slot, an
\* exhausted one dead-letters it; the root Task takes the Run with it.
FailAttempt(w) ==
    LET t == worker[w].task
        retry == budget.retries > 0
    IN  /\ worker[w].pc = "fail" /\ CanEnd(w)
        /\ attempt' = [attempt EXCEPT ![t] = Ending("failed")]
        /\ task' = [task EXCEPT ![t] = IF retry THEN Moved(t, "waiting")
                                       ELSE Ended(t, "dead_lettered")]
        /\ budget' = [budget EXCEPT !.retries = IF retry THEN @ - 1 ELSE @]
        /\ run' = IF t # Root \/ ~OthersOver(t) THEN run
                  ELSE IF retry THEN "waiting" ELSE "dead_lettered"
        /\ GoIdle(w)
        /\ UNCHANGED <<turn, graph, clock, intake, cancel, prep, crashes>>

\* commit_attempt: result, Task, Session and, for the root, the Run at once.
CommitAttempt(w) ==
    LET t == worker[w].task
    IN  /\ worker[w].pc = "act" /\ worker[w].step = "commit"
        /\ CanEnd(w) /\ turn[t] = "result_committed"
        /\ t = Root => OthersOver(t)
        /\ attempt' = [attempt EXCEPT ![t] = Ending("result_committed")]
        /\ task' = [task EXCEPT ![t] = Ended(t, "succeeded")]
        /\ run' = IF t = Root THEN "succeeded" ELSE run
        /\ GoIdle(w)
        /\ UNCHANGED <<turn, graph, budget, clock, intake, cancel, prep, crashes>>

CanPark(w) ==
    /\ CanEnd(w) /\ worker[w].task = Root
    /\ turn[Root] = "result_committed" /\ clock.authority

\* Mutant: the parent is parked but its Attempt keeps executing.
AdmitScoutKeepsAttempt(w) ==
    /\ worker[w].pc = "act" /\ worker[w].step = "scout" /\ CanPark(w)
    /\ task[Scout].state = "absent"
    /\ task' = [task EXCEPT
         ![Root] = [Moved(Root, "waiting") EXCEPT !.session = "closed"],
         ![Scout] = [NoTask EXCEPT !.state = "ready", !.session = "open", !.role = "scout"]]
    /\ Admitted(w)
    /\ UNCHANGED <<run, attempt, turn, graph, budget, clock, intake, cancel, prep, crashes>>

\* POST /internal/v1/handoffs for a Scout: the child becomes ready, the parent
\* is parked without a Session and keeps its slot.
AdmitScoutChild(w) ==
    /\ worker[w].pc = "act" /\ worker[w].step = "scout" /\ CanPark(w)
    /\ task[Scout].state = "absent"
    /\ attempt' = [attempt EXCEPT ![Root] = Ending("superseded")]
    /\ task' = [task EXCEPT
         ![Root] = [Moved(Root, "waiting") EXCEPT !.session = "closed"],
         ![Scout] = [NoTask EXCEPT !.state = "ready", !.session = "open", !.role = "scout"]]
    /\ Admitted(w)
    /\ UNCHANGED <<run, turn, graph, budget, clock, intake, cancel, prep, crashes>>

\* The Scout was rejected: the Intent Attempt goes on to its Desk turn.
ScoutRejected(w) ==
    /\ worker[w].pc = "act" /\ worker[w].step = "scout"
    /\ ~CanPark(w) \/ task[Scout].state # "absent"
    /\ worker' = [worker EXCEPT ![w].pc = "turn", ![w].step = "desk"]
    /\ UNCHANGED <<run, task, attempt, turn, graph, budget, clock, intake, cancel, prep, crashes>>

NodeAdmitted(t) ==
    [NoTask EXCEPT !.state = IF t = Desk THEN "blocked" ELSE "ready",
                   !.role = IF t = Desk THEN "decision_desk"
                            ELSE IF t \in ToolNodes THEN "tool" ELSE "memo"]

\* POST /internal/v1/task-graphs: the graph is admitted in one transaction and
\* the parent parked without its slot; the node Sessions follow one by one.
AdmitTaskGraph(w) ==
    /\ worker[w].pc = "act" /\ worker[w].step = "graph" /\ CanPark(w)
    /\ attempt' = [t \in Tasks |-> IF t = Root THEN Ending("superseded")
                                   ELSE IF t \in GraphTasks THEN NoAttempt
                                   ELSE attempt[t]]
    /\ turn' = [t \in Tasks |-> IF t \in GraphTasks THEN "none" ELSE turn[t]]
    /\ task' = [t \in Tasks |->
                  IF t = Root THEN [Moved(t, "waiting") EXCEPT !.session = "closed",
                                                               !.slot = FALSE]
                  ELSE IF t \in GraphTasks THEN NodeAdmitted(t) ELSE task[t]]
    /\ graph' = [schedule |-> "open", round |-> graph.round + 1, join |-> "unresolved"]
    /\ prep' = GraphTasks
    /\ Admitted(w)
    /\ UNCHANGED <<run, budget, clock, intake, cancel, crashes>>

\* POST /internal/v1/task-graph-rounds: a refinement closes this round's graph
\* and readies the root as planner of the next one.
CanRefine(w) ==
    /\ CanEnd(w) /\ worker[w].task = Desk
    /\ graph.round < MaxRounds /\ graph.schedule = "open" /\ ActiveNodes = 1
    /\ task[Root].state = "waiting" /\ ~task[Root].slot
    /\ task[Root].session = "closed"

PrepareTaskGraphNextRound(w) ==
    /\ worker[w].pc = "act" /\ worker[w].step = "round" /\ CanRefine(w)
    /\ attempt' = [attempt EXCEPT ![Desk] = Ending("superseded")]
    /\ task' = [task EXCEPT
         ![Desk] = Ended(Desk, "superseded"),
         ![Root] = [Moved(Root, "ready") EXCEPT !.session = "open",
                                                !.role = "round_planner"]]
    /\ graph' = [graph EXCEPT !.schedule = "closed"]
    /\ Admitted(w)
    /\ UNCHANGED <<run, turn, budget, clock, intake, cancel, prep, crashes>>

\* A refused command: the lane returns and leaves the Attempt to its lease.
Denied(w) ==
    LET t == worker[w].task
        pc == worker[w].pc
        step == worker[w].step
    IN  /\ \/ pc = "found" /\ ~ReclaimAllowed(w) /\ ~ClaimAllowed(w)
           \/ pc = "claimed" /\ ~(Fenced(w) /\ attempt[t].state = "leased")
           \/ pc = "turn" /\ ~CanDispatch(w)
           \/ pc \in {"answered", "rejected", "recover"} /\ ~CanResolve(w)
           \/ pc = "uncertain" /\ ~(Fenced(w) /\ turn[t] = "dispatched")
           \/ pc = "fail" /\ ~CanEnd(w)
           \/ pc = "act" /\ step = "commit" /\ ~(CanEnd(w) /\ (t = Root => OthersOver(t)))
        /\ GoIdle(w)
        /\ UNCHANGED <<run, task, attempt, turn, graph, budget, clock, intake, cancel, prep, crashes>>

\* Control refused or could not be reached: failAfterResolved.
AdmissionFails(w) ==
    /\ worker[w].pc = "act" /\ worker[w].step \in {"scout", "graph", "round"}
    /\ Goto(w, "fail")
    /\ UNCHANGED <<run, task, attempt, turn, graph, budget, clock, intake, cancel, prep, crashes>>

\* The request, its history or its TaskGraph inputs cannot be read before the
\* claim: the lane drops the work.
ReadFails(w) ==
    /\ worker[w].pc = "found" /\ crashes < MaxCrashes
    /\ crashes' = crashes + 1
    /\ GoIdle(w)
    /\ UNCHANGED <<run, task, attempt, turn, graph, budget, clock, intake, cancel, prep>>

\* A worker process dies: its lanes forget their leases.
WorkerDies(p) ==
    /\ crashes < MaxCrashes
    /\ \E w \in Workers : Process[w] = p /\ worker[w].pc # "idle"
    /\ crashes' = crashes + 1
    /\ worker' = [w \in Workers |-> IF Process[w] = p THEN IdleLane ELSE worker[w]]
    /\ UNCHANGED <<run, task, attempt, turn, graph, budget, clock, intake, cancel, prep>>

-----------------------------------------------------------------------------
(* The admitting handler and the recovery daemons of cortex-input.         *)

SessionMissing(t) ==
    /\ task[t].session = "none" /\ task[t].state \in {"ready", "blocked"}
    /\ task[Root].state = "waiting" /\ run \in {"running", "waiting"} /\ InTime

PrepareTaskGraphNodeSession(t) ==
    /\ t \in prep
    /\ prep' = IF SessionMissing(t) THEN prep \ {t} ELSE {}
    /\ task' = [task EXCEPT ![t].session = IF SessionMissing(t) THEN "open" ELSE @]
    /\ UNCHANGED <<run, attempt, turn, graph, budget, clock, intake, cancel, worker, crashes>>

\* The process that admits dies between two node Sessions.
ControlDies ==
    /\ prep # {} /\ crashes < MaxCrashes
    /\ prep' = {} /\ crashes' = crashes + 1
    /\ UNCHANGED <<run, task, attempt, turn, graph, budget, clock, intake, cancel, worker>>

RecoverNodeSession(t) ==
    /\ t \in GraphTasks /\ SessionMissing(t) /\ graph.schedule = "open"
    /\ task' = [task EXCEPT ![t].session = "open"]
    /\ prep' = prep \ {t}
    /\ UNCHANGED <<run, attempt, turn, graph, budget, clock, intake, cancel, worker, crashes>>

ContinueScoutParent ==
    /\ run = "running" /\ InTime
    /\ task[Root].state = "waiting" /\ task[Root].role = "intent"
    /\ task[Scout].state = "succeeded"
    /\ task' = [task EXCEPT ![Root] = [Moved(Root, "ready") EXCEPT
                                          !.session = "open", !.role = "desk"]]
    /\ UNCHANGED <<run, attempt, turn, graph, budget, clock, intake, cancel, worker, prep, crashes>>

FailScoutParent ==
    /\ run \in {"running", "waiting"}
    /\ task[Root].state = "waiting" /\ task[Root].slot /\ task[Root].session = "closed"
    /\ task[Scout].state \in {"failed", "dead_lettered"} /\ OthersOver(Root)
    /\ task' = [task EXCEPT ![Root] = Ended(Root, "failed")]
    /\ run' = "failed"
    /\ UNCHANGED <<attempt, turn, graph, budget, clock, intake, cancel, worker, prep, crashes>>

\* reconcile_cortex_task_graph_joins: a Join without a downstream Session
\* aborts the transaction.
JoinReadable == graph.join = "unresolved" => task[Desk].session # "none"

ResolveJoin ==
    LET memos == {n \in Nodes : task[n].state = "succeeded"}
        enough == Cardinality(memos) >= MinSuccess
    IN  /\ graph.join = "unresolved" /\ JoinReadable
        /\ task[Desk].state = "blocked" /\ task[Desk].session = "open"
        /\ task[Root].state = "waiting" /\ run \in {"running", "waiting"}
        /\ \A n \in Nodes : Over(n)
        /\ graph' = [graph EXCEPT !.join = IF enough THEN "ready" ELSE "failed",
                                  !.schedule = IF enough THEN @ ELSE "closed"]
        /\ task' = IF enough THEN [task EXCEPT ![Desk] = Moved(Desk, "ready")]
                   ELSE [task EXCEPT ![Desk] = Ended(Desk, "dead_lettered"),
                                     ![Root] = Ended(Root, "dead_lettered")]
        /\ run' = IF enough THEN run ELSE "dead_lettered"
        /\ UNCHANGED <<attempt, turn, budget, clock, intake, cancel, worker, prep, crashes>>

\* Mutant: the graph completes once its Desk is over, in whatever way.
CompleteOnDeskOver ==
    /\ JoinReadable /\ graph.join = "ready"
    /\ task[Desk].state \in TaskOver /\ task[Root].state = "waiting"
    /\ run \in {"running", "waiting"}
    /\ task' = [task EXCEPT ![Root] = Ended(Root, "superseded")]
    /\ run' = "succeeded"
    /\ graph' = [graph EXCEPT !.schedule = "closed"]
    /\ UNCHANGED <<attempt, turn, budget, clock, intake, cancel, worker, prep, crashes>>

CompleteGraph ==
    /\ JoinReadable /\ graph.join = "ready"
    /\ task[Desk].state = "succeeded" /\ task[Root].state = "waiting"
    /\ run \in {"running", "waiting"}
    /\ task' = [task EXCEPT ![Root] = Ended(Root, "superseded")]
    /\ run' = "succeeded"
    /\ graph' = [graph EXCEPT !.schedule = "closed"]
    /\ UNCHANGED <<attempt, turn, budget, clock, intake, cancel, worker, prep, crashes>>

\* Mutant: the parallel slots of the closed Tasks are kept.
CloseTreeKeepsSlots(turnState, attemptState, taskState, runState) ==
    /\ turn' = [t \in Tasks |-> IF Unresolved(t) THEN turnState ELSE turn[t]]
    /\ attempt' = [t \in Tasks |-> IF attempt[t].state \in AttemptOpen
                                   THEN Ending(attemptState) ELSE attempt[t]]
    /\ task' = [t \in Tasks |-> IF Over(t) THEN task[t]
                                ELSE [Moved(t, taskState) EXCEPT !.session = "closed"]]
    /\ graph' = [graph EXCEPT !.schedule = IF @ = "none" THEN @ ELSE "closed"]
    /\ run' = runState

\* Close the whole execution tree: Turns, Attempts, Sessions, Tasks, slots and
\* schedule of the Run, in one transaction.
CloseTree(turnState, attemptState, taskState, runState) ==
    /\ turn' = [t \in Tasks |-> IF Unresolved(t) THEN turnState ELSE turn[t]]
    /\ attempt' = [t \in Tasks |-> IF attempt[t].state \in AttemptOpen
                                   THEN Ending(attemptState) ELSE attempt[t]]
    /\ task' = [t \in Tasks |->
                  IF Over(t) THEN task[t]
                  ELSE [Moved(t, taskState) EXCEPT
                          !.slot = FALSE,
                          !.session = IF @ = "none" THEN "none" ELSE "closed"]]
    /\ graph' = [graph EXCEPT !.schedule = IF @ = "none" THEN @ ELSE "closed"]
    /\ run' = runState

\* Mutant: a Run that is canceling is left to its cancellation.
ReconcileExpiredLive ==
    /\ run \in {"queued", "running", "waiting"}
    /\ ~InTime \/ ~clock.authority
    /\ CloseTree("failed", "timed_out", "dead_lettered", "dead_lettered")
    /\ UNCHANGED <<budget, clock, intake, cancel, worker, prep, crashes>>

ReconcileExpiredRuns ==
    /\ run \notin RunOver \cup {"none"}
    /\ ~InTime \/ ~clock.authority
    /\ CloseTree("failed", "timed_out", "dead_lettered", "dead_lettered")
    /\ UNCHANGED <<budget, clock, intake, cancel, worker, prep, crashes>>

NoneUnknown == \A t \in Tasks : turn[t] # "unknown"

\* Mutant: a late request cancels a Run that is already over.
CancelRunLate ==
    /\ cancel = "none" /\ run # "none" /\ NoneUnknown
    /\ cancel' = "canceled"
    /\ CloseTree("canceled", "canceled", "canceled", "canceled")
    /\ UNCHANGED <<budget, clock, intake, worker, prep, crashes>>

CancelSeed == IF run \in RunOver THEN "terminal" ELSE "ready"

\* POST /v1/runs/{id}/cancel: the request is recorded and applied at once
\* unless a model outcome is unknown.
CancelRun ==
    /\ cancel = "none" /\ run # "none"
    /\ IF CancelSeed = "terminal"
       THEN cancel' = "denied" /\ UNCHANGED <<run, task, attempt, turn, graph>>
       ELSE IF NoneUnknown
       THEN cancel' = "canceled"
            /\ CloseTree("canceled", "canceled", "canceled", "canceled")
       ELSE cancel' = "pending" /\ run' = "canceling"
            /\ UNCHANGED <<task, attempt, turn, graph>>
    /\ UNCHANGED <<budget, clock, intake, worker, prep, crashes>>

ReconcileRunCancellations ==
    /\ cancel = "pending"
    /\ run \in RunOver \/ NoneUnknown
    /\ IF run \in RunOver
       THEN cancel' = "denied" /\ UNCHANGED <<run, task, attempt, turn, graph>>
       ELSE cancel' = "canceled"
            /\ CloseTree("canceled", "canceled", "canceled", "canceled")
    /\ UNCHANGED <<budget, clock, intake, worker, prep, crashes>>

-----------------------------------------------------------------------------
LeaseAges(t) ==
    /\ attempt[t].lease > 0
    /\ attempt' = [attempt EXCEPT ![t].lease = @ - 1]
    /\ UNCHANGED <<run, task, turn, graph, budget, clock, intake, cancel, worker, prep, crashes>>

DeadlineNears ==
    /\ run # "none" /\ clock.deadline # "passed"
    /\ clock' = [clock EXCEPT !.deadline = IF @ = "far" THEN "near" ELSE "passed"]
    /\ UNCHANGED <<run, task, attempt, turn, graph, budget, intake, cancel, worker, prep, crashes>>

AuthorityRevoked ==
    /\ run # "none" /\ clock.authority
    /\ clock' = [clock EXCEPT !.authority = FALSE]
    /\ UNCHANGED <<run, task, attempt, turn, graph, budget, intake, cancel, worker, prep, crashes>>

LaneStep(w) ==
    \/ \E t \in Tasks : NextTask(w, t)
    \/ ReclaimAttempt(w) \/ ClaimTask(w) \/ StartAttempt(w)
    \/ DispatchModelCall(w) \/ ProviderReturns(w)
    \/ ResolveModelCall(w) \/ ResolveFailure(w) \/ MarkUnknown(w)
    \/ FailAttempt(w) \/ CommitAttempt(w)
    \/ AdmitScoutChild(w) \/ ScoutRejected(w) \/ AdmitTaskGraph(w)
    \/ PrepareTaskGraphNextRound(w) \/ Denied(w) \/ AdmissionFails(w)

Intake == CommitRawInput \/ SubmitUserRequest \/ AdmitRun \/ PrepareRootSession

Daemons ==
    \/ \E t \in GraphTasks : PrepareTaskGraphNodeSession(t) \/ RecoverNodeSession(t)
    \/ ContinueScoutParent \/ FailScoutParent
    \/ ResolveJoin \/ CompleteGraph
    \/ ReconcileExpiredRuns \/ ReconcileRunCancellations

CortexNext ==
    \/ Intake \/ Daemons \/ CancelRun
    \/ \E w \in Workers : LaneStep(w) \/ HeartbeatLoop(w) \/ ReadFails(w)
    \/ \E w \in Workers : WorkerDies(Process[w])
    \/ ControlDies
    \/ \E t \in Tasks : LeaseAges(t)
    \/ DeadlineNears \/ AuthorityRevoked

CortexSpec == CortexInit /\ [][CortexNext]_cortexVars

-----------------------------------------------------------------------------
CortexTypeOK ==
    /\ run \in RunOver \cup {"none", "queued", "running", "waiting", "canceling"}
    /\ task \in [Tasks -> [state : TaskOver \cup {"absent", "blocked", "ready", "running", "waiting"},
                           session : {"none", "open", "closed"}, slot : BOOLEAN, gen : Nat,
                           role : DOMAIN FirstTurn \cup {"none"}]]
    /\ attempt \in [Tasks -> [state : AttemptOpen \cup {"none", "result_committed", "failed",
                                         "timed_out", "canceled", "superseded"},
                              holder : Workers \cup {"none"}, lease : 0..2]]
    /\ turn \in [Tasks -> TurnOpen \cup {"none", "result_committed", "failed", "canceled"}]
    /\ graph \in [schedule : {"none", "open", "closed"}, round : 0..MaxRounds,
                  join : {"none", "unresolved", "ready", "failed"}]
    /\ budget \in [retries : Nat, calls : Nat]
    /\ clock \in [deadline : {"far", "near", "passed"}, authority : BOOLEAN]
    /\ intake \in {"none", "raw", "request", "admitted", "prepared"}
    /\ cancel \in {"none", "pending", "canceled", "denied"}
    /\ prep \subseteq GraphTasks
    /\ crashes \in 0..MaxCrashes

\* Task.Validate, Attempt.Validate: what the record contract requires of a
\* Task that runs or has run, and of its Attempt.
ValidTask(t) == task[t].state \in {"running", "succeeded"} => task[t].session # "none"
ValidAttempt(t) ==
    /\ attempt[t].state \in AttemptOpen => task[t].session = "open"
    /\ attempt[t].state = "result_committed" <=> task[t].state = "succeeded"

\* A Task runs exactly while it has an open Attempt and then holds one of the
\* Run's parallel slots; every record the commands leave is one the contract
\* validates; slots and running nodes stay within their limits.
RunningIsBacked ==
    /\ CortexTypeOK
    /\ \A t \in Tasks :
         /\ task[t].state = "running" <=> attempt[t].state \in AttemptOpen
         /\ task[t].state = "running" => task[t].slot
         /\ ValidTask(t) /\ ValidAttempt(t)
    /\ Slots <= RunParallel /\ ActiveNodes <= GraphParallel

\* When a Run is over nothing of it is left: no slot, no open Session, no open
\* schedule, no unresolved model call that holds budget.
NothingLeftOver ==
    run \in RunOver =>
        /\ graph.schedule # "open"
        /\ \A t \in Tasks : /\ Over(t) /\ ~task[t].slot /\ task[t].session # "open"
                             /\ ~Unresolved(t)

\* A Run that succeeded has one answer, from the root's own Attempt or from
\* the Decision Desk of its last graph, never from both.
OneAnswer ==
    run = "succeeded" =>
        \/ task[Root].state = "succeeded" /\ task[Desk].state # "succeeded"
        \/ task[Root].state = "superseded" /\ task[Desk].state = "succeeded"

\* The records of a Run agree while it runs and when it is over.
RecordsAgree == RunningIsBacked /\ NothingLeftOver /\ OneAnswer

\* A provider response is never accepted once its lease was lost: a Turn that
\* became unknown is only ever resolved as failed, and a Turn is only resolved
\* with a result by the lane that holds the lease.
LateAnswerNeverAccepted ==
    [][\A t \in Tasks :
         /\ turn[t] = "unknown" => turn'[t] \in {"unknown", "failed"}
         /\ turn[t] = "dispatched" /\ turn'[t] = "result_committed" =>
              \E w \in Workers : /\ attempt[t].holder = w /\ attempt[t].lease > 0
                                 /\ worker[w].pc = "answered" /\ worker[w].task = t
      ]_cortexVars

RunContract == INSTANCE RuntimeContract WITH
    tasks <- [t \in Tasks |-> IF task[t].state = "absent" THEN "none" ELSE task[t].state],
    attempts <- [t \in Tasks |-> attempt[t].state],
    turns <- turn

\* The commands and processes implement the lifecycle contract: every record
\* moves along its transition graph, the Run ends once with everything in it
\* over, and nothing moves afterwards.
ImplementsContract == RunContract!ContractSpec

\* However its workers and handlers die, a Run whose deadline has passed ends,
\* and a cancellation that waited for an unknown model outcome is answered.
RunEnds ==
    clock.deadline = "passed" ~> (run \in RunOver /\ cancel # "pending")

\* The states in which only the deadline ends a Run: an Attempt left executing
\* without a model call to recover, a Decision Desk that failed for good, a
\* root Session that was never prepared, a canceled Run with an unknown turn.
Stranded ==
    \/ \E t \in Tasks : /\ attempt[t].state \in AttemptOpen /\ attempt[t].lease = 0
                         /\ \A w \in Workers : worker[w].task # t
                         /\ \/ ~Unresolved(t)
                            \/ t \in GraphTasks /\ ActiveNodes = GraphParallel
    \/ task[Desk].state = "dead_lettered" /\ task[Root].state = "waiting"
    \/ run = "queued" /\ intake = "admitted"
    \/ run = "canceling"

\* Without the deadline, a Run still ends or is in one of those states.
EndsOrStranded ==
    run = "queued" ~> (run \in RunOver \/ Stranded \/ clock.deadline # "far" \/ ~clock.authority)

=============================================================================
