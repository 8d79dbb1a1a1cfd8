--------------------------- MODULE RuntimeContract ---------------------------
(***************************************************************************)
(* The lifecycle contract the Go side of the agent platform declares       *)
(* (runtimecontract): the transition graph of every runtime record, which  *)
(* states a record is born in and which end it, and what a Run promises as *)
(* a whole.  CortexRuntime, the database commands and the processes that   *)
(* issue them, is shown to implement it.                                   *)
(***************************************************************************)
EXTENDS Naturals

CONSTANTS Tasks, Root

VARIABLES run, tasks, attempts, turns

contractVars == <<run, tasks, attempts, turns>>

transitionGraph ==
    [Run |->
       [queued    |-> {"running", "canceled", "superseded", "dead_lettered"},
        running   |-> {"waiting", "canceling", "succeeded", "failed", "dead_lettered"},
        waiting   |-> {"running", "canceling", "failed", "canceled", "superseded", "dead_lettered"},
        canceling |-> {"canceled", "failed", "dead_lettered"}],
     Task |->
       [blocked |-> {"ready", "canceled", "superseded", "dead_lettered"},
        ready   |-> {"running", "canceled", "superseded", "dead_lettered"},
        running |-> {"waiting", "result_committed", "failed", "canceled", "superseded", "dead_lettered"},
        waiting |-> {"ready", "running", "failed", "canceled", "superseded", "dead_lettered"},
        result_committed |-> {"succeeded", "canceled", "superseded", "dead_lettered"}],
     Attempt |->
       [leased    |-> {"executing", "failed", "timed_out", "canceled", "superseded"},
        executing |-> {"result_committed", "failed", "timed_out", "canceled", "superseded"}],
     Turn |->
       [planned    |-> {"dispatched", "canceled"},
        dispatched |-> {"result_committed", "failed", "unknown", "canceled"},
        unknown    |-> {"result_committed", "failed"}]]

CanTransition(subject, from, to) ==
    /\ from \in DOMAIN transitionGraph[subject]
    /\ to \in transitionGraph[subject][from]

initialSubjectState ==
    [Run |-> {"queued"}, Task |-> {"blocked", "ready"}, Attempt |-> {"leased"},
     Turn |-> {"planned"}]

\* A transaction moves a record along one transition, or along two of them
\* (result_committed then succeeded, canceling then canceled).
Follows(subject, from, to) ==
    \/ from = to
    \/ CanTransition(subject, from, to)
    \/ \E mid \in DOMAIN transitionGraph[subject] :
         CanTransition(subject, from, mid) /\ CanTransition(subject, mid, to)

\* A record that is over, or was never there, may be replaced by a new one,
\* born in an initial state and possibly moved on in the same transaction.
Replaced(subject, from, to) ==
    /\ from \notin DOMAIN transitionGraph[subject]
    /\ \/ to = "none"
       \/ \E first \in initialSubjectState[subject] : Follows(subject, first, to)

Moves(subject, from, to) == Follows(subject, from, to) \/ Replaced(subject, from, to)

Over(subject, state) == state \notin DOMAIN transitionGraph[subject]

ContractInit ==
    /\ run = "none"
    /\ tasks = [t \in Tasks |-> "none"]
    /\ attempts = [t \in Tasks |-> "none"]
    /\ turns = [t \in Tasks |-> "none"]

\* Every record moves along its graph; a Run ends once, with everything in it
\* over, and nothing in a Run that is over moves again.
ContractNext ==
    /\ Follows("Run", run, run') \/ (run = "none" /\ run' = "queued")
    /\ \A t \in Tasks :
         /\ Moves("Task", tasks[t], tasks'[t])
         /\ Moves("Attempt", attempts[t], attempts'[t])
         /\ Moves("Turn", turns[t], turns'[t])
    /\ tasks[Root] # "none" => ~Replaced("Task", tasks[Root], tasks'[Root])
    /\ run # "none" => run \in DOMAIN transitionGraph.Run
    /\ run' # "none" /\ Over("Run", run') =>
         \A t \in Tasks : /\ Over("Task", tasks'[t])
                          /\ Over("Attempt", attempts'[t])
                          /\ Over("Turn", turns'[t])

ContractSpec == ContractInit /\ [][ContractNext]_contractVars
=============================================================================
