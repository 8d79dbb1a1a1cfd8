---------------------------- MODULE MCPlatform ----------------------------
\* Components of the agent platform that share no state, side by side: the
\* initial state chooses the one whose steps a behaviour takes.
EXTENDS CortexRuntime, CortexTools, BlobStore, TLC

VARIABLE component

platformVars == <<cortexVars, toolVars, blobVars, component>>

MCGranted == [s \in Sources |-> Tools]
\* Enough calls for a graph to its end, or a retry and fewer calls.
MCBudgets == {[retries |-> 0, calls |-> 5], [retries |-> 1, calls |-> 2]}
MCProcess == [w \in Workers |-> w]
\* Callers disagree about one record's bytes, and two records share theirs.
MCRequests == {<<"first", x>> : x \in Digests} \union {<<"second", "x1">>}

MCInit ==
  /\ component \in {"cortex", "tools", "blob"}
  /\ CortexInit /\ ToolsInit /\ BlobInit
  /\ component # "cortex" => budget.retries = 0

MCNext ==
  /\ \/ component = "cortex" /\ CortexNext /\ UNCHANGED <<toolVars, blobVars>>
     \/ component = "tools" /\ ToolsNext /\ UNCHANGED <<cortexVars, blobVars>>
     \/ component = "blob" /\ BlobNext /\ UNCHANGED <<cortexVars, toolVars>>
  /\ UNCHANGED component

\* serveLane loops as long as the process lives and a provider call times out,
\* the daemons of cortex-input run every few seconds for ever, and leases age;
\* a user need not submit, retry or cancel, and nothing has to crash.  A lane
\* that reclaimed an Attempt is not for ever slower than its fresh 120 s lease.
CortexFairness ==
  LET On(A) == component = "cortex" /\ A
  IN  /\ WF_cortexVars(On(ReconcileExpiredRuns)) /\ WF_cortexVars(On(ReconcileRunCancellations))
      /\ WF_cortexVars(On(ResolveJoin)) /\ WF_cortexVars(On(CompleteGraph))
      /\ WF_cortexVars(On(ContinueScoutParent)) /\ WF_cortexVars(On(FailScoutParent))
      /\ \A t \in GraphTasks : WF_cortexVars(On(RecoverNodeSession(t)))
      /\ \A t \in Tasks : WF_cortexVars(On(LeaseAges(t)))
      /\ \A w \in Workers : WF_cortexVars(On(LaneStep(w)))
      /\ \A w \in Workers : SF_cortexVars(On(ResolveFailure(w)))

\* The recovery loop runs every 5 s, timers run out, a service answers what it
\* is asked, and an outage is not for ever.
ToolsFairness ==
  LET On(A) == component = "tools" /\ A
  IN  /\ \A d \in RecoveryDaemons : WF_toolVars(On(Reconciling(d) \/ RecoveryRecords(d)))
      /\ \A s \in Sources : WF_toolVars(On(RowRipens(s)))
      /\ \A d \in RecoveryDaemons : WF_toolVars(On(\E c \in calls : c.by = d /\ Serving(c)))
      /\ WF_toolVars(On(OutageEnds))

\* A call of commitControlBlob ends, and its caller repeats one that failed.
BlobFairness ==
  \A w \in BlobWriters : WF_blobVars(component = "blob" /\ CommitControlBlob(w))

MCSpec ==
  /\ MCInit /\ [][MCNext]_platformVars
  /\ CortexFairness /\ ToolsFairness /\ BlobFairness
=============================================================================
