---------------------------- MODULE CortexTools ----------------------------
(***************************************************************************)
(* The read-only tools of the agent platform: a Worker asks Control for a  *)
(* tool on behalf of one finished model call, Control writes an immutable  *)
(* intent and asks the Research gateway or the Kernel, and the answer only *)
(* counts once its receipt is acknowledged in Control's database.          *)
(*                                                                         *)
(*   worker     cmd/cortex-worker/main.go            execute<Tool>         *)
(*   handler    cmd/cortex-input/main.go             POST tool-calls/*     *)
(*   store      inputgateway/postgres.go, migrations 0023-0027, 0042-0060  *)
(*   research   research-gateway/cmd/gateway         cortex*Tool           *)
(*   kernel     kernel/cmd/kernel                    postCortex*           *)
(*   recovery   cmd/cortex-input/tool_recovery.go                          *)
(*                                                                         *)
(* What a tool returns (a page, an observation, an account read) is one of *)
(* Facts: the same question asked twice may be answered differently.  Any  *)
(* of the four processes may stop between two steps, and a caller that     *)
(* times out does not stop the process it called.                          *)
(***************************************************************************)
EXTENDS Naturals, FiniteSets

CONSTANTS Sources,      \* finished model calls, each may ask for one tool
          Granted,      \* the tools a source may ask for (its Task's grant)
          Facts,        \* what the outside world may answer
          RecoveryDaemons,      \* Control processes running the recovery loop
          ToolBudget,   \* limit_tool_calls of the run's ledger
          ToolCrashes   \* bound on the Control processes that die

ASSUME ToolConstants ==
    /\ ToolBudget \in Nat /\ ToolCrashes \in Nat
    /\ "none" \notin Facts /\ {"none", "handler"} \cap RecoveryDaemons = {}

VARIABLES lease,     \* the lease of the attempt the Worker executes
          asked,     \* per source: the tool, Control's handler, the Worker
          intent,    \* per source: the tool its durable intent names
          receipt,   \* per source: the durable evidence of that intent
          ack,       \* per source: the receipt Control acknowledged
          recovery,  \* per source: its row of cortex_tool_recovery
          batch,     \* per daemon: claims in hand and the one being served
          calls,     \* requests the Research gateway or the Kernel works on
          crashed,
          outage     \* calls may fail; ends for good

toolVars == <<lease, asked, intent, receipt, ack, recovery, batch, calls, crashed, outage>>

ResearchTools == {"research_web_fetch", "research_gexbot_as_of", "market_gexbot_live"}
KernelTools == {"kernel_earnings_results", "kernel_read"}
Tools == ResearchTools \cup KernelTools

NoRow == [state |-> "none", ripe |-> FALSE, holder |-> "none"]
NoBatch == [claims |-> {}, step |-> "idle", source |-> "none", result |-> "none"]

ToolsInit ==
    /\ lease = "held"
    /\ asked = [s \in Sources |-> [tool |-> "none", step |-> "none",
                                   result |-> "none", worker |-> "none"]]
    /\ intent = [s \in Sources |-> "none"]
    /\ receipt = [s \in Sources |-> "none"]
    /\ ack = [s \in Sources |-> "none"]
    /\ recovery = [s \in Sources |-> NoRow]
    /\ batch = [d \in RecoveryDaemons |-> NoBatch]
    /\ calls = {}
    /\ crashed = 0
    /\ outage = TRUE

(***************************************************************************)
(* The Worker.  A model call asks for at most one tool, once; a failed     *)
(* request fails the attempt and is never sent again for the same source.  *)
(***************************************************************************)
Asks(s, t) ==
    /\ asked[s].tool = "none" /\ t \in Granted[s]
    /\ asked' = [asked EXCEPT ![s] = [tool |-> t, step |-> "received",
                                      result |-> "none", worker |-> "waiting"]]
    /\ UNCHANGED <<lease, intent, receipt, ack, recovery, batch, calls, crashed, outage>>

executeWebFetch(s) == Asks(s, "research_web_fetch")
executeGEXBOTAsOf(s) == Asks(s, "research_gexbot_as_of")
executeGEXBOTLive(s) == Asks(s, "market_gexbot_live")
executeKernelEarningsResults(s) == Asks(s, "kernel_earnings_results")
executeKernelRead(s) == Asks(s, "kernel_read")

executeTaskGraphGrantedTool(s) ==
    \/ executeWebFetch(s) \/ executeGEXBOTAsOf(s) \/ executeGEXBOTLive(s)
    \/ executeKernelEarningsResults(s) \/ executeKernelRead(s)

\* The Worker's own timeout, or the handler's write timeout: the handler may
\* still be running.
WorkerGivesUp(s) ==
    /\ asked[s].worker = "waiting"
    /\ asked' = [asked EXCEPT ![s].worker = "failed"]
    /\ UNCHANGED <<lease, intent, receipt, ack, recovery, batch, calls, crashed, outage>>

LeaseEnds ==
    /\ lease = "held"
    /\ lease' = "lost"
    /\ UNCHANGED <<asked, intent, receipt, ack, recovery, batch, calls, crashed, outage>>

(***************************************************************************)
(* Control's handlers, one step per transaction or outgoing request.       *)
(***************************************************************************)
At(s, t, step) == asked[s].tool = t /\ asked[s].step = step

Spent == Cardinality({s \in Sources : intent[s] # "none"})
MayIntend(s) == lease = "held" /\ Spent < ToolBudget

Authorized(s) ==
    /\ intent' = [intent EXCEPT ![s] = asked[s].tool]
    /\ asked' = [asked EXCEPT ![s].step = "authorized"]
    /\ UNCHANGED <<lease, receipt, ack, batch, calls, crashed, outage>>

\* The insert of a web fetch intent schedules its recovery, due after 45 s.
AuthorizeWebFetch(s) ==
    /\ At(s, "research_web_fetch", "received")
    /\ MayIntend(s)
    /\ Authorized(s)
    /\ recovery' = [recovery EXCEPT ![s] = [NoRow EXCEPT !.state = "pending"]]

\* The other intents have no recovery row.
AuthorizeGEXBOTAsOf(s) ==
    At(s, "research_gexbot_as_of", "received") /\ MayIntend(s) /\ Authorized(s) /\ UNCHANGED recovery
AuthorizeGEXBOTLive(s) ==
    At(s, "market_gexbot_live", "received") /\ MayIntend(s) /\ Authorized(s) /\ UNCHANGED recovery
AuthorizeKernelEarningsResults(s) ==
    At(s, "kernel_earnings_results", "received") /\ MayIntend(s) /\ Authorized(s) /\ UNCHANGED recovery
AuthorizeKernelRead(s) ==
    At(s, "kernel_read", "received") /\ MayIntend(s) /\ Authorized(s) /\ UNCHANGED recovery

\* Every error answer of a handler: 403, 502 or 503.
Refuses(s) ==
    /\ asked' = [asked EXCEPT ![s].step = "over", ![s].worker =
                    IF @ = "waiting" THEN "failed" ELSE @]
    /\ UNCHANGED <<lease, intent, receipt, ack, recovery, batch, calls, crashed, outage>>

ToolDenied(s) == asked[s].step = "received" /\ ~MayIntend(s) /\ Refuses(s)

Request(s, by) == [source |-> s, by |-> by, step |-> "received", result |-> "none"]

Invokes(s) ==
    /\ calls' = calls \cup {Request(s, "handler")}
    /\ asked' = [asked EXCEPT ![s].step = "invoking"]
    /\ UNCHANGED <<lease, intent, receipt, ack, recovery, batch, crashed, outage>>

invokeResearchWebFetch(s) == At(s, "research_web_fetch", "authorized") /\ Invokes(s)
invokeResearchGEXBOTAsOf(s) == At(s, "research_gexbot_as_of", "authorized") /\ Invokes(s)
invokeResearchGEXBOTLive(s) == At(s, "market_gexbot_live", "authorized") /\ Invokes(s)
invokeKernelEarningsResults(s) == At(s, "kernel_earnings_results", "authorized") /\ Invokes(s)
invokeKernelRead(s) == At(s, "kernel_read", "authorized") /\ Invokes(s)

\* The called process answers its handler.
Answered(s, c) ==
    /\ c \in calls /\ c.source = s /\ c.by = "handler" /\ asked[s].step = "invoking"
    /\ calls' = calls \ {c}
    /\ UNCHANGED <<lease, intent, receipt, ack, recovery, batch, crashed, outage>>

HandlerAnswered(s, c) ==
    /\ c.step = "done"
    /\ asked' = [asked EXCEPT ![s].step = "answered", ![s].result = c.result]
    /\ Answered(s, c)

HandlerFailed(s, c) ==
    /\ c.step = "failed"
    /\ asked' = [asked EXCEPT ![s].step = "over", ![s].worker =
                    IF @ = "waiting" THEN "failed" ELSE @]
    /\ Answered(s, c)

\* The reply reaches the Worker only if it still waits.
Replied(s, fact) ==
    asked' = [asked EXCEPT ![s].step = "over", ![s].result = fact,
                           ![s].worker = IF @ = "waiting" THEN "used" ELSE @]

\* Control acknowledges the exact receipt Research stored.
Acknowledge(s, fact) ==
    /\ receipt[s] = fact
    /\ ack' = [ack EXCEPT ![s] = fact]

\* The acknowledgement of a web fetch ends its recovery, whoever holds it.
RecordWebFetchReceipt(s, fact) ==
    /\ Acknowledge(s, fact)
    /\ recovery' = [recovery EXCEPT ![s] = [NoRow EXCEPT !.state = "succeeded"]]

HandlerRecordsWebFetch(s) ==
    /\ At(s, "research_web_fetch", "answered")
    /\ RecordWebFetchReceipt(s, asked[s].result)
    /\ Replied(s, asked[s].result)
    /\ UNCHANGED <<lease, intent, receipt, batch, calls, crashed, outage>>

RecordGEXBOTAsOfReceipt(s) ==
    /\ At(s, "research_gexbot_as_of", "answered")
    /\ Acknowledge(s, asked[s].result)
    /\ Replied(s, asked[s].result)
    /\ UNCHANGED <<lease, intent, receipt, recovery, batch, calls, crashed, outage>>

RecordGEXBOTLiveReceipt(s) ==
    /\ At(s, "market_gexbot_live", "answered")
    /\ Acknowledge(s, asked[s].result)
    /\ Replied(s, asked[s].result)
    /\ UNCHANGED <<lease, intent, receipt, recovery, batch, calls, crashed, outage>>

\* A Kernel answer has no record of its own: Control stores evidence, receipt
\* and acknowledgement in one transaction, unless they are already there.
KernelFact(s) == IF receipt[s] = "none" THEN asked[s].result ELSE receipt[s]
StoreKernelFact(s) ==
    /\ receipt' = [receipt EXCEPT ![s] = KernelFact(s)]
    /\ ack' = [ack EXCEPT ![s] = KernelFact(s)]
    /\ Replied(s, KernelFact(s))
    /\ UNCHANGED <<lease, intent, recovery, batch, calls, crashed, outage>>

RecordKernelEarningsResults(s) ==
    At(s, "kernel_earnings_results", "answered") /\ StoreKernelFact(s)
RecordKernelRead(s) == At(s, "kernel_read", "answered") /\ StoreKernelFact(s)

\* The record transaction fails, or its acknowledgement does not match.
RecordFails(s) == outage /\ asked[s].step = "answered" /\ Refuses(s)

PostWebFetch(s) ==
    AuthorizeWebFetch(s) \/ invokeResearchWebFetch(s) \/ HandlerRecordsWebFetch(s)
PostGEXBOTAsOf(s) ==
    AuthorizeGEXBOTAsOf(s) \/ invokeResearchGEXBOTAsOf(s) \/ RecordGEXBOTAsOfReceipt(s)
PostGEXBOTLive(s) ==
    AuthorizeGEXBOTLive(s) \/ invokeResearchGEXBOTLive(s) \/ RecordGEXBOTLiveReceipt(s)
PostKernelEarnings(s) ==
    AuthorizeKernelEarningsResults(s) \/ invokeKernelEarningsResults(s) \/ RecordKernelEarningsResults(s)
PostKernelRead(s) == AuthorizeKernelRead(s) \/ invokeKernelRead(s) \/ RecordKernelRead(s)

(***************************************************************************)
(* The Research gateway and the Kernel.  Research reads the intent, then   *)
(* looks for the receipt, fetches and records in separate transactions: a  *)
(* second request for the same intent may run between any two of them.     *)
(***************************************************************************)
Serve(c, step, fact) ==
    /\ calls' = (calls \ {c}) \cup {[c EXCEPT !.step = step, !.result = fact]}
    /\ UNCHANGED <<lease, asked, intent, ack, recovery, batch, crashed, outage>>

ToResearch(c) == intent[c.source] \in ResearchTools

loadReceipt(c) ==
    /\ c.step = "received" /\ ToResearch(c)
    /\ IF receipt[c.source] = "none" THEN Serve(c, "fetching", "none")
                                     ELSE Serve(c, "done", receipt[c.source])
    /\ UNCHANGED receipt

Fetches(c, fact) == c.step = "fetching" /\ Serve(c, "fetched", fact) /\ UNCHANGED receipt
fetchPublicPage(c, fact) == intent[c.source] = "research_web_fetch" /\ Fetches(c, fact)
fetchGEXBOTAsOf(c, fact) == intent[c.source] = "research_gexbot_as_of" /\ Fetches(c, fact)
fetchGEXBOTLive(c, fact) == intent[c.source] = "market_gexbot_live" /\ Fetches(c, fact)

\* Mutant: a receipt recorded over an earlier one.
RecordedLatest(c) == c.result

\* The first record stands; every later one answers with it.
RecordedFact(c) == IF receipt[c.source] = "none" THEN c.result ELSE receipt[c.source]
recordReceipt(c) ==
    /\ c.step = "fetched"
    /\ receipt' = [receipt EXCEPT ![c.source] = RecordedFact(c)]
    /\ Serve(c, "done", RecordedFact(c))

cortexWebFetch(c) ==
    /\ intent[c.source] = "research_web_fetch"
    /\ loadReceipt(c) \/ recordReceipt(c)
cortexGEXBOTAsOfTool(c) ==
    /\ intent[c.source] = "research_gexbot_as_of"
    /\ loadReceipt(c) \/ recordReceipt(c)
cortexGEXBOTLiveTool(c) ==
    /\ intent[c.source] = "market_gexbot_live"
    /\ loadReceipt(c) \/ recordReceipt(c)

postCortexEarningsResults(c, fact) ==
    /\ intent[c.source] = "kernel_earnings_results" /\ c.step = "received"
    /\ Serve(c, "done", fact) /\ UNCHANGED receipt
postCortexKernelRead(c, fact) ==
    /\ intent[c.source] = "kernel_read" /\ c.step = "received"
    /\ Serve(c, "done", fact) /\ UNCHANGED receipt

\* A lookup, fetch, query or record that fails, or an answer that is lost.
ServiceFails(c) == outage /\ c.step # "failed" /\ Serve(c, "failed", "none") /\ UNCHANGED receipt

Waiting(c) ==
    \/ c.by = "handler" /\ asked[c.source].step = "invoking"
    \/ c.by \in RecoveryDaemons /\ batch[c.by].step = "invoking" /\ batch[c.by].source = c.source

\* A request nobody waits for any more ends without an answer.
Unheard(c) ==
    /\ ~Waiting(c)
    /\ calls' = calls \ {c}
    /\ UNCHANGED <<lease, asked, intent, receipt, ack, recovery, batch, crashed, outage>>

(***************************************************************************)
(* The recovery loop of Control.                                           *)
(***************************************************************************)
\* The quiet period, a backoff or a recovery lease runs out.
RowRipens(s) ==
    /\ recovery[s].state \in {"pending", "leased"} /\ ~recovery[s].ripe
    /\ recovery' = [recovery EXCEPT ![s].ripe = TRUE]
    /\ UNCHANGED <<lease, asked, intent, receipt, ack, batch, calls, crashed, outage>>

\* Mutant: a lease that ran out is never claimed again.
ClaimablePendingOnly(s) ==
    /\ recovery[s].state = "pending"
    /\ recovery[s].ripe
    /\ ack[s] = "none"

Claimable(s) ==
    /\ recovery[s].state \in {"pending", "leased"}
    /\ recovery[s].ripe
    /\ ack[s] = "none"

\* Claims the whole due batch under fresh lease tokens.
ClaimWebFetchRecoveries(d) ==
    /\ batch[d].step = "idle" /\ batch[d].claims = {}
    /\ \E s \in Sources : Claimable(s)
    /\ batch' = [batch EXCEPT ![d].claims = {s \in Sources : Claimable(s)}]
    /\ recovery' = [s \in Sources |->
          IF Claimable(s) THEN [state |-> "leased", ripe |-> FALSE, holder |-> d] ELSE recovery[s]]
    /\ UNCHANGED <<lease, asked, intent, receipt, ack, calls, crashed, outage>>

RecoveryInvokes(d, s) ==
    /\ batch[d].step = "idle" /\ s \in batch[d].claims
    /\ batch' = [batch EXCEPT ![d] = [claims |-> @.claims \ {s}, step |-> "invoking",
                                      source |-> s, result |-> "none"]]
    /\ calls' = calls \cup {Request(s, d)}
    /\ UNCHANGED <<lease, asked, intent, receipt, ack, recovery, crashed, outage>>

RecoveryAnswered(d, c) ==
    /\ c.by = d /\ Waiting(c) /\ c.step \in {"done", "failed"}
    /\ batch' = [batch EXCEPT ![d].step = c.step, ![d].result = c.result]
    /\ calls' = calls \ {c}
    /\ UNCHANGED <<lease, asked, intent, receipt, ack, recovery, crashed, outage>>

Next1(d) == [batch[d] EXCEPT !.step = "idle", !.source = "none", !.result = "none"]

RecoveryRecords(d) ==
    /\ batch[d].step = "done"
    /\ RecordWebFetchReceipt(batch[d].source, batch[d].result)
    /\ batch' = [batch EXCEPT ![d] = Next1(d)]
    /\ UNCHANGED <<lease, asked, intent, receipt, calls, crashed, outage>>

\* The acknowledgement fails and the claim goes back, as after a failed call.
RecoveryRecordFails(d) ==
    /\ outage
    /\ batch[d].step = "done"
    /\ batch' = [batch EXCEPT ![d].step = "failed"]
    /\ UNCHANGED <<lease, asked, intent, receipt, ack, recovery, calls, crashed, outage>>

\* Mutant: any claim may be given back.
HoldsRecoveryUnfenced(d, s) == recovery[s].state # "none"

HoldsRecovery(d, s) ==
    /\ recovery[s].state = "leased" /\ recovery[s].holder = d
    /\ ~recovery[s].ripe
    /\ ack[s] = "none"

\* Only the current, unexpired lease is given back; any other is forgotten.
RequeueWebFetchRecovery(d) ==
    LET s == batch[d].source
    IN  /\ batch[d].step = "failed"
        /\ recovery' = IF HoldsRecovery(d, s)
                       THEN [recovery EXCEPT ![s] = [NoRow EXCEPT !.state = "pending"]]
                       ELSE recovery
        /\ batch' = [batch EXCEPT ![d] = Next1(d)]
        /\ UNCHANGED <<lease, asked, intent, receipt, ack, calls, crashed, outage>>

\* A Control process dies with its handlers; what it called goes on.
ControlCrashes(d) ==
    /\ crashed < ToolCrashes
    /\ crashed' = crashed + 1
    /\ batch' = [batch EXCEPT ![d] = NoBatch]
    /\ asked' = [s \in Sources |->
          IF asked[s].step \in {"none", "over"} THEN asked[s]
          ELSE [asked[s] EXCEPT !.step = "over", !.worker = IF @ = "waiting" THEN "failed" ELSE @]]
    /\ UNCHANGED <<lease, intent, receipt, ack, recovery, calls, outage>>

\* The network and the services come back.
OutageEnds ==
    /\ outage
    /\ outage' = FALSE
    /\ UNCHANGED <<lease, asked, intent, receipt, ack, recovery, batch, calls, crashed>>

Fetching(c) ==
    \/ \E fact \in Facts : \/ fetchPublicPage(c, fact) \/ fetchGEXBOTAsOf(c, fact)
                           \/ fetchGEXBOTLive(c, fact)
    \/ \E fact \in Facts : postCortexEarningsResults(c, fact) \/ postCortexKernelRead(c, fact)
Serving(c) == cortexWebFetch(c) \/ cortexGEXBOTAsOfTool(c) \/ cortexGEXBOTLiveTool(c) \/ Fetching(c)

Handling(s) ==
    \/ PostWebFetch(s) \/ PostGEXBOTAsOf(s) \/ PostGEXBOTLive(s)
    \/ PostKernelEarnings(s) \/ PostKernelRead(s) \/ ToolDenied(s)
    \/ \E c \in calls : HandlerAnswered(s, c) \/ HandlerFailed(s, c)

Reconciling(d) ==
    \/ ClaimWebFetchRecoveries(d)
    \/ \E s \in Sources : RecoveryInvokes(d, s)
    \/ \E c \in calls : RecoveryAnswered(d, c)
    \/ RequeueWebFetchRecovery(d)

ToolsNext ==
    \/ \E s \in Sources : \/ executeTaskGraphGrantedTool(s) \/ WorkerGivesUp(s)
                          \/ Handling(s) \/ RecordFails(s) \/ RowRipens(s)
    \/ LeaseEnds \/ OutageEnds
    \/ \E c \in calls : Serving(c) \/ ServiceFails(c) \/ Unheard(c)
    \/ \E d \in RecoveryDaemons : \/ Reconciling(d) \/ RecoveryRecords(d)
                          \/ RecoveryRecordFails(d) \/ ControlCrashes(d)

ToolsSpec == ToolsInit /\ [][ToolsNext]_toolVars

-----------------------------------------------------------------------------
\* What a Worker put into its prompt, what Control acknowledged and what the
\* executor durably recorded for a source call are one and the same fact, even
\* when the recovery loop and the Worker's own request fetched it twice with
\* different outcomes (record_research_web_fetch_receipt keeps the first).
OneFactPerCall ==
    \A s \in Sources :
        /\ asked[s].worker = "used" => asked[s].result = ack[s] /\ ack[s] # "none"
        /\ ack[s] # "none" => ack[s] = receipt[s] /\ intent[s] # "none"

\* The recovery row and the acknowledgement never disagree: a row is finished
\* exactly when its receipt is acknowledged, whichever of the handler, a stale
\* recovery process and the current lease holder came last.
RecoveryMatchesAck ==
    \A s \in Sources : intent[s] = "research_web_fetch" =>
        (recovery[s].state = "succeeded" <=> ack[s] # "none")

\* Worker, Control, executor and recovery loop agree on every source call.
FactsAgree == OneFactPerCall /\ RecoveryMatchesAck

\* Every authorised web fetch is acknowledged in the end, although the Worker
\* gave up, its lease was lost or Control died with the recovery lease in hand.
WebFetchSettles ==
    \A s \in Sources : intent[s] = "research_web_fetch" ~> ack[s] # "none"
=============================================================================
