# Alpheus in TLA+

Alpheus is a trading system: language-model agents propose operations, and a
*kernel* in Go decides which of them become broker orders. The kernel keeps all
authority (risk limits, reservations, order state, the halt switch) in
PostgreSQL; the *agent platform* (Cortex) keeps the agents' Runs, tool calls and
effects in a database of its own. Every process of either may stop at any point.
This directory specifies both in TLA+, checks them with TLC on small instances
and proves the central results with TLAPS for instances of any size.

## 1. Inventory

| component | state it keeps | operations | hard parts |
|---|---|---|---|
| execution store (`kernel/internal/store/entitlements.go`, `orders.go`, `store.go`) | `execution_attempt`, `orders`, `fills`, reservations, `live_execution_gate`, `global_halt_transition` | stage, claim, mark sent, mark replayed, resolve, fail pending, apply order update, halt, resume | many workers, fencing tokens, leases, one transaction per method |
| execution workers and attempt reconciler (`cmd/kernel/main.go`, `reconciler.go`, `m11_reconcile.go`, `broker_observations.go`) | only what a goroutine remembers between two transactions | execute a pending attempt, recover an uncertain one, adopt a candidate, observe working orders | crash between any two steps, late requests, stale reads, replay |
| repricer (`cmd/kernel/repricer.go`, `internal/store/repricing.go`) | reprice cancels and replacements (attempts with `seq > 1`) | stage cancel, finalise, replace | partial fills between cancel and replacement, tick rounding |
| exposure ledger (`internal/store/exposure.go`, `terminal_sweep.go`) | lots, open and close reservations, held risk and cash | open fill, close fill, release | proportional rounding, releases after partial fills |
| broker reconciliation (`internal/store/broker_reconciliation.go`) | observation generations, external change episodes | reconcile an observation | local effects in flight while the broker is read |
| risk gate and admission (`cmd/kernel/main.go`, `canary.go`, `internal/risk`) | operations, trade grants, day open, review state | propose, review, expire | limits checked under locks taken one at a time, midnight, repeated requests |
| kernel policy and canary authority (`kernel_policy.go`, `live_canary.go`, `live_canary_attestation.go`) | append-only revisions, day attestations | record, attest, widen | a revision racing the decisions made under it |
| PnL breaker (`internal/store/pnl_breaker.go`) | breaker row and overrides of the day | evaluate, resume | priorities, overrides, midnight |
| broker connection (`cmd/kernel/robinhood_connect.go`, `internal/rhmcp`) | OAuth flows, one record with token and bound account, the served account | connect, callback, refresh, bind, activate | handlers that replace a whole record they read earlier |
| Runs, Tasks and task graphs (`cortex-worker`, `inputgateway/postgres.go`, migrations) | Run, Task, Session, Attempt, Turn, slots, schedules, joins | claim, dispatch, resolve, commit, admit scout or graph, join, cancel, expire | leases, late model answers, six recovery daemons |
| tool calls (`cortex-input`, `research-gateway`, `cortex_read.go`) | intents, receipts, recovery rows | authorise, fetch, record, recover | the same question answered twice |
| paper effects (`paper_effect_executor.go`, `agent_paper.go`) | candidates, authorisations, receipts, paper account | review, authorise, settle, recover | lost answers between two services, a rejection that races, a recovery list of fixed length |
| decision triggers (`decision_trigger*.go`) | revisions, samples, occurrences, wakes | evaluate, materialise, admit, replay | out-of-order observations, crash between four commits |
| blob store (`blob/local.go`, `inputgateway/postgres.go`) | stage rows, content rows, files | stage, verify, materialise, commit, read | database and file system fail separately |
| watchdog, market data, telemetry, console, agent runtime, governance validators | caches, or none | sampling, HTTP views, validation | I/O or pure functions (not modelled, section 5) |

How they interact. Agents are woken by requests and decision triggers and run as
Tasks under leases; they read through tools and propose through the kernel's API.
`propose` stages an attempt in the same transaction as its operation, order and
reservation; a worker claims it, refreshes broker facts (pre-effect barrier),
commits a send marker and only then calls the broker; what it learns is stored by
one `ResolveAttempt` transaction. The reconciler repeats whatever a worker left
undone. The halt switch, the gate row and the ledger lock are what every part of
the kernel shares. Between Cortex and the kernel there are only two calls: a read
tool, and the settlement of a paper order under an effect id.

What makes each part correct:

* *execution store*: at most one unresolved attempt owns the account; nobody with
  an old token writes; an attempt that may still be sent keeps its order and
  reservation; what is terminal or filled stays so.
* *workers and reconciler*: an attempt becomes at most one order; an order that
  works, or may appear, is backed by a reservation; the books never run ahead of
  the broker and end with its last word; after a halt nothing opens; what a
  stopped worker left is taken up again.
* *repricer*: the quantity of the operation is never exceeded, its one
  reservation follows the working order, prices stay on ticks and inside the
  approved bound.
* *exposure ledger and broker reconciliation*: the ledger's shares are those its
  own orders bought; only other people's sales are written off; the kernel never
  sells what is not there; a reservation covers every fill it admits.
* *admission, policy, canary*: limits hold for all operations in flight together;
  a decision is made once, under the policy in force when it commits; limits are
  widened only on days that earned it.
* *PnL breaker*: a stop, a streak or a disagreement halts the ledger until the day
  ends or an administrator overrides that reason for that day.
* *broker connection*: a code is exchanged once; only an account a person
  confirmed is served.
* *Cortex*: records move along the declared lifecycle, a finished Run leaves
  nothing behind, an answer that comes too late is not used, and a Run ends; a
  tool call has one fact, a paper effect one settlement, a firing one wake, a
  record one readable blob, and each of these is reached although processes die.

## 2. Modules

| module | models | checked by | proved in |
|---|---|---|---|
| `ExecutionStore` | the transactions of the execution store, called by anyone, with any fencing token, at any time | `live_safety`, `live_liveness` | `LiveExecutionProofs` |
| `LiveExecution` (extends `ExecutionStore`) | workers and reconciler that call those transactions and an external broker, with crashes, late and lost requests | `live_*` | `LiveExecutionProofs` |
| `Reprice` | cancel, proof, finalisation and replacement of one managed order by repricer and reconciler | `controls`, `reprice_liveness` | `RepriceProofs` |
| `Pricing` | the price walk of the repricer | `controls` | `ControlsProofs` |
| `OpenOrder` (extends `Pricing`) | the terms of one opening order from request to fills | `controls`, `reviewed_cap` | `ControlsProofs` |
| `Breaker` | the PnL breaker of one ledger over market days | `controls`, `breaker_latch` | `ControlsProofs` |
| `Exposure` | the exposure ledger of one symbol beside an account people trade in | `controls`, `exposure_cached` | `ExposureProofs` |
| `Admission` | proposals, reviews, policy, canary and attestations as transactions that take locks one by one | `admission`, `lock_order` | `AdmissionProofs` |
| `BrokerConnection` | OAuth, token refresh, binding and activation | `controls` | `ControlsProofs` |
| `RuntimeContract` | abstract: the lifecycle `runtimecontract/state.go` declares | `cortex` (implemented by `CortexRuntime`) | `CortexProofs` |
| `CortexRuntime` | one Run with its worker lanes, handlers and daemons | `cortex`, `platform` | `CortexProofs` |
| `CortexTools` | tool calls over worker, Control, research gateway and kernel | `platform` | `PlatformProofs` |
| `PaperEffects` | paper candidates over Control and kernel | `desk` | `PlatformProofs` |
| `DecisionTriggers` | one market trigger, live and in replay | `desk` | `PlatformProofs` |
| `BlobStore` | the bytes of records, in rows and files | `platform` | `PlatformProofs` |

`MC*` modules give the constants values for TLC. `MCControls`, `MCPlatform` and
`MCDesk` put components that share no variable side by side: the initial state chooses
one, and only that one moves. A run of them is the union of the components'
separate runs, with one configuration and one table of properties. `SumTheorems`
holds what the proofs need of sums over finite sets (the kernel's `SUM` queries).
In every module a definition whose comment begins "Mutant" is a deliberately
wrong variant of the definition that follows it; no specification uses it, and
each property is shown to notice at least one of them.

### 2.1 ExecutionStore

*State.* One function per column: `state`, `token` (the `attempt` counter that
fences writers), `leased`, `sent`, `replays`, `candidate` of `execution_attempt`;
`order`, `boundOrder` (`broker_order_id`), `filled` of `orders` and `fills`;
`reserved`, `status`; the gate's `active` and `unknown`; `halted`.

*Actions.* `StageAttempt`, `ClaimAttempt`, `MarkAttemptSent`,
`MarkAttemptReplayed`, `ResolveAttempt`, `FailPendingAttempt`, `ApplyOrderUpdate`,
`ActivateGlobalHalt`, `ResumeGlobalHalt` bear the methods' names. Every method
takes its row or advisory locks before it reads, so each is one action; the
branch that ends in `ErrFillIntegrity` rolls back and records the halt in a second
transaction (`ResolveIntegrityFailure`, `ApplyIntegrityFailure`). `LeaseExpires`
is the clock. A provider order is named by the attempt that caused it.

*Left out.* Replacement attempts (`Reprice`); manifests, hashes and audit rows.
The entitlement failure inside a claim is not an action of its own: theorem
`ClaimableStaysEntitled` shows that its condition never arises. Paper placements
pass no gate; they are covered by the theorems, which hold for every `Kind`, and
not by a run.

### 2.2 LiveExecution

*State.* `worker[w]` is what a goroutine remembers between two transactions
(where it is, attempt, token, the resolution it is about to store); `request` the
first call and the replay of an attempt; `created`, `brokerOrder`, `inWindow`,
`windowOpen`, `near` the external broker; `cutSends` a history variable.

*Actions.* `Propose`, `ClaimPending`, the pre-effect barrier, the send marker, the
call and its outcomes follow `executeClaimedAttemptWithReplay`;
`ClaimUncertain`, `RecoverUnsent`, `QueryCandidates`, `ClaimCandidate`, adoption and
replay follow `reconcileUncertainAttempt` and `reconcileLivePlaceAttempt`
(`ReplayVerified`: the equity orders, where dedupe and replay window are verified);
`ObserveOrder` and its apply step follow `reconcileWorkingOrders`. `Crash(w)` stops
a worker anywhere. The broker delivers requests late or never, fills, ends orders
and honours or ignores cancels; it is modelled from the answers the adapter
accepts and marked external in the map.

*Left out.* Orders a person places that match an attempt's intent and window
exactly. A pending attempt has no expiry of its own in the code; nor here. An
attempt with no candidate at the broker stays unknown, and keeps the account
latched, until a person acts: the code wants it so, and no liveness property
contradicts it.

### 2.3 Reprice and Pricing

`Reprice` has one operation with up to `MaxReprices + 1` generations of its order.
The repricer stages a cancel, claims it, calls the broker, reads the order back
and finalises; the reconciler takes over cancels whose lease ended and observes
working orders that are not managed (`errRepriceManagedOrder`). Claim, send and
lookup of a replacement are four steps here, since `LiveExecution` has them in
full, and the gate, which only delays them, is left out. The fence is modelled by
its owner; the repricing interval and the age of quotes are a nondeterministic
refusal to stage. `Pricing` is the arithmetic: target, half step, tick rounding on
both sides of the cutoff, the approved bound and the overflow check.

Two things the model shows and no property forbids: when the cancel request is
lost, the order is not observed until it ends at the broker or the cancel is
recovered; and an order somebody else ends inside the cancel window is replaced
like a cancelled one.

### 2.4 Breaker

One row `breaker = [reason, updated]`, the overrides of each day, the day-open
and daily-PnL rows. `EvaluateDayRisk`, `ResumeBreaker` and `Midnight` are
transactions that commit (one that crosses midnight is rolled back), and
`ImportCloseFill` changes the realised PnL of today or, for a late fill, of an
earlier day. Realised PnL is an input; the `effective` column, which nothing
reads back, is left out.

### 2.5 Exposure

Quantities of one symbol. `position` and `border` are the broker's; `tracked` is
the sum of the ledger's open lots; `op[o]` operation, attempt, order and
reservation with the split into tracked and external shares. A snapshot is three
reads (`ReadGeneration`, `ReadPositions`, `RecordObservation`); the same three
steps serve a decision and the pre-effect barrier (`AfterSnapshot`). `Reconcile`
takes the head, defers while own effects are in flight, writes off what others
sold and invalidates stale work. Generations only grow and are only compared for
equality with the present one, so a snapshot carries `current`. The time to live
of the query cache is over-approximated: a read-model request may be answered
from any cached read. The broker holds shares for resting sells. Lost answers are
left to `LiveExecution`; people's resting orders are not modelled.

### 2.6 OpenOrder

One opening buy, equity or option, limit, market, stop-market or stop-limit.
`Derive` is `deriveOpenOperationWithLimits`: cap, working price and required cash
from the request, a quote and a policy, with tick rounding from `Pricing` and
quantities in units of `Scale`. `ProposeOpen`, `ReviewOpen` and `RecoverPending`
each fetch their own quote and derive the terms again (`Again`) under the policy
the operation is bound to; `SendOpen` builds the provider's intent; `ApplyOpenFill`
consumes the reservation (`Proportional` is `proportionalInt64`, rounded up).
Whether the risk gate admits the order is a choice here and `Admission`'s subject.

### 2.7 Admission

Every transaction of a proposal, review, policy or canary command is a record in
`transaction` that takes its locks one at a time (`Locking`, `LockName`,
`LockMode`, `Blocks`) and reads only after it holds them; between two steps other
transactions, fills, halts and midnight move. An operation carries its grant and
its attempt; `canary` and `policies` are append-only; `attested` are the day
attestations `Eligible` counts. Assumptions: only live opens (closes are
`Exposure`'s), only Alpheus trades in the account, claim, resolution and booking
are single steps (they are `LiveExecution`'s), and PostgreSQL's queueing of lock
requests is left out, which only adds behaviours.

### 2.8 BrokerConnection

`connection` is the one encrypted row with token and bound account; `request[c]` is
a handler (console read, callback, bind, activation, start-up) between two of its
steps. `Puts` replaces the whole row, as `PutAgentSecret` does. The history variable
`crossed` records a save that was built from a row somebody else replaced since:
the third conjunct of `ConnectionSafe` holds exactly up to there. Overlapping
handlers do lose updates in this model, as they do in the code: `postRobinhoodBind`
writes back the token it loaded before its own client refreshed it, and the
callback takes a failed read for "no binding". The sources promise nothing about
overlapping requests, so this is described here and in the hazards, not as a
finding.

### 2.9 RuntimeContract and CortexRuntime

`RuntimeContract` is the abstract specification: the transition graph of
`runtimecontract/state.go` for Run, Task, Attempt and Turn, and what a Run promises
as a whole (it ends once, everything in it is over then, nothing moves afterwards).
`CortexRuntime` is what the database functions and the processes do: lanes of
`cortex-worker` claim, start, dispatch, call the provider, resolve, commit, fail,
park behind a scout or admit a graph; `cortex-input` admits requests, prepares
Sessions and runs the daemons for expired Runs, cancellations, joins, rounds,
scouts and missing Sessions. `ImplementsContract` is the refinement, with
`INSTANCE RuntimeContract WITH`: an absent Task maps to "none", everything else to
its own state. A lease is long, alive or expired; a deadline far, near or passed;
what a model answers is a choice from `Choices`.

### 2.10 CortexTools, PaperEffects, DecisionTriggers, BlobStore

`CortexTools`: the five tools differ in who executes them and in what is replayed,
so each has its handler, its service and its receipt action; `Facts` is what the
world may answer, and may differ between two fetches. Only web fetches have a
recovery loop. `PaperEffects`: executor (HTTP handler or recovery) and kernel are
separate actors; an abandoned request stays inside the kernel and settles late.
`proposed` keeps the order of `proposed_at`; what recovery sees is `Newest`, the
last `ListLimit` of it (100 in the code) whatever became of them, as migration
0121 selects before the Go code filters. The profile starts as migration 0034
seeds it.
`DecisionTriggers`: the evaluation loop, its recovery lists and the replay handler
drive the same four commits (sample, occurrence, Run, Session). A revision has its
own cooldown. The policy heads that 0111 and 0113 compare are left out: a
registration takes the heads of its moment, and nothing in the repository ever
moves one, so the comparison cannot fail. `BlobStore`: the
stage row, the staged file, the content link and the committed row are four
places; a file is absent, partial or the digest of its bytes.

## 3. What the runs check

| run | instance | properties |
|---|---|---|
| `live_safety` | 1 placement of 2 shares, 2 workers, 4 claims, replay verified; or 2 placements that look alike, 4 claims between them, a broker that does not deduplicate | `EffectsBacked` `BooksMatchBroker` `HaltCut` `OrderIsItsOwn` `StoreSafe` `ResumeSettled` |
| `live_liveness` | a placement and its cancel, 1 worker | `CancelSettled` `StoreSpec` `ClaimRecovered` `BooksConverge` |
| `reprice_liveness` | a live open or a simulated close, one replacement | `RepriceSettles` |
| `cortex` | 2 lanes in 2 processes, a scout, graphs of 2 nodes and their desk, 2 rounds, 1 crash | `RecordsAgree` `LateAnswerNeverAccepted` `ImplementsContract` |
| `admission` | 2 keys, 2 connections, 2 market days, 1 revision of each kind | `NeverOverspent` `GrantsWithinCanary` `DecisionsAreFinal` `BoundToActivePolicy` `WideningEarned` |
| `platform` | one Run on one lane with 2 rounds and a tool node; one tool call, two records | `FactsAgree` `CommittedIsReadable`; liveness: `RunEnds` `EndsOrStranded` `WebFetchSettles` `CommitSettles` |
| `desk` | one trigger, 2 revisions, 2 cooldowns, 2 samples, 1 frame, 1 fault; 2 candidates and a recovery list of one, 1 handler, 2 mode changes, 1 fault | `WakesAreSpaced` `SettledAtMostOnce` `RejectionStands`; liveness: `FiringSettles` `AuthorizedIsReceipted` |
| `controls` | 3 market days; 5 accounts; prices to 26 and 4 tick schedules; every order type; the reprices of a live open and of a simulated close; 2 OAuth flows and 2 handlers | `BreakerSafe` `StopsHold` `ExposureSafe` `PricingSafe` `NeverStuck` `HalvesTheDistance` `OpenSafe` `RepriceSafe` `WithinPolicy` `ConnectionSafe` |
| `breaker_latch` | 2 market days | `DailyStopStaysLatched`: violated, finding 1 |
| `exposure_cached` | an opening order, a close, a read-model request | `CachedNeverReduces`: violated, finding 2 |
| `lock_order` | a proposal and a reconciliation | `NoWaitCycle`: violated, finding 3 |
| `reviewed_cap` | the opening orders of `controls` | `CapIsAuthoritative`: violated, finding 4 |

The properties named `...Safe`, `RecordsAgree`, `FactsAgree`, `WakesAreSpaced` and
`OrderIsItsOwn` are conjunctions of named parts, each with its own comment in its
module, and most with a mutant of its own.

There are two refinements. `StoreSpec` in `live_liveness`: `LiveExecution` uses the
store's variables unchanged, so the mapping is the identity, and the property says
that no step of a worker, a broker or a crash changes the tables in a way that is
not one of the store's transactions; everything proved of `ExecutionStore` then
holds of the tables in `LiveExecution` as well. `ImplementsContract` in `cortex`:
the database commands and processes of the agent platform implement the lifecycle
the Go package declares.

### 3.1 Findings

1. `breaker_latch`. `pnl_breaker.go:395` says "Once hit, the daily stop remains
   latched for that market day." The row is not rewritten when the reason stays
   the same (`:402`), so a stop that carries over midnight into another losing
   day keeps the earlier day's timestamp. `timestampOnMarketDay` then fails: a
   recovery of the day's PnL lets the ledger trade again the same day without an
   override, and until then `ResumeBreaker` refuses with `breaker_not_active`
   although every evaluation reports `daily_loss`. `DailyStopHolds` is what does
   hold: a stop whose row was *written* that day.
2. `exposure_cached`. `broker_observations.go:297` says read-model and cached
   snapshots "can never reduce the internal exposure ledger". Every complete
   observation becomes the head, and `ReconcileBrokerObservation`
   (`broker_reconciliation.go:112`) reconciles the head and not the observation
   it was asked for. A `GET /state` answered from the cache and recorded between
   a decision's observation and its reconciliation writes off shares whose
   opening fill is newer than the cache.
3. `lock_order`. `broker_reconciliation.go:131` locks the gate row before the
   ledger lock (`:156`); proposals and reviews take the ledger lock first and then
   the row. Each can hold what the other waits for. The comment at `:178` says
   "this order cannot deadlock with a proposal or fill reconciliation
   transaction"; PostgreSQL breaks the tie by aborting one of them.
4. `reviewed_cap`. `main.go:2488` says of a market order that the client's
   declaration "remains the durable cash/risk authorization". `propose` stages it
   with the approved cap, a review with the ask of that moment (`main.go:3071`),
   and fills are measured against what was staged (`exposure.go:240`). A fill
   above that ask and inside the cap is refused as an integrity failure, which
   halts the kernel.

Limits of the code that the passing properties state as exceptions:

* `TrackedShare` (`main.go:1092`) does not subtract what other held closes of a
  shared position were promised, so two closes may count on the same tracked
  share and the second fill is refused (`FillsAreImported`).
* A decision does not wait for fills on their way: while a reconciliation is deferred,
  `propose` goes on. A close decided before an opening fill is imported sells
  Alpheus's own shares as external ones (`OwnSharesStayTracked`), and a later
  reconciliation writes these shares off as an external reduction although nobody
  else traded (`SoldAsExternal` in `ReductionIsExternal`).
  `docs/plan/07_BROKER_COEXISTENCE.md:51` calls external what "no exact Alpheus
  lineage matches".
* A lane that returns between two turns, or dies there, leaves an Attempt that
  nothing reclaims; a Decision Desk that fails for good leaves its parent waiting;
  a canceled Run with an unknown turn stays `canceling`. Only the Run's deadline
  ends these (`Stranded`, `EndsOrStranded`, `RunEnds`).
* The recovery of paper orders asks for the newest 100 candidates, settled ones
  included, and filters them afterwards (`paper_effect_executor.go:217`, migration
  0121): an authorised order whose answer was lost and behind which 100 younger
  candidates pile up is never tried again (`c \notin Newest` in
  `AuthorizedIsReceipted`). Without this exception `desk` fails after ten states;
  with a list as long as the candidates it holds without it.
* A paper order whose candidate's mode or review moved on after its authorisation
  gets no receipt (`AuthorizedIsReceipted`), and may get one that says failed
  although it filled, as `IMPLEMENTATION_STATUS.md:218` leaves open.
* A wake whose committed prompt differs from the one recovery renders is never
  admitted (`FiringSettles`); nor would be a firing whose owner or runtime policy was
  rotated before its Run, which nothing in the repository does. The two recovery
  lists hold the oldest 100 that are pending; a firing that older ones keep off
  closes by its window. A value fetched for one revision of a trigger may be
  recorded under the next (`decision_trigger_evaluator.go:238`).
* A staged file that a dying process left partial blocks its record for good
  (`Torn`, `CommitSettles`).
* A join whose downstream Task has no Session makes the reconciler's batch fail
  (`SELECT ... INTO STRICT` in migration 0071); with the one graph of the model
  this only delays the join.

### 3.2 Bounds, and why they are enough

* *Attempts: two* (three names in `live_safety`, where the single placement and the
  pair exclude each other by the action constraint `OneOrTwins`). Exclusion,
  misattribution and cancelling are relations between two attempts. The theorems
  remove this bound for the store.
* *Workers: two* (one at a time where two attempts already interleave). The fence
  compares the caller's token with the row's, so a second worker is what a stale one
  needs; more only repeat it. Symmetry over workers, twins, nodes and connections is
  used in `live_safety`, `cortex`, `admission` and `lock_order`, which have no
  liveness property and whose properties name none of them.
* *`MaxToken`: 2 to 4 claims.* Two are a claim and its recovery; `live_safety` has
  the claim, a replay, a candidate adoption and one more.
* *Quantity 1 or 2.* Two is the smallest with a partial fill. Of the twins only one
  fills, either one.
* *`MaxReprices` = 1.* The replacement is itself an order that fills, ends and can
  no longer be replaced, which is the boundary case of the policy.
* *Prices up to 26* cover both bands of every tick schedule several ticks deep,
  including ticks that do not meet at the cutoff; opening orders have quantities
  of 2 to 4 micro-units with a scale of 2, so that one is fractional.
* *Three market days* and a streak of two: one day before the streak. PnL moves
  in steps of 2 with a daily limit of 2 (40 % of 5) and a tolerance of 1, so every
  threshold can be met and missed. The provider's figure is -2 or missing. An equity of
  zero is left to `BreakerIsSafe`, which holds for every equity.
* *Accounts of at most 3 shares.* Two closes of 1 and 2 shares can collide over
  what is there; `c9`, larger than any position, is always refused. One account has
  an opening order beside two closes and nobody else in it: that is where own
  shares are sold as external.
* *Admission: two keys, two connections, two days.* Limits and locks relate two
  transactions; the second day is the one an attestation of the first may widen.
  `GovernanceBound` allows one revision of each kind.
* *Cortex: five model calls* carry a root, a graph of two nodes and its desk to the
  end (`MCBudgets`); a second budget has a retry and fewer calls. `cortex` has two
  lanes and safety only; `platform` has one lane, one node at a time and the turns
  that fail, correct or abandon, since liveness is checked there. Each run allows
  one crash or failed read; the daemons' work after a second one starts from the
  same kinds of state.
* *Connection: one listed account, two flows, two tokens, two handlers*: a first
  authorisation and one refresh or reauthorisation, with another handler between.
* *Tools, triggers, blobs*: one call with two possible answers, one trigger with
  two revisions, of a level and then of a crossing comparator (`InTurn`), and two
  samples, two records of which two callers disagree about
  one; one fault each.
* *Paper: two candidates and `ListLimit` = 1*, so that the younger one pushes the
  other off the recovery list before, while or after it is tried; the first to be
  proposed buys and the second sells (`InOrder`), before there is a share to sell or
  after; the cash is enough to notice a second buy. The one fault is a lost answer, a crash or a recovery pass that is cut: the
  code cuts a pass after 20 s (`paper_effect_executor.go:209`), and if it cut every
  pass before its oldest candidate, that one would never be tried. The model leaves
  this out: after the last fault, passes run to their end.

### 3.3 Deadlock

`CHECK_DEADLOCK FALSE` where everything may be resolved, ended or spent and
nothing is left to do: all attempts resolved (`live_*`, `reprice_liveness`), the
Run over (`cortex`, `platform`), all candidates and firings settled (`desk`), all keys decided and the last day over
(`admission`, `lock_order`), and in `controls` and `reviewed_cap`, where an order,
an account or a reprice ends.

### 3.4 Fairness

Safety properties are checked without any. `LiveExecution!LiveSpec` assumes that
kernels in the end stay up (`<>[][Running]_vars`), that a worker that has begun
goes on (every call has a timeout), that leases end by the clock, and, strongly,
that the reconciler gets to every recoverable attempt and every working order:
`startAttemptReconciler` scans all of them on every tick, but between two ticks
the row may be held. `Reprice!RepriceLiveSpec` assumes the same of its goroutines,
and also that the broker answers and market data is there infinitely often, and
that the repricer's tick does not fall between the reconciler's list, read and
update every single time; the two tickers run independently, and nothing in the
code aligns them.

`MCPlatform` states the fairness of the agent platform, one formula for each
component: `serveLane` loops while its process lives and provider calls time out;
the daemons of `cortex-input` run every few seconds for ever; leases age; a lane
that reclaimed an Attempt is not for ever slower than its fresh 120 s lease (the
one strong condition, on `ResolveFailure`); a service answers what it is asked and
an outage ends; a caller of the blob store repeats a failed call. `MCDesk`
does the same for its two: the executor, the kernel's handler, the recovery tick
and the evaluation loop go on. No fairness is
assumed of broker fills, of people, of policy changes, of a trigger's clock, or of
crashes.

## 4. What is proved

All theorems are checked by TLAPS to the last leaf and hold for every value of
the constants that satisfies the named assumptions of the module.

| theorem | statement | from |
|---|---|---|
| `StoreTypeCorrect` | `StoreSpec => []StoreTypeOK` | inductive as it stands |
| `GateIsExclusive` | `StoreSpec => []GateExclusive` | with `StoreTypeOK` |
| `ClaimableStaysEntitled` | `StoreSpec => []ClaimableIsEntitled` | `Entitlements` |
| `BindingStaysUnique` | `StoreSpec => []BindingUnique` | with `StoreTypeOK` |
| `StoreIsSafe` | `StoreSpec => []StoreSafe` | the four above |
| `HistoryIsDurable` | `StoreSpec => DurableHistory` | an action property, from `StoreTypeOK` |
| `PricesStaySupported`, `BoundIsNeverCrossed` | `PricingSpec => []PricingTypeOK`, `[]NeverCrossesBound` | `PricingInv` |
| `PricingIsSafe` | `PricingSpec => []PricingSafe` | the two above |
| `StepsHalveTheDistance` | `PricingSpec => HalvesTheDistance` | an action property, from `PricingInv` |
| `RepricingNeverSticks` | `PricingSpec => []NeverStuck` | `PricingInv` |
| `OpenOrdersStaySafe` | `OpenSpec => []OpenSafe` | `OpenInv` |
| `BreakerTypeCorrect`, `ResumeSuppresses`, `NoAdvanceOverride`, `StopNeedsAdministrator` | `BreakerSpec => []...` of `BreakerTypeOK`, `OverrideSuppresses`, `OverrideNeedsStop`, `DailyStopHolds` | `BreakerInv` |
| `BreakerIsSafe` | `BreakerSpec => []BreakerSafe` | the four above |
| `DivergenceNeedsAdministrator`, `StopsAlwaysHold` | `BreakerSpec => DivergenceIsLatched`, `StopsHold` | action properties, from `BreakerInv` |
| `RepricesStaySafe` | `RepriceSpec => []RepriceSafe` | `RepriceInv` |
| `ReplacementsStayWithinPolicy` | `RepriceSpec => WithinPolicy` | an action property, from `RepriceInv` |
| `LiveInvariant` | `Spec => []LiveInv` | inductive as it stands |
| `LiveImplementsStore` | `Spec => StoreSpec` (refinement) | `LiveInv` |
| `WorkersKeepStoreSafe` | `Spec => []StoreSafe /\ DurableHistory` | the refinement and the theorems of the store |
| `EffectsStayBacked`, `BooksStayBehindBroker`, `HaltCutsOpenings`, `OrdersAreTheirOwn`, `SettledCancelsAreDone` | `Spec => []...` of `EffectsBacked`, `BooksMatchBroker`, `HaltCut`, `OrderIsItsOwn`, `CancelSettled` | `LiveInv` |
| `ResumeIsSettled` | `Spec => ResumeSettled` | an action property, from `LiveInv` |
| `CommittedStaysReadable` | `BlobSpec => []CommittedIsReadable` | `BlobInv` |
| `EffectsSettleOnce` | `PaperSpec => []SettledAtMostOnce` | `PaperInv` |
| `RejectionIsFinal` | `PaperSpec => RejectionStands` | an action property, from `PaperInv` |
| `FactsStayInAgreement` | `ToolsSpec => []FactsAgree` | `ToolsInv` |
| `WakesStaySpaced` | `TriggersSpec => []WakesAreSpaced` | `TriggerInv` |
| `ConnectionIsSafe` | `ConnectionSpec => []ConnectionSafe` | `ConnectionInv` |
| `RecordsAlwaysAgree` | `CortexSpec => []RecordsAgree` | `CortexInv` |
| `LateAnswersAreRefused` | `CortexSpec => LateAnswerNeverAccepted` | an action property, from `CortexInv` |
| `CommandsImplementContract` | `CortexSpec => ImplementsContract` (refinement) | `CortexInv` |
| `DecisionsStayFinal`, `PolicyIsCurrent`, `GrantsStayWithinTheCanary` | `AdmissionSpec => ...` of `DecisionsAreFinal`, `BoundToActivePolicy`, `GrantsWithinCanary` | action properties, from `AdmissionInv` |
| `WideningIsEarned` | `AdmissionSpec => WideningEarned` | an action property, from `AdmissionInv` |
| `NeverPromisesTooMuch` | `AdmissionSpec => []NeverOverspent` | `AdmissionInv` and `MoneyInv` |
| `ExposureStaysSafe` | `ExposureSpec => []ExposureSafe` | `ExposureInv` |
| `TotalChange` and the other theorems of `SumTheorems` | how a sum over a finite set changes, compares and splits | - |

*The store* (assumptions: `NoAttempt` is no attempt, `Kind` gives each attempt a
kind, legacy attempts are placements, quantity and token bound are positive).
`ClaimableIsEntitled` is not inductive: staging an attempt must find a fresh row,
so `Entitlements` adds `UnstagedIsFresh`, that an attempt which was never staged has
no order, no fills and no binding. The step that carries the argument is
`UncertainTouchesNothing`: a resolution that leaves an attempt claimable (unknown)
writes neither order nor reservation. `GateExclusive` rests on `GateAllows`: a
claim passes only if the gate is empty or is the claimer's own and no other
attempt is unresolved.

*Pricing* (assumptions: a positive largest price, sane tick schedules). The first two
theorems are inductive only together, since a step starts from a supported price
inside the bound. The work is in the rounding lemmas `FloorIsBelow`, `CeilIsAbove`
(what rounding to a tick returns on either side of the cutoff) and in
`NextBuyIsCapped`, `NextSellIsFloored`. That a step covers half of the way
(`BuyStepHalves`, `SellStepHalves`) holds for every tick schedule: the half step is
rounded towards the market. That a walk never sticks needs `Aligned`, as
`NeverStuck` says: if the ticks meet at the cutoff, a price rounded up across it
lands on a multiple of both ticks, and rounded up it does not pass a supported
price above it (`CeilReaches`), so there is always a next limit.

*Opening orders* (assumptions: a positive scale, requests, quotes, policies and fill
prices of their types, a multiplier of 1 for equities, and a usable quote has a
positive bid below its ask). `OpenInv` has two parts. `TermsHold`: an order that was
not turned away holds the terms its declaration and its bound policy determine
(`TermsStand`); a second derivation finds the same ones whatever the quote
(`DerivedAgain`), because a cap that stands on a tick is its own rounding and an
unpriced cap follows from the budget alone. That is `ReviewReproduces`. `BooksHold`:
the reservation is the share of the cash that the rest of the quantity is of the
whole, and what the lots have cost is bounded by the shares they opened at the cap,
but for two roundings a fill. `TermsCover` (the cash pays for the whole quantity at
the cap, with fees) and `ShareCovers` (so does a share of it for the rest) turn this
into `CashCovers`.

*The breaker* (assumptions: days are 1 to `MaxDay`, figures are integers, limits
are natural numbers). `BreakerInv` adds to the four properties `RowWasWritten` (a
row that says daily_loss was written as such on the day it bears) and
`StopIsHeld` (on a day whose stop was written and not resumed the row still
halts). Without the second, a midnight or a divergence between the stop and the
verdict could not be excluded. The streak part of `StopsHold` compares two counts: the
run of losing days, wherever its days lie, and what the query finds in the last
`ConsecutiveLossDaysHalt` opened days before today. `RecentIsEnough` is the reason
they agree: either the query returned every opened day since the run began, or it
returned as many as the limit, all of them after a day of the run and so all lost.

*Reprices* (assumptions: a positive quantity, a natural number of reprices, modes of
their type). `RepriceInv` is a *chain* of placements (`Chain`): each but the last is
settled, with the fills the broker ended it with, and the next one has what it left.
The reservation follows the last of them (`Reserved`), so an order that works is
backed by it. Two goroutines read the broker at different times; what either
remembers is the broker's past (`ReadFact`): a read that a finalisation rests on is
the order's end, and one of the reconciler is no older than the books while the
placement is placed. A read that waits while a cancel is settled is refused
(`RepriceManaged`), which is the case `RepriceInv` needs `place` and `cancel` for.
`UpdateKeepsBooks` and `ReplaceKeepsBooks` are the two moves of the books; every
action is one of them or leaves the books alone. `NeverOverfill` sums over the
chain: what the placements filled and may still fill is `Qty` less what the last one
began with, plus what that one fills or may fill. The sum is a recursive function on
an interval; an explicit function that satisfies its equation and `NatByStep` of
`SumTheorems` give its value (`FillsFit`). `WithinPolicy` holds since only
`FinalizeRepriceCancel` stages a placement, and counts in the same transaction.

*Workers, broker and crashes* (assumptions: the store's, `Target` gives each cancel a
placement, `Alike` relates placements). The store alone promises nothing about the
broker: that is what the workers add, and what they add is spread over what each of
them remembers between two transactions. `LiveInv` writes it down.
`BrokerFact`: one order at most comes of the requests of an attempt. `SendFact`: a
request has its marker, a marked and unresolved attempt owns the gate, and after a
Halt an opening attempt gets no further marker. `BookFact`: a row is bound to its
own order and lags behind it; a placement is resolved only when it is bound, or
when it is `Quiet`: no request, no order, no worker about to call. `CancelFact`: a
settled cancel has ended its target. The other parts say what a worker may rely on
at each of its steps. `ShapeFact` and `DriveFact`: while its fence holds, a worker
before the marker has sent nothing and one in the call has an unused ordinal.
`PlanFact` and `ApplyFact`: the resolution or read a worker is about to store is the
broker's *past*, not its present. This is what makes stale reads harmless: a fill
only grows and an ended order does not change, so the past is a lower bound and an
end is final. `PairFact`: two workers that drive one attempt carry different tokens.
Without `Quiet` in `BookFact`, for instance, a resolution "not submitted" could
overtake a request that still flies; `EffectsBacked` is exactly that case.
`LiveImplementsStore` needs `LiveInv` as well: `StoreNext` takes only resolutions that
fit a claimed attempt, and updates a provider can give, of orders past `new`.

*Blobs* (assumptions: `"none"` and `"partial"` are no digests). `BlobInv` has what
a caller knows at each step (`WriterFact`: it verified the content file before
`commit`), what a row says (`RowFact`) and that a file at a content address holds
that content or is absent (`FileFact`). *Paper effects* (assumption: no handler is
called `"nobody"`): `PaperInv` follows the idempotency key through the call; a
request inside the kernel has its authorization, one caller at most listens to
it, and an answer 200 has a fill (`OrderFact`, `ExecutorFact`). *Tool calls*
(assumption: `"none"` is no fact and no daemon, `"handler"` is no daemon):
`ToolsInv` says that what is called is intended, and that an acknowledgement is
the executor's own receipt, whichever of the handler and the recovery daemons
wrote it first (`SourceFact`, `BatchFact`, `CallFact`). *Decision triggers*
(assumption: bounds are natural numbers, and no frame is 0, the mark of a live
sample; the platform gives a replay generations from 2, migration 0136): a wake
passes through four commits that several processes may drive at once, so
`TriggerInv` says what each remembers between two of them (`JobFact`) and that no
commit takes it back (`Kept`): a firing stays, its occurrence stays, a committed
prompt does not change. That is why the second admission of an occurrence finds
its own wake. `CooldownHolds` is inductive because a live sample is compared with
every sample and one of a replay with all of its revision's.

*The connection* (assumptions: as many tokens as `MaxTokens`, and `Unbound` is no
listed account). `ConnectionInv` adds what a handler holds between two steps: each
account it read or was given was confirmed (`RequestFact`), and the flow it is
about to exchange is claimed by it alone (`ClaimsApart`) and not exchanged yet. The
last conjunct of `ConnectionSafe` needs `PutKeepsRecord`: a write over the row it
was read from leaves the last token and the last choice there, and any other
write sets `crossed`.

*A Cortex Run* (assumptions: nodes are finitely many and none is called root, scout
or desk, `"none"` is no worker, limits are positive). `RecordsAgree` speaks of Task,
Attempt and Run; why no command tears them apart depends on what the commands
find. `CortexInv` has five groups. `TaskFact`: a Task, its newest Attempt and its
newest Turn move together. `RunFact`: a Run lives exactly as long as its root Task,
and is over only when all the others are. `ActsFact`: while the root acts, its role
says what went before (nothing, a Scout, or a refined round), and nothing else is
alive. `ParkedFact`: a parked root waits for its Scout or for its graph, whose Desk
stays blocked until the Join is ready; from these two follows `OneAnswer`.
`FoundFact` and `HoldFact`: a lane that still holds the lease works on the current
Attempt in a step of its role, and nobody has given its call up; a lane that lost
it may remember anything, and the guards refuse it. `Capacity`: slots and running
nodes within their limits. Most actions go through three frame lemmas: `QuietKeepsInv`
(no record moves), `OneTaskMoves` (one Task with its Attempt and Turn) and
`RecordsMove` (any set of Tasks; used when a Run is closed). The refinement and
`LateAnswerNeverAccepted` share `RecordsStep`, the moves of the records that a step
may make: each action is shown once to be one of them.

*Sums.* The kernel adds up grants, holds and fills over sets of rows, and so do the
models. A sum over a finite set is a recursive function on its subsets, and what
such a function returns needs an induction. `SumTheorems` does it without a theorem
that takes an operator: a set of naturals that holds 0 and each successor holds all
of them (`NatByStep`, from the well-foundedness of the naturals), and applied to the
set of the sizes at which the sum is what it should be this gives `SumsExist` and
`TotalStep`; the rest (`TotalChange`, `TotalOrder`, `TotalSubset`, `TotalUnion`)
follows by taking elements one at a time.

*Admission* (assumptions: keys and days of their types, finitely many keys, requests,
authorities and policies of their types). Transactions interleave after every lock,
so `AdmissionInv` says which locks exclude each other (`LocksExclude`), which locks
a transaction has where it stands (`LockFact`) and that what it read under them still
holds (`ReadFact`). The argument that carries all five theorems is `Writes`: a step
changes an operation only under its key or its row, grants, canary and attestations
only under the ledger, policies only under the policy, so a transaction that holds the
lock finds what it read (`ReadsStay`). `MoneyInv` adds the sums: what a transaction
read of the account is covered by the buying power that is there and the fills since
then, its request and all held ones fit in what it read, and the day's use fits the
cap. `WideningEarned` counts: the attestations a widening is based on map one to one
to earned days.

*Exposure* (assumptions: finitely many orders, positive quantities, holdings of their
type). `ExposureInv` has four ideas. *The books balance*: the position is what the
account began with, with people's trades and the broker's fills, and the ledger's
shares and its write-offs are what it began with and has booked (`BooksBalance`).
*Snapshots remember*: a position that was read, in a decision or in the head,
contains every fill that was imported then, and misses only those the broker made
since (`Sees`, `SnapFact`, `HeadFact`); a reconciliation goes on only when no own
effect is in flight, and then head and books show the same fills, so what is
missing was sold by others. *Decisions are ranked* (`DecisionsCovered`): each close
was decided on a position that covered all closes before it; a later decision
supersedes the claim of an earlier one whose barrier finds another position; so the
account covers the closes up to the last one that will ask the broker, and nobody
but people can make one come back rejected. *Promises*: while one close only was
promised tracked shares they are there (`PromiseKept`); in an account nobody else
trades in, a close sold as external has not been sent (`AloneFact`). The proof
showed that two of the properties had claimed too much: own shares sold as external
(section 3.1) were missing in `ReductionIsExternal` and `FillsAreImported`, and the
instances of `controls` had no account with an opening order and two closes. Both
were corrected against the code.

All inductive invariants were checked by TLC on the instances of section 3 before
they were proved. Five leaves name their prover and its time, because they
instantiate a lemma with many variables.

Every safety invariant, action property and refinement that a passing run checks is
stated by one of these theorems. Only model-checked: liveness under fairness
(`ClaimRecovered`, `BooksConverge`, `RepriceSettles`, `RunEnds`, `EndsOrStranded`,
`WebFetchSettles`, `AuthorizedIsReceipted`, `FiringSettles`, `CommitSettles`), which is
outside the prover's reach.

## 5. What is not modelled

* Transport, quote parsing, HTTP views, telemetry and the watchdog's sampling, the
  GEXBOT provider, and the rest of the research gateway: input and output around
  single comparisons.
* Lots with their cost and risk, FIFO closing, the shadow ledger and the terminal
  sweep: `Exposure` has quantities only.
* Validation of a planner's or model's JSON, prompts and token accounting: a
  choice between admitted and refused. Governance, capability and release
  packages are validators without state; their effect is `AuthorityRevoked`.
* The garbage collection of blobs: no program of the repository calls it.
* Agent query jobs: the route answers 410 and the recovery loop is never started.
* The agent runtime: a stub that posts shadow proposals and keeps no state.
* `src/audit/repro`: test programs that force single interleavings of functions
  the models have with all of theirs.
* A second kernel process whose stale read is applied after the other's newer one:
  `LiveExecution` has it (two workers), and the outcome may be a fail-safe
  integrity halt; `NoIntegrityHalt` is stated for the two goroutines of one
  kernel, in `Reprice`.

## 6. Plan

Done: `ExecutionStore`, `LiveExecution` and their refinement, `Reprice`, `Pricing`,
`Breaker`, `Exposure`, `OpenOrder`, `Admission`, `BrokerConnection`,
`RuntimeContract` and `CortexRuntime` with their refinement, `CortexTools`,
`PaperEffects`, `DecisionTriggers`, `BlobStore`; proofs about all of these,
with the refinements of the store and of the contract.

Open:

1. `Lots`: FIFO closing, proportional cost and risk, the terminal sweep; the theorem
   to state is that cost, risk and quantity are conserved by every close.
