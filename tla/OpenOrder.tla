------------------------------ MODULE OpenOrder ------------------------------
(***************************************************************************)
(* One opening buy order from the client's request to its fills: the terms *)
(* the Kernel derives from the request and a quote (cmd/kernel/main.go),   *)
(* their reproduction when a person approves the order or a restart        *)
(* recovers it, the limit its attempt is staged with, and the reservation  *)
(* its fills consume (internal/store/exposure.go).                         *)
(*                                                                         *)
(* Which class the risk gate gives the order is Admission's subject: here  *)
(* it may give either.  Every handler fetches a quote of its own.          *)
(***************************************************************************)
EXTENDS Pricing

CONSTANTS
    Scale,        \* micro-units of one share or contract
    Multipliers,  \* [equity, option]: shares a unit stands for
    OpenRequests, \* the requests clients may send
    Quotes,       \* [bid, ask, usable, known]: usable is fresh and sane,
                  \* known says that the instrument was looked up as well
    Policies,     \* [fee, startAt] of the Kernel policy revisions
    FillPrices    \* prices at which the broker may fill an unpriced order

OrderTypes == {"limit", "market", "stop_market", "stop_limit"}

ASSUME OpenAssumption ==
    /\ Scale \in Nat \ {0}
    /\ Multipliers \in [{"equity", "option"} -> Nat \ {0}] /\ Multipliers["equity"] = 1
    /\ OpenRequests \subseteq
         [type : OrderTypes, kind : {"equity", "option"}, shadow : BOOLEAN, inst : Instruments,
          qty : Nat, lim : Nat, stop : Nat, budget : Nat]
    /\ Quotes \subseteq [bid : Nat, ask : Nat, usable : BOOLEAN, known : BOOLEAN]
    /\ \A q \in Quotes : q.usable => q.bid > 0 /\ q.ask > q.bid
    /\ Policies \subseteq [fee : Nat, startAt : {"mid", "ask"}]
    /\ FillPrices \subseteq Nat

VARIABLES
    openOrder,     \* the operation: the request and its derived terms
    boundPolicy,   \* the policy revision the operation is bound to
    activePolicy,  \* the policy revision in force
    stage,         \* where the order is on its way
    attemptLimit,  \* limit_micros of the attempt and of its order row
    remainingQty, remainingCash,   \* open_reservation
    entryCost,     \* cost of the lots its fills opened
    fillCount,
    refusedFill    \* price of a fill refused as an integrity failure

openVars == <<openOrder, boundPolicy, activePolicy, stage, attemptLimit, remainingQty,
              remainingCash, entryCost, fillCount, refusedFill>>

Omitted == 0   \* a price or an amount the client left out

Unpriced == {"market", "stop_market"}   \* the broker sees no limit price
Stops == {"stop_market", "stop_limit"}

CeilDiv(a, b) == (a + b - 1) \div b

\* units.MulQtyPrice, rounding up: against the account
MulQtyPrice(qty, price, multiplier) == CeilDiv(qty * price * multiplier, Scale)

Whole(qty) == qty % Scale = 0

\* validateAndBuildOperation for an open
ValidOpen(r) ==
    /\ r.qty > 0
    /\ r.kind = "option" => Whole(r.qty) /\ r.type = "limit"
    /\ r.type # "limit" => Whole(r.qty)
    /\ (r.stop # Omitted) = (r.type \in Stops)
    /\ r.type \in Unpriced => r.lim = Omitted /\ r.budget > 0
    /\ r.type = "stop_limit" => r.lim # Omitted /\ r.lim >= r.stop

NewOperation(r) ==
    [type |-> r.type, kind |-> r.kind, shadow |-> r.shadow, inst |-> r.inst, qty |-> r.qty,
     lim |-> r.lim, stop |-> r.stop, budget |-> r.budget,
     cap |-> 0, working |-> 0, cash |-> 0, reject |-> FALSE]

\* priceBoundedOpen
PriceBounded(op) == op.type \notin Unpriced /\ ~op.shadow /\ op.lim # Omitted

\* the order must stand on the instrument's ticks; a paper equity order need not
Precise(op) == ~op.shadow \/ op.kind = "option"

OnTick(op, p) == IF Precise(op) THEN FloorPrice(op.inst, p) ELSE p

-----------------------------------------------------------------------------
(* deriveOpenOperationWithLimits                                           *)

\* What turns an order away before it is priced.  A stop that the market has
\* passed is refused to a new order only: cap = 0 says that it is new.
Refusable(op, q) ==
    \/ ~q.usable /\ ~PriceBounded(op)
    \/ Precise(op) /\ ~q.known
    \/ /\ op.stop # Omitted
       /\ \/ op.shadow
          \/ q.usable /\ op.stop <= q.ask /\ op.cap = 0
          \/ OnTick(op, op.stop) # op.stop

\* An order without a limit price: the declared budget is the authorization,
\* and the cap is the price per share that it leaves after fees.
UnpricedTerms(op, q, policy) ==
    LET fees == MulQtyPrice(op.qty, policy.fee, 1)
        cap == (op.budget - fees) \div (op.qty \div Scale)
        refused == \/ op.budget <= fees \/ cap <= 0
                   \/ op.type = "stop_market" /\ cap < op.stop
                   \/ MulQtyPrice(op.qty, q.ask, 1) + fees > op.budget
    IN  IF refused THEN [op EXCEPT !.reject = TRUE]
        ELSE [op EXCEPT !.cap = cap, !.working = q.ask, !.cash = op.budget]

Mid(q) == q.bid + (q.ask - q.bid) \div 2

\* An order with a limit price, its own or the ask; it starts at the policy's
\* price, at the cap when it waits for a trigger or no quote is usable.
PricedTerms(op, q, policy) ==
    LET authorized == IF op.lim # Omitted THEN op.lim ELSE q.ask
        start == IF op.type = "stop_limit" \/ ~q.usable THEN authorized
                 ELSE IF policy.startAt = "mid" THEN Mid(q) ELSE q.ask
        cap == OnTick(op, authorized)
        working == OnTick(op, Lesser(start, authorized))
        cash == MulQtyPrice(op.qty, cap, Multipliers[op.kind]) + MulQtyPrice(op.qty, policy.fee, 1)
    IN  IF cap = Error \/ working = Error \/ cash <= 0 THEN [op EXCEPT !.reject = TRUE]
        ELSE [op EXCEPT !.cap = cap, !.working = Lesser(working, cap), !.cash = cash]

Derive(op, q, policy) ==
    IF Refusable(op, q) THEN [op EXCEPT !.reject = TRUE]
    ELSE IF op.type \in Unpriced THEN UnpricedTerms(op, q, policy) ELSE PricedTerms(op, q, policy)

\* the terms of a persisted order, derived again with its cap as the limit
Again(q, policy) == Derive([openOrder EXCEPT !.lim = openOrder.cap], q, policy)

SameTerms(op) == op.cap = openOrder.cap /\ op.cash = openOrder.cash

\* risk.ClassifyAt: unless the order's own limit bounds it, a usable quote
\* is needed; the rest of the risk gate is left open
Classified(op, q) == ~op.reject /\ (q.usable \/ PriceBounded(op))

-----------------------------------------------------------------------------
(* From the request to the attempt                                         *)

OpenInit ==
    /\ openOrder \in {NewOperation(r) : r \in OpenRequests}
    /\ activePolicy \in Policies /\ boundPolicy = activePolicy
    /\ stage = "asked" /\ attemptLimit = 0
    /\ remainingQty = 0 /\ remainingCash = 0
    /\ entryCost = 0 /\ fillCount = 0 /\ refusedFill = 0

\* executionLimit and the paper limit of propose: an order without a limit
\* price is bounded by its cap
ExecutionLimit(op, q) ==
    IF op.shadow THEN Lesser(q.ask, op.cap)
    ELSE IF op.type \in Unpriced THEN op.cap ELSE op.working

\* the attempt, its order row and its reservation, staged in one transaction
Staged(price, cash) ==
    /\ stage' = "pending" /\ attemptLimit' = price
    /\ remainingQty' = openOrder.qty /\ remainingCash' = cash
    /\ UNCHANGED <<entryCost, fillCount, refusedFill>>

NotStaged == UNCHANGED <<attemptLimit, remainingQty, remainingCash, entryCost, fillCount, refusedFill>>

\* propose: the operation is persisted with its terms and bound to the policy
\* in force; class B is staged at once, class C waits for a person.
ProposeOpen(q) ==
    LET op == Derive(openOrder, q, activePolicy)
    IN  /\ stage = "asked" /\ ValidOpen(openOrder)
        /\ openOrder' = op /\ boundPolicy' = activePolicy
        /\ \/ ~Classified(op, q) /\ stage' = "rejected" /\ NotStaged
           \/ Classified(op, q) /\ Staged(ExecutionLimit(op, q), op.cash)
           \/ Classified(op, q) /\ stage' = "pending_review" /\ NotStaged
        /\ UNCHANGED activePolicy

\* Mutant of Prepared: the cap approved before is not held as the limit.
PreparedAtMarket(q) == Derive(openOrder, q, boundPolicy)

\* prepareApprovedOpenWithLimits up to its comparison
Prepared(q) ==
    LET op == Again(q, boundPolicy)
    IN  IF op.reject \/ ~openOrder.shadow THEN op
        ELSE [op EXCEPT !.working = Lesser(q.ask, openOrder.cap)]

\* approval_snapshot_mismatch
Mismatch(q) == ~Prepared(q).reject /\ ~(openOrder.cap > 0 /\ SameTerms(Prepared(q)))

\* review with the verdict "approved", and stageApprovedOpen; a refusal rolls
\* back and leaves the order to be reviewed again
ReviewOpen(q) ==
    LET op == [Prepared(q) EXCEPT !.lim = openOrder.lim]
    IN  /\ stage = "pending_review"
        /\ ~Mismatch(q) /\ Classified(op, q)
        /\ op.working > 0 /\ op.working <= op.cap
        /\ Staged(op.working, op.cash)
        /\ UNCHANGED <<openOrder, boundPolicy, activePolicy>>

\* review with the verdict "rejected", or after the proposal expired
RejectOpen ==
    /\ stage = "pending_review" /\ stage' = "rejected"
    /\ NotStaged /\ UNCHANGED <<openOrder, boundPolicy, activePolicy>>

Fails == stage' = "failed" /\ NotStaged /\ UNCHANGED <<openOrder, boundPolicy, activePolicy>>

\* recovery changed immutable execution facts: never so under the bound
\* policy, never for more under the one in force
FactsChanged(q) ==
    LET now == Again(q, activePolicy)
    IN  ~SameTerms(Again(q, boundPolicy)) \/ now.cap > openOrder.cap \/ now.cash > openOrder.cash

\* reconcilePendingAttempt of an attempt whose process stopped before sending
\* it: the limit may only fall (UpdatePendingAttemptLimit)
RecoverPending(q) ==
    LET then == Again(q, boundPolicy)  now == Again(q, activePolicy)
        working == Lesser(then.working, now.working)
    IN  /\ stage = "pending"
        /\ IF FactsChanged(q) \/ ~Classified(then, q) \/ ~Classified(now, q) THEN Fails
           ELSE /\ attemptLimit' = IF openOrder.shadow THEN attemptLimit ELSE Lesser(attemptLimit, working)
                /\ UNCHANGED <<openOrder, boundPolicy, activePolicy, stage, remainingQty, remainingCash,
                               entryCost, fillCount, refusedFill>>

PolicyChanges ==
    /\ activePolicy' \in Policies
    /\ UNCHANGED <<openOrder, boundPolicy, stage>> /\ NotStaged

-----------------------------------------------------------------------------
(* From the attempt to the fills                                           *)

\* persistedPlaceRequest, canonicalProviderIntent: the prices the broker sees
ProviderIntent ==
    [limit |-> IF openOrder.type \in Unpriced THEN Omitted ELSE attemptLimit,
     stop |-> IF openOrder.type \in Stops THEN openOrder.stop ELSE Omitted]

IntentComplete ==
    /\ openOrder.type \notin Unpriced => ProviderIntent.limit > 0
    /\ openOrder.type \in Stops => ProviderIntent.stop > 0

\* the order goes to the broker, or one of the barriers before it says no
SendOpen ==
    /\ stage = "pending" /\ ~openOrder.shadow
    /\ \/ IntentComplete /\ stage' = "working" /\ NotStaged /\ UNCHANGED <<openOrder, boundPolicy, activePolicy>>
       \/ Fails

\* Mutant of Proportional: rounded down.
ProportionalDown(original, part, total) == (original * part) \div total

\* proportionalInt64, rounding up
Proportional(original, part, total) == CeilDiv(original * part, total)

\* applyOpenExposureFill of a fill within the limit: a lot at its cost, and the
\* reservation of the rest
Books(n, p, fee) ==
    /\ remainingQty' = remainingQty - n
    /\ remainingCash' = Proportional(openOrder.cash, remainingQty - n, openOrder.qty)
    /\ entryCost' = entryCost + MulQtyPrice(n, p, Multipliers[openOrder.kind]) + fee
    /\ fillCount' = fillCount + 1
    /\ stage' = IF remainingQty = n THEN "done" ELSE "working"
    /\ UNCHANGED <<openOrder, boundPolicy, activePolicy, attemptLimit, refusedFill>>

\* A fill above the order row's limit is an integrity failure: global halt.
FillRefused(p) ==
    /\ refusedFill' = p /\ stage' = "halted"
    /\ UNCHANGED <<openOrder, boundPolicy, activePolicy, attemptLimit, remainingQty, remainingCash,
                   entryCost, fillCount>>

ApplyOpenFill(n, p, fee) == IF p > attemptLimit THEN FillRefused(p) ELSE Books(n, p, fee)

\* The broker keeps to a limit price it was given, and charges no more than
\* the fee the policy expects.
OpenFill(n, p) ==
    /\ stage = "working" /\ n <= remainingQty
    /\ ProviderIntent.limit # Omitted => p <= ProviderIntent.limit
    /\ \E fee \in {0, MulQtyPrice(n, boundPolicy.fee, 1)} : ApplyOpenFill(n, p, fee)

\* cancelled, expired or rejected with a rest unfilled
OpenEnds ==
    /\ stage = "working" /\ stage' = "done"
    /\ NotStaged /\ UNCHANGED <<openOrder, boundPolicy, activePolicy>>

\* executeClaimedPaperAttempt: filled whole at the ask, or failed
PaperExecutes(q) ==
    /\ stage = "pending" /\ openOrder.shadow
    /\ IF q.usable /\ q.ask <= attemptLimit THEN Books(openOrder.qty, q.ask, 0) ELSE Fails

OpenNext ==
    \/ \E q \in Quotes : ProposeOpen(q) \/ ReviewOpen(q) \/ RecoverPending(q) \/ PaperExecutes(q)
    \/ RejectOpen \/ PolicyChanges \/ SendOpen \/ OpenEnds
    \/ \E n \in 1..remainingQty, p \in FillPrices : OpenFill(n, p)

OpenSpec == OpenInit /\ [][OpenNext]_openVars

-----------------------------------------------------------------------------
(* Properties                                                              *)

\* Whatever the order type, the class, the recoveries and the partial fills,
\* the cash an order holds pays for what may still fill, at the approved cap
\* and with fees; and what its lots cost and what it still holds are together
\* what was authorized, but for roundings up (two in a fill, one in the rest).
CashCovers ==
    stage \in {"pending", "working"} =>
        /\ remainingCash * Scale >= remainingQty * (openOrder.cap * Multipliers[openOrder.kind] + boundPolicy.fee)
        /\ entryCost + remainingCash <= openOrder.cash + 2 * fillCount + 1

\* A person can approve the order that was put before them: under any quote
\* the review derives the very cap and cash of the proposal or refuses the
\* market, and so does a recovery under the bound policy
\* (approval_snapshot_mismatch, "recovery changed immutable execution facts").
ReviewReproduces ==
    /\ stage = "pending_review" => \A q \in Quotes : ~Mismatch(q)
    /\ stage = "pending" => \A q \in Quotes : SameTerms(Again(q, boundPolicy))

\* An approved order is paid for and stays the order that was approved.
OpenSafe == CashCovers /\ ReviewReproduces

\* The approved cap is what a fill is measured against: a fill is refused, and
\* the account halted, only for a price above it ("The explicit client
\* declaration remains the durable cash/risk authorization").
CapIsAuthoritative == refusedFill # 0 => refusedFill > openOrder.cap
=============================================================================
