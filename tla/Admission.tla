----------------------------- MODULE Admission -----------------------------
(***************************************************************************)
(* Admission of live opens: proposals, human reviews, the live canary      *)
(* authority with its day attestations, and Kernel policy revisions, as    *)
(* concurrent PostgreSQL transactions that take transaction-scoped locks   *)
(* one at a time.                                                          *)
(*   kernel/cmd/kernel/main.go    propose, review, stageApprovedOpen       *)
(*   kernel/cmd/kernel/canary.go  liveCanaryRefusal                        *)
(*   kernel/internal/risk/risk.go Classify                                 *)
(*   kernel/internal/store/{store,live_canary,live_canary_attestation,     *)
(*      kernel_policy,broker_reconciliation}.go                            *)
(* An operation is named by its idempotency key.  Derived risk and required*)
(* cash of an open are the same amount (single-leg long-only model).       *)
(***************************************************************************)
EXTENDS Naturals, FiniteSets, Sequences, FiniteSetsExt

CONSTANTS
  Keys,           \* idempotency keys
  Requests,       \* client intents: [key, risk, unit]; unit: one quantity increment
  Transactions,   \* database connections in use
  TransactionKinds, \* the kinds of transaction an instance starts
  Policies,       \* Kernel policies: [perTrade, perDay, lax]
  InitialPolicy,
  Authorities,    \* canary authorities: [cap, clean]
  InitialAuthority,
  BuyingPower,    \* what the venue permits at the start
  LastDay,
  Quotes,         \* ages of the quotes fetched before a transaction
  GovernanceBound \* bound on revisions, halts and divergences

ASSUME AdmissionConstants ==
  /\ IsFiniteSet(Keys)
  /\ Requests \subseteq [key : Keys, risk : Nat \ {0}, unit : BOOLEAN]
  /\ Policies \subseteq [perTrade : Nat, perDay : Nat, lax : BOOLEAN]
  /\ Authorities \subseteq [cap : Nat \ {0}, clean : Nat \ {0}]
  /\ InitialPolicy \in Policies /\ InitialAuthority \in Authorities
  /\ Quotes \subseteq {"fresh", "aging", "none"}
  /\ {BuyingPower, LastDay, GovernanceBound} \subseteq Nat

MarketDays == 1..LastDay

VARIABLES
  operation,    \* operations, with their trade grant and their attempt
  buyingPower,  \* at the provider
  canary,       \* live_canary_revision, oldest first
  attested,     \* live_canary_day_attestation: [day, revision, risk]
  diverged,     \* market days with a pnl_divergence event
  dayOpen,      \* market days with a day_open row
  policies,     \* kernel_policy_revision, oldest first; the last is the head
  haltActive, marketDay,
  tx,           \* transactions in progress
  held          \* locks: [tx, lock, mode]

admissionVars == <<operation, buyingPower, canary, attested, diverged, dayOpen,
                   policies, haltActive, marketDay, tx, held>>
books == <<operation, buyingPower, canary, attested, diverged, dayOpen,
           policies, haltActive, marketDay>>

NoOperation == [status |-> "absent", request |-> [key |-> "none", risk |-> 0, unit |-> FALSE],
                policy |-> 0, fresh |-> TRUE, grantDay |-> 0, revision |-> 0, attempt |-> "none"]
Quiet == [kind |-> "none", pc |-> "idle"]

AdmissionInit ==
  /\ operation = [k \in Keys |-> NoOperation]
  /\ buyingPower = BuyingPower
  /\ canary = <<[authority |-> InitialAuthority, day |-> 1, change |-> "initial"]>>
  /\ attested = {} /\ diverged = {} /\ dayOpen = {}
  /\ policies = <<InitialPolicy>>
  /\ haltActive = FALSE
  /\ marketDay = 1
  /\ tx = [t \in Transactions |-> Quiet]
  /\ held = {}

---------------------------------------------------------------------------
(* Locks: advisory transaction locks and the FOR UPDATE rows *)

LockName(t) == IF tx[t].pc \in {"key", "row"} THEN <<tx[t].pc, tx[t].key>> ELSE <<tx[t].pc, "one">>
\* A review row locked in share mode would let two reviewers decide.
LockModeRowShared(t) ==
  IF tx[t].pc = "row" \/ (tx[t].pc = "policy" /\ tx[t].kind # "policy") THEN "S" ELSE "X"
LockMode(t) == IF tx[t].pc = "policy" /\ tx[t].kind # "policy" THEN "S" ELSE "X"
Locking == {"key", "row", "policy", "ledger", "halt", "gate"}

BlocksButPolicy(u, t) ==
  /\ u # t /\ tx[t].pc \in Locking \ {"policy"}
  /\ \E h \in held : h.tx = u /\ h.lock = LockName(t) /\ "X" \in {h.mode, LockMode(t)}

\* u holds the lock t is about to take, in a conflicting mode.
Blocks(u, t) ==
  /\ u # t /\ tx[t].pc \in Locking
  /\ \E h \in held : h.tx = u /\ h.lock = LockName(t) /\ "X" \in {h.mode, LockMode(t)}

Unlocked(name) == \A h \in held : h.lock # <<name, "one">>

\* What a transaction of each kind does once it holds a lock.
AfterLock(t) ==
  CASE tx[t].kind = "propose" ->
         [key |-> "policy", policy |-> "ledger", ledger |-> "account",
          halt |-> "gate", gate |-> "commit"][tx[t].pc]
    [] tx[t].kind = "approve" ->
         [row |-> "policy", policy |-> "expiry", ledger |-> "account",
          halt |-> "gate", gate |-> "commit"][tx[t].pc]
    [] tx[t].kind = "reject" -> "commit"
    [] tx[t].kind \in {"revise", "attest"} ->
         [ledger |-> "decide", policy |-> "gate", gate |-> "commit"][tx[t].pc]
    [] tx[t].kind = "policy" -> "commit"
    [] tx[t].kind = "reconcile" -> [gate |-> "idle?", ledger |-> "commit"][tx[t].pc]

GovernanceLeft ==
  Len(canary) + Len(policies) + Cardinality(diverged) + (IF haltActive THEN 1 ELSE 0)
    < GovernanceBound + 2

To(t, pc) == tx' = [tx EXCEPT ![t].pc = pc]

\* The end of a transaction, committed or rolled back, frees its locks.
Ends(t) ==
  /\ tx' = [tx EXCEPT ![t] = Quiet]
  /\ held' = {h \in held : h.tx # t}

\* A lock is granted once nobody holds it in a conflicting mode.  The review
\* row is found only while the operation is pending.
Acquire(t) ==
  /\ tx[t].pc \in Locking
  /\ \A u \in Transactions : ~Blocks(u, t)
  /\ IF tx[t].pc = "row" /\ operation[tx[t].key].status # "pending_review"
     THEN Ends(t)
     ELSE /\ held' = held \union {[tx |-> t, lock |-> LockName(t), mode |-> LockMode(t)]}
          /\ To(t, AfterLock(t))
  /\ UNCHANGED books

\* The store deadline, PostgreSQL's deadlock detector, an unavailable
\* provider or a crash: nothing of the transaction remains.
Rollback(t) ==
  /\ tx[t].pc # "idle"
  /\ Ends(t)
  /\ UNCHANGED books

---------------------------------------------------------------------------
(* The risk gate *)

Granted(o) == o.grantDay # 0
HoldsUntilFilled(o) == o.attempt \in {"pending", "active", "working"}
Holds(o) == o.attempt \in {"pending", "active", "working", "filled"}
RiskOf(keys) == MapThenSumSet(LAMBDA k : operation[k].request.risk, keys)

HeldCash == RiskOf({k \in Keys : Holds(operation[k])})
TradesForDay(day) == Cardinality({k \in Keys : operation[k].grantDay = day})
GrantUsage(day) == RiskOf({k \in Keys : operation[k].grantDay = day})

Usable(quote, policy) == quote = "fresh" \/ (quote = "aging" /\ policy.lax)

\* risk.Classify for an open: absolutes reject, a failed check needs review.
Classify(request, policy, day, t) ==
  IF \/ tx[t].halted
     \/ ~Usable(tx[t].quote, policy)
     \/ HeldCash > tx[t].buyingPower
     \/ request.risk > tx[t].buyingPower - HeldCash
  THEN "REJECT"
  ELSE IF request.risk <= policy.perTrade /\ TradesForDay(day) < policy.perDay
       THEN "B" ELSE "C"

ActiveCanary == canary[Len(canary)]
ActivePolicy == policies[Len(policies)]

CanaryRefusesIgnoringUsage(request, day) ==
  request.risk > ActiveCanary.authority.cap

\* liveCanaryRefusal: the first grant of a day is one quantity increment, and
\* the day's grants, spent or not, stay within the active cap.
CanaryRefuses(request, day) ==
  \/ TradesForDay(day) = 0 /\ ~request.unit
  \/ request.risk > ActiveCanary.authority.cap
  \/ GrantUsage(day) > ActiveCanary.authority.cap - request.risk

GateIdle == \A k \in Keys : operation[k].attempt # "active"

Entitle(o, status) ==
  [o EXCEPT !.status = status, !.grantDay = marketDay, !.revision = Len(canary),
            !.attempt = "pending"]

---------------------------------------------------------------------------
(* POST /operations: propose *)

\* Quote and halt snapshot are read before any lock.
BeginPropose(t, request, quote) ==
  /\ tx[t] = Quiet
  /\ tx' = [tx EXCEPT ![t] = [kind |-> "propose", pc |-> "key", key |-> request.key,
             request |-> request, quote |-> quote, halted |-> haltActive,
             buyingPower |-> 0, window |-> 0, policy |-> 0]]
  /\ UNCHANGED <<books, held>>

\* Under the ledger lock: an operation already stored under the key ends the
\* proposal (replay, or a reused key); else the account, the policy and the
\* market day are read.  The day's opening equity is recorded.
ReadAccount(t) ==
  /\ tx[t].pc = "account"
  /\ IF tx[t].kind = "propose" /\ operation[tx[t].key].status # "absent"
     THEN Ends(t)
     ELSE /\ tx' = [tx EXCEPT ![t].pc = "decide", ![t].buyingPower = buyingPower,
                              ![t].window = marketDay,
                              ![t].policy = IF tx[t].kind = "propose" THEN Len(policies) ELSE @]
          /\ UNCHANGED held
  /\ UNCHANGED books

Proposed(t, status) ==
  [NoOperation EXCEPT !.status = status, !.request = tx[t].request, !.policy = tx[t].policy]

\* Classification, canary and the first half of the persistence: a refused or
\* reviewable proposal commits here, an admitted one goes on to the gate.
DecidePropose(t) ==
  LET request == tx[t].request
      class   == Classify(request, policies[tx[t].policy], tx[t].window, t)
      refused == class = "REJECT" \/ (class = "B" /\ CanaryRefuses(request, tx[t].window))
  IN /\ tx[t].kind = "propose" /\ tx[t].pc = "decide"
     /\ IF marketDay # tx[t].window THEN Ends(t) /\ UNCHANGED <<operation, dayOpen>>
        ELSE IF class = "B" /\ ~refused THEN To(t, "halt") /\ UNCHANGED <<held, operation, dayOpen>>
        ELSE /\ operation' = [operation EXCEPT ![tx[t].key] =
                                Proposed(t, IF refused THEN "rejected" ELSE "pending_review")]
             /\ dayOpen' = dayOpen \union {tx[t].window}
             /\ Ends(t)
     /\ UNCHANGED <<buyingPower, canary, attested, diverged, policies, haltActive, marketDay>>

\* RequireLiveExecutionIdle, the entitlement rows and the final day check.
CommitPropose(t) ==
  /\ tx[t].kind = "propose" /\ tx[t].pc = "commit"
  /\ IF ~GateIdle \/ haltActive \/ marketDay # tx[t].window
     THEN UNCHANGED <<operation, dayOpen>>
     ELSE /\ operation' = [operation EXCEPT ![tx[t].key] =
                             Entitle(Proposed(t, "auto_approved"), "auto_approved")]
          /\ dayOpen' = dayOpen \union {tx[t].window}
  /\ Ends(t)
  /\ UNCHANGED <<buyingPower, canary, attested, diverged, policies, haltActive, marketDay>>

---------------------------------------------------------------------------
(* POST /operations/{id}/review *)

BeginReview(t, k, verdict, quote) ==
  /\ tx[t] = Quiet
  /\ operation[k].status = "pending_review"
  /\ tx' = [tx EXCEPT ![t] = [kind |-> verdict, pc |-> "row", key |-> k,
             request |-> operation[k].request, quote |-> quote, halted |-> haltActive,
             buyingPower |-> 0, window |-> 0, policy |-> operation[k].policy]]
  /\ UNCHANGED <<books, held>>

CommitReject(t) ==
  /\ tx[t].kind = "reject" /\ tx[t].pc = "commit"
  /\ operation' = [operation EXCEPT ![tx[t].key].status = "rejected"]
  /\ Ends(t)
  /\ UNCHANGED <<buyingPower, canary, attested, diverged, dayOpen, policies, haltActive, marketDay>>

\* A proposal past its expiry is closed as expired before any account read.
CheckExpiry(t) ==
  /\ tx[t].kind = "approve" /\ tx[t].pc = "expiry"
  /\ IF operation[tx[t].key].fresh
     THEN To(t, "ledger") /\ UNCHANGED <<held, operation>>
     ELSE Ends(t) /\ operation' = [operation EXCEPT ![tx[t].key].status = "expired"]
  /\ UNCHANGED <<buyingPower, canary, attested, diverged, dayOpen, policies, haltActive, marketDay>>

\* Neither the policy that classified the operation nor the active one may
\* reject it now; a canary refusal leaves it pending.
DecideApprove(t) ==
  LET verdicts == {Classify(tx[t].request, p, tx[t].window, t) :
                     p \in {policies[tx[t].policy], ActivePolicy}}
  IN /\ tx[t].kind = "approve" /\ tx[t].pc = "decide"
     /\ IF "REJECT" \in verdicts THEN Ends(t) /\ UNCHANGED dayOpen
        ELSE IF CanaryRefuses(tx[t].request, tx[t].window)
        THEN Ends(t) /\ dayOpen' = dayOpen \union {tx[t].window}
        ELSE To(t, "halt") /\ UNCHANGED <<held, dayOpen>>
     /\ UNCHANGED <<operation, buyingPower, canary, attested, diverged, policies,
                    haltActive, marketDay>>

CommitApprove(t) ==
  /\ tx[t].kind = "approve" /\ tx[t].pc = "commit"
  /\ IF ~GateIdle \/ haltActive \/ marketDay # tx[t].window
     THEN UNCHANGED <<operation, dayOpen>>
     ELSE /\ operation' = [operation EXCEPT ![tx[t].key] = Entitle(@, "approved")]
          /\ dayOpen' = dayOpen \union {tx[t].window}
  /\ Ends(t)
  /\ UNCHANGED <<buyingPower, canary, attested, diverged, policies, haltActive, marketDay>>

---------------------------------------------------------------------------
(* What happens to an entitlement, as far as admission sees it *)

\* The dispatcher claims the gate, the placement resolves under ledger and
\* gate, the broker fills a working order, the fill is booked.
MovesAttempt(k, from, to) ==
  /\ operation[k].attempt = from
  /\ operation' = [operation EXCEPT ![k].attempt = to]
  /\ UNCHANGED <<canary, attested, diverged, dayOpen, policies, haltActive, marketDay, tx, held>>

ClaimAttempt(k) ==
  /\ GateIdle /\ Unlocked("gate")
  /\ MovesAttempt(k, "pending", "active")
  /\ UNCHANGED buyingPower

ResolveAttempt(k) ==
  /\ Unlocked("ledger") /\ Unlocked("gate")
  /\ \E to \in {"working", "failed"} : MovesAttempt(k, "active", to)
  /\ UNCHANGED buyingPower

BrokerFills(k) ==
  /\ MovesAttempt(k, "working", "filled")
  /\ buyingPower' = IF operation[k].request.risk <= buyingPower
                    THEN buyingPower - operation[k].request.risk ELSE 0

BookOrder(k) ==
  /\ Unlocked("ledger")
  /\ MovesAttempt(k, "filled", "settled") \/ MovesAttempt(k, "working", "settled")
  /\ UNCHANGED buyingPower

---------------------------------------------------------------------------
(* Live canary authority *)

BeginRevision(t, authority, override) ==
  /\ tx[t] = Quiet
  /\ GovernanceLeft
  /\ tx' = [tx EXCEPT ![t] = [kind |-> "revise", pc |-> "ledger", authority |-> authority,
                              override |-> override, expected |-> Len(canary)]]
  /\ UNCHANGED <<books, held>>

\* classifyLiveCanaryChange: a larger cap or fewer clean days widens.
Widens(old, new) == new.cap > old.cap \/ new.clean < old.clean

\* A grant day is clean evidence for a revision: every grant of the day is
\* bound to it and has settled, and there is at least one.
CleanDayAnyOutcome(day, revision) ==
  /\ \E k \in Keys : operation[k].grantDay = day
  /\ \A k \in Keys : operation[k].grantDay = day =>
       operation[k].revision = revision /\ operation[k].attempt # "active"

CleanDay(day, revision) ==
  /\ \E k \in Keys : operation[k].grantDay = day
  /\ \A k \in Keys : operation[k].grantDay = day =>
       operation[k].revision = revision /\ operation[k].attempt = "settled"

\* eligibleLiveCanaryWideningEvidence: the newest attestations under the
\* active revision, as many as the stricter of both settings asks, cover
\* every opened day since the oldest of them and still match the books.
Eligible(authority) ==
  LET revision == Len(canary)
      required == Max({ActiveCanary.authority.clean, authority.clean})
      mine     == {a \in attested : a.revision = revision /\ a.day >= ActiveCanary.day
                                    /\ a.day < marketDay}
  IN \E evidence \in SUBSET mine :
       /\ Cardinality(evidence) = required
       /\ \A a \in mine \ evidence, b \in evidence : a.day < b.day
       /\ LET since == {d \in MarketDays : d < marketDay /\ \E a \in evidence : a.day <= d}
          IN /\ \A d \in since \intersect dayOpen : \E a \in mine : a.day = d
             /\ since \intersect diverged = {}
       /\ \A a \in evidence : CleanDay(a.day, revision) /\ GrantUsage(a.day) = a.risk

Revised(authority, change) ==
  canary' = Append(canary, [authority |-> authority, day |-> marketDay, change |-> change])

\* Unchanged settings and a stale expected revision change nothing; a
\* tightening and an owner's override take effect at once; any other widening
\* goes on to take the policy and the gate for its evidence.
DecideRevision(t) ==
  LET old == ActiveCanary.authority
      new == tx[t].authority
      moot == old = new \/ tx[t].expected # Len(canary)
      widen == Widens(old, new)
  IN /\ tx[t].kind = "revise" /\ tx[t].pc = "decide"
     /\ \/ /\ moot \/ (tx[t].override /\ ~widen)
           /\ Ends(t) /\ UNCHANGED canary
        \/ /\ ~moot /\ tx[t].override = widen
           /\ Ends(t) /\ Revised(new, IF widen THEN "override" ELSE "tighten")
        \/ /\ ~moot /\ widen /\ ~tx[t].override
           /\ To(t, "policy") /\ UNCHANGED <<held, canary>>
     /\ UNCHANGED <<operation, buyingPower, attested, diverged, dayOpen, policies,
                    haltActive, marketDay>>

CommitRevision(t) ==
  /\ tx[t].kind = "revise" /\ tx[t].pc = "commit"
  /\ IF GateIdle /\ Eligible(tx[t].authority) THEN Revised(tx[t].authority, "widen")
                                              ELSE UNCHANGED canary
  /\ Ends(t)
  /\ UNCHANGED <<operation, buyingPower, attested, diverged, dayOpen, policies,
                 haltActive, marketDay>>

BeginAttestation(t, day) ==
  /\ tx[t] = Quiet
  /\ tx' = [tx EXCEPT ![t] = [kind |-> "attest", pc |-> "ledger", day |-> day,
                              expected |-> Len(canary)]]
  /\ UNCHANGED <<books, held>>

\* Only a completed day, once, under the revision the caller expects.
DecideAttestation(t) ==
  /\ tx[t].kind = "attest" /\ tx[t].pc = "decide"
  /\ IF /\ tx[t].day < marketDay /\ tx[t].expected = Len(canary)
        /\ \A a \in attested : a.day # tx[t].day
     THEN To(t, "policy") /\ UNCHANGED held
     ELSE Ends(t)
  /\ UNCHANGED books

CommitAttestation(t) ==
  LET day == tx[t].day
  IN /\ tx[t].kind = "attest" /\ tx[t].pc = "commit"
     /\ attested' = IF GateIdle /\ day \in dayOpen /\ day \notin diverged
                       /\ CleanDay(day, Len(canary))
                    THEN attested \union {[day |-> day, revision |-> Len(canary),
                                           risk |-> GrantUsage(day)]}
                    ELSE attested
     /\ Ends(t)
     /\ UNCHANGED <<operation, buyingPower, canary, diverged, dayOpen, policies,
                    haltActive, marketDay>>

---------------------------------------------------------------------------
(* Kernel policy revisions and the broker reconciliation's locks *)

BeginPolicy(t, policy) ==
  /\ tx[t] = Quiet
  /\ GovernanceLeft
  /\ tx' = [tx EXCEPT ![t] = [kind |-> "policy", pc |-> "policy", value |-> policy,
                              expected |-> Len(policies)]]
  /\ UNCHANGED <<books, held>>

CommitPolicy(t) ==
  /\ tx[t].kind = "policy" /\ tx[t].pc = "commit"
  /\ policies' = IF tx[t].value # ActivePolicy /\ tx[t].expected = Len(policies)
                 THEN Append(policies, tx[t].value) ELSE policies
  /\ Ends(t)
  /\ UNCHANGED <<operation, buyingPower, canary, attested, diverged, dayOpen,
                 haltActive, marketDay>>

\* ReconcileBrokerObservation locks the gate row, defers while an attempt is
\* active, then takes the ledger; its writes are Exposure's.
BeginReconcile(t) ==
  /\ tx[t] = Quiet
  /\ tx' = [tx EXCEPT ![t] = [kind |-> "reconcile", pc |-> "gate"]]
  /\ UNCHANGED <<books, held>>

StepReconcile(t) ==
  /\ tx[t].kind = "reconcile" /\ tx[t].pc \in {"idle?", "commit"}
  /\ IF tx[t].pc = "idle?" /\ GateIdle THEN To(t, "ledger") /\ UNCHANGED held ELSE Ends(t)
  /\ UNCHANGED books

---------------------------------------------------------------------------
(* Clocks and operators *)

NextMarketDay ==
  /\ marketDay < LastDay
  /\ marketDay' = marketDay + 1
  /\ UNCHANGED <<operation, buyingPower, canary, attested, diverged, dayOpen,
                 policies, haltActive, tx, held>>

ProposalExpires(k) ==
  /\ operation[k].status = "pending_review" /\ operation[k].fresh
  /\ operation' = [operation EXCEPT ![k].fresh = FALSE]
  /\ UNCHANGED <<buyingPower, canary, attested, diverged, dayOpen, policies,
                 haltActive, marketDay, tx, held>>

PnLDiverges ==
  /\ Unlocked("ledger") /\ GovernanceLeft
  /\ diverged' = diverged \union {marketDay}
  /\ diverged' # diverged
  /\ UNCHANGED <<operation, buyingPower, canary, attested, dayOpen, policies,
                 haltActive, marketDay, tx, held>>

ActivateHalt ==
  /\ ~haltActive /\ GovernanceLeft /\ Unlocked("halt") /\ Unlocked("gate")
  /\ haltActive' = TRUE
  /\ UNCHANGED <<operation, buyingPower, canary, attested, diverged, dayOpen,
                 policies, marketDay, tx, held>>

---------------------------------------------------------------------------
Begin(t) ==
  \/ "propose" \in TransactionKinds /\
       \E r \in Requests, q \in Quotes : BeginPropose(t, r, q)
  \/ \E k \in Keys, v \in {"approve", "reject"} \intersect TransactionKinds,
        q \in Quotes : BeginReview(t, k, v, q)
  \/ "revise" \in TransactionKinds /\
       \E a \in Authorities, o \in BOOLEAN : BeginRevision(t, a, o)
  \/ "attest" \in TransactionKinds /\ \E d \in MarketDays : BeginAttestation(t, d)
  \/ "policy" \in TransactionKinds /\ \E p \in Policies : BeginPolicy(t, p)
  \/ "reconcile" \in TransactionKinds /\ BeginReconcile(t)

Proceed(t) ==
  \/ Acquire(t)
  \/ ReadAccount(t)
  \/ DecidePropose(t) \/ CommitPropose(t)
  \/ CommitReject(t) \/ CheckExpiry(t) \/ DecideApprove(t) \/ CommitApprove(t)
  \/ DecideRevision(t) \/ CommitRevision(t)
  \/ DecideAttestation(t) \/ CommitAttestation(t)
  \/ CommitPolicy(t) \/ StepReconcile(t)

AdmissionNext ==
  \/ \E t \in Transactions : Begin(t) \/ Proceed(t) \/ Rollback(t)
  \/ \E k \in Keys : \/ ClaimAttempt(k) \/ ResolveAttempt(k) \/ BrokerFills(k) \/ BookOrder(k)
                     \/ ProposalExpires(k)
  \/ NextMarketDay \/ PnLDiverges \/ ActivateHalt

AdmissionSpec == AdmissionInit /\ [][AdmissionNext]_admissionVars

---------------------------------------------------------------------------
\* The Kernel never promises money the venue does not have: whatever fills,
\* bookings and admissions race, the entitlements that can still be spent are
\* covered by the provider's buying power (dayStateAtAccount after the ledger
\* lock; the comment at main.go:949 names the stale snapshot).
NeverOverspent ==
  RiskOf({k \in Keys : operation[k].attempt \in {"pending", "active", "working"}}) <= buyingPower

\* A new grant keeps the market day within the cap of the canary revision in
\* force when it commits, and the day's first grant is one quantity increment,
\* although the cap was read steps earlier (liveCanaryRefusal).
GrantsWithinCanary ==
  [][\A k \in Keys : Granted(operation'[k]) /\ ~Granted(operation[k]) =>
       /\ GrantUsage(marketDay)' <= ActiveCanary.authority.cap
       /\ operation'[k].revision = Len(canary) /\ operation'[k].grantDay = marketDay
       /\ TradesForDay(marketDay) = 0 => operation'[k].request.unit]_admissionVars

\* One key, one request, one decision: a decided operation keeps its status
\* and an operation its request, whatever is retried or reviewed twice.
DecisionsAreFinal ==
  [][\A k \in Keys :
       /\ operation[k].status \notin {"absent", "pending_review"} =>
            operation'[k].status = operation[k].status
       /\ operation[k].status # "absent" =>
            operation'[k].request = operation[k].request]_admissionVars

\* An operation is bound to the policy that is active when it commits, not to
\* one read before a concurrent revision (KernelPolicyAuthority).
BoundToActivePolicy ==
  [][\A k \in Keys : operation[k].status = "absent" /\ operation'[k].status # "absent" =>
       operation'[k].policy = Len(policies)]_admissionVars

EarnedDay(d, revision) ==
  LET trades == {k \in Keys : operation[k].grantDay = d}
  IN /\ trades # {} /\ d \notin diverged
     /\ \A k \in trades : operation[k].revision = revision /\ operation[k].attempt = "settled"

\* A widening without the owner's override is earned: as many earlier days as
\* the old setting asks each had trades, all under the old revision, all
\* settled, none with diverging PnL.
WideningEarned ==
  [][canary' # canary /\ canary'[Len(canary')].change = "widen" =>
       Cardinality({d \in 1..(marketDay - 1) : EarnedDay(d, Len(canary))})
         >= ActiveCanary.authority.clean]_admissionVars

\* No two transactions wait for each other's locks.
NoWaitCycle ==
  \A t, u \in Transactions : ~(Blocks(u, t) /\ Blocks(t, u))

=============================================================================
