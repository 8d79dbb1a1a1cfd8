------------------------------ MODULE Exposure ------------------------------
(***************************************************************************)
(* The exposure ledger of one live symbol beside a broker account that     *)
(* people trade in too: kernel/internal/store/{exposure,orders,            *)
(* broker_observations,broker_reconciliation}.go, the close part of        *)
(* propose in kernel/cmd/kernel/main.go and the snapshots, the decision    *)
(* and the pre-effect barrier of kernel/cmd/kernel/broker_observations.go. *)
(*                                                                         *)
(* The ledger knows how many of the account's shares are its own           *)
(* (`tracked').  A close takes a snapshot of the account, reconciles the   *)
(* ledger with the newest snapshot, splits its quantity into tracked and   *)
(* external shares, reserves it, passes the pre-effect barrier under the   *)
(* execution gate and rests at the broker, whose fills are imported later. *)
(* A snapshot is three reads: the local generation, then the positions,    *)
(* then the working orders.                                                *)
(*                                                                         *)
(* Generations only grow and are only compared for equality with the       *)
(* present one, so a snapshot carries `current', cleared by every change   *)
(* of an order or a fill row, and `done', set when it was reconciled.      *)
(* Lost and unknown answers are LiveExecution's subject; here a call is    *)
(* answered.                                                               *)
(***************************************************************************)
EXTENDS Integers, FiniteSets, FiniteSetsExt

CONSTANTS Opens,         \* opening orders
          Closes,        \* close proposals
          OrderQty,           \* OrderQty[o]: quantity of an order
          Holdings,      \* states to start from, see AccountType
          None

Orders == Opens \cup Closes

\* The ledger's shares, other shares, the orders to come (openings at the broker,
\* closes to be proposed), and the bounds: shares people buy and sell, read-model
\* snapshots (GET /state, console).
AccountType == [tracked : Nat, external : Nat, orders : SUBSET Orders,
                buys : Nat, sells : Nat, looks : Nat]

ASSUME ExposureBounds ==
    /\ Opens \cap Closes = {} /\ None \notin Orders /\ None \notin Int
    /\ IsFiniteSet(Orders)
    /\ OrderQty \in [Orders -> Nat \ {0}]
    /\ Holdings \subseteq AccountType

VARIABLES position,    \* broker: shares in the account
          border,      \* broker: border[o] = [st, filled]
          bought,      \* people: shares bought so far
          sold,        \* people: shares sold so far
          start,       \* history: the account this behaviour began with
          tracked,     \* sum of opened_qty - closed_qty of the open lots
          op,          \* op[o]: operation, attempt, order row and reservation
          gate,        \* live_execution_gate.active_attempt_id
          snap,        \* snap[c]: the snapshot a close is taking or relies on
          look,        \* the snapshot a read-model request is taking
          looks,       \* read-model requests so far
          cache,       \* the query client's cached positions and orders
          head,        \* broker_observation_head and its observation
          projection,  \* broker_position_projection
          importRefused,   \* ErrFillIntegrity: the ledger refused an import
          reduced,     \* history: tracked shares written off as sold by others
          byCache      \* history: a read-model snapshot wrote shares off

exposureVars == <<position, border, bought, sold, start, tracked, op, gate, snap, look, looks, cache,
          head, projection, importRefused, reduced, byCache>>
accountVars == <<position, border, bought, sold, start>>
ledgerVars == <<tracked, op, gate, importRefused>>
reconVars  == <<head, projection, reduced, byCache>>
readVars   == <<snap, look, looks, cache>>

NewOp == [st |-> "new", filled |-> 0, held |-> 0, decided |-> 0,
          tracked |-> 0, external |-> 0, episode |-> FALSE, usedTracked |-> 0, usedExternal |-> 0]

\* What an order list shows of each order: its fills, or None when not working.
WorkingOrders == [o \in Orders |-> IF border[o].st = "working" THEN border[o].filled ELSE None]

Snapshot(pos, orders, current, source) ==
    [pos |-> pos, orders |-> orders, current |-> current, source |-> source,
     done |-> FALSE, knows |-> {c \in Closes : op[c].st # "new"}]

ExposureInit ==
    /\ start \in Holdings
    /\ position = start.tracked + start.external
    /\ tracked = start.tracked
    /\ border = [o \in Orders |-> [st |-> IF o \in Opens \cap start.orders THEN "working" ELSE "none",
                                 filled |-> 0]]
    /\ op = [o \in Orders |-> [NewOp EXCEPT !.st = IF o \notin start.orders THEN "failed"
                                                  ELSE IF o \in Opens THEN "working" ELSE "new"]]
    /\ bought = 0 /\ sold = 0
    /\ gate = None
    /\ snap = [c \in Closes |-> [pc |-> "idle", current |-> FALSE, pos |-> 0]]
    /\ look = [pc |-> "idle", current |-> FALSE, pos |-> 0]
    /\ looks = 0
    /\ cache = [pos |-> position, orders |-> WorkingOrders]
    /\ head = [Snapshot(position, WorkingOrders, FALSE, "authority") EXCEPT !.done = TRUE]
    /\ projection = None
    /\ importRefused = FALSE
    /\ reduced = 0
    /\ byCache = FALSE

\* A statement on orders or fills moves the local generation: no snapshot begun
\* before it is current any more.
Outdated == /\ snap' = [c \in Closes |-> [snap[c] EXCEPT !.current = FALSE]]
            /\ look' = [look EXCEPT !.current = FALSE]
            /\ head' = [head EXCEPT !.current = FALSE]

HeldBy(ops) == MapThenSumSet(LAMBDA c : op[c].held, ops)

----------------------------------------------------------------------------
(* The broker and the people who use the account.                          *)

Resting == MapThenSumSet(LAMBDA c : OrderQty[c] - border[c].filled,
                         {c \in Closes : border[c].st = "working"})

HumanBuys ==
    /\ bought < start.buys
    /\ position' = position + 1 /\ bought' = bought + 1
    /\ UNCHANGED <<border, sold, start, ledgerVars, reconVars, readVars>>

\* Shares a working sell order stands for are not for sale a second time.
HumanSells ==
    /\ sold < start.sells
    /\ position > Resting
    /\ position' = position - 1 /\ sold' = sold + 1
    /\ UNCHANGED <<border, bought, start, ledgerVars, reconVars, readVars>>

BrokerReceives(c) ==
    /\ op[c].st = "sent" /\ border[c].st = "none"
    /\ border' = [border EXCEPT ![c].st = IF position >= Resting + OrderQty[c] THEN "working" ELSE "rejected"]
    /\ UNCHANGED <<position, bought, sold, start, ledgerVars, reconVars, readVars>>

BrokerFillsOrder(o) ==
    /\ border[o].st = "working"
    /\ border' = [border EXCEPT ![o].filled = @ + 1,
                                ![o].st = IF border[o].filled + 1 = OrderQty[o] THEN "ended" ELSE @]
    /\ position' = position + (IF o \in Opens THEN 1 ELSE -1)
    /\ UNCHANGED <<bought, sold, start, ledgerVars, reconVars, readVars>>

BrokerEndsOrder(o) ==
    /\ border[o].st = "working"
    /\ border' = [border EXCEPT ![o].st = "ended"]
    /\ UNCHANGED <<position, bought, sold, start, ledgerVars, reconVars, readVars>>

----------------------------------------------------------------------------
(* The snapshots of a close: one the decision rests on, and, under the      *)
(* gate, one for the pre-effect barrier.                                    *)

ReadGeneration(c) ==
    /\ snap[c].pc = "idle" /\ op[c].st \in {"new", "claimed"}
    /\ snap' = [snap EXCEPT ![c] = [pc |-> "positions", current |-> TRUE, pos |-> 0]]
    /\ UNCHANGED <<accountVars, ledgerVars, reconVars, look, looks, cache>>

ReadPositions(c) ==
    /\ snap[c].pc = "positions"
    /\ snap' = [snap EXCEPT ![c].pc = "orders", ![c].pos = position]
    /\ cache' = [cache EXCEPT !.pos = position]
    /\ UNCHANGED <<accountVars, ledgerVars, reconVars, look, looks>>

AfterSnapshot(c) == IF op[c].st = "new" THEN "reconcile" ELSE "barrier"

\* The order list completes the observation, which becomes the account's head.
RecordObservation(c) ==
    /\ snap[c].pc = "orders"
    /\ snap' = [snap EXCEPT ![c].pc = AfterSnapshot(c)]
    /\ cache' = [cache EXCEPT !.orders = WorkingOrders]
    /\ head' = Snapshot(snap[c].pos, WorkingOrders, snap[c].current, "authority")
    /\ UNCHANGED <<accountVars, ledgerVars, projection, reduced, byCache, look, looks>>

(* A read-model snapshot goes through the cached client: each answer is the *)
(* broker's or, within its time to live, the cached one.                    *)
LookBegins ==
    /\ looks < start.looks /\ look.pc = "idle"
    /\ look' = [pc |-> "positions", current |-> TRUE, pos |-> 0]
    /\ looks' = looks + 1
    /\ UNCHANGED <<accountVars, ledgerVars, reconVars, snap, cache>>

LookAtPositions ==
    /\ look.pc = "positions"
    /\ \E pos \in {cache.pos, position} :
         /\ look' = [look EXCEPT !.pc = "orders", !.pos = pos]
         /\ cache' = [cache EXCEPT !.pos = pos]
    /\ UNCHANGED <<accountVars, ledgerVars, reconVars, snap, looks>>

LookRecords ==
    /\ look.pc = "orders"
    /\ \E orders \in {cache.orders, WorkingOrders} :
         /\ head' = Snapshot(look.pos, orders, look.current, "read_model")
         /\ cache' = [cache EXCEPT !.orders = orders]
    /\ look' = [look EXCEPT !.pc = "idle"]
    /\ UNCHANGED <<accountVars, ledgerVars, projection, reduced, byCache, snap, looks>>

----------------------------------------------------------------------------
(* ReconcileBrokerObservation, always of the head.                         *)

\* hasUnappliedAlpheusOrderEffect: a working order the snapshot does not show
\* with exactly the imported fills.
Lagged == \E o \in Orders : op[o].st = "working" /\ head.orders[o] # op[o].filled

Least(a, b) == IF a < b THEN a ELSE b
Positive(a) == IF a > 0 THEN a ELSE 0

TrackedAfter == Least(tracked, Positive(head.pos))

\* applyExternalExposureReduction takes the difference off the oldest lots.
WrittenOff == tracked - TrackedAfter

EpisodeNeeded ==
    \/ WrittenOff > 0
    \/ IF projection = None THEN head.pos # TrackedAfter
       ELSE projection.provider - projection.tracked # head.pos - TrackedAfter

\* invalidateStaleBrokerWork: unclaimed operations older than the snapshot.
StaleWork == {c \in head.knows : op[c].st = "pending"}

\* Mutant of ReconcileAllowed: the local generation is not compared.
ReconcileAnyGeneration == ~head.done /\ gate = None /\ ~Lagged

ReconcileAllowed == ~head.done /\ gate = None /\ ~Lagged /\ head.current

Reconcile(c) ==
    /\ snap[c].pc = "reconcile"
    /\ ReconcileAllowed
    /\ tracked' = tracked - WrittenOff
    /\ reduced' = reduced + WrittenOff
    /\ byCache' = (byCache \/ (WrittenOff > 0 /\ head.source = "read_model"))
    /\ projection' = [provider |-> head.pos, tracked |-> TrackedAfter]
    /\ LET stale == IF EpisodeNeeded THEN StaleWork ELSE {}
       IN  /\ op' = [o \in Orders |-> IF o \in stale
                                      THEN [op[o] EXCEPT !.st = "failed", !.held = 0] ELSE op[o]]
           /\ head' = [head EXCEPT !.done = TRUE, !.current = (stale = {})]
           /\ snap' = [d \in Closes |->
                         [snap[d] EXCEPT !.pc = IF d = c THEN "propose" ELSE @,
                                         !.current = @ /\ stale = {}]]
           /\ look' = [look EXCEPT !.current = @ /\ stale = {}]
    /\ UNCHANGED <<accountVars, gate, importRefused, looks, cache>>

\* Deferred, already reconciled, or the lock is busy: the request goes on.
ReconcileSkipped(c) ==
    /\ snap[c].pc = "reconcile"
    /\ ~ReconcileAllowed \/ \E d \in Closes \ {c} : snap[d].pc = "reconcile"
    /\ snap' = [snap EXCEPT ![c].pc = "propose"]
    /\ UNCHANGED <<accountVars, ledgerVars, reconVars, look, looks, cache>>

----------------------------------------------------------------------------
(* propose, for a close, in one transaction under the ledger and symbol     *)
(* locks.                                                                   *)

\* The decision's position covers every held close and this one.
Closable(c) == snap[c].pos > 0 /\ HeldBy(Closes) + OrderQty[c] <= snap[c].pos

TrackedShare(c) == Least(OrderQty[c], tracked)

Propose(c) ==
    /\ snap[c].pc = "propose"
    /\ Closable(c)
    /\ gate = None
    /\ op' = [op EXCEPT ![c] = [NewOp EXCEPT !.st = "pending", !.held = OrderQty[c],
                                             !.decided = snap[c].pos,
                                             !.tracked = TrackedShare(c),
                                             !.external = OrderQty[c] - TrackedShare(c),
                                             !.episode = (snap[c].pos # tracked)]]
    /\ snap' = [d \in Closes |-> [snap[d] EXCEPT !.pc = IF d = c THEN "idle" ELSE @, !.current = FALSE]]
    /\ look' = [look EXCEPT !.current = FALSE]
    /\ head' = [head EXCEPT !.current = FALSE]
    /\ UNCHANGED <<accountVars, tracked, gate, importRefused, projection, reduced, byCache, looks, cache>>

\* insufficient_closable_quantity, no position, or a busy account: the caller
\* may ask again.
ProposeRefused(c) ==
    /\ snap[c].pc = "propose"
    /\ ~Closable(c) \/ gate # None
    /\ snap' = [snap EXCEPT ![c] = [pc |-> "idle", current |-> FALSE, pos |-> 0]]
    /\ UNCHANGED <<accountVars, ledgerVars, reconVars, look, looks, cache>>

----------------------------------------------------------------------------
(* The attempt: claim, pre-effect barrier, call, resolution.               *)

Claim(c) ==
    /\ op[c].st = "pending" /\ gate = None
    /\ op' = [op EXCEPT ![c].st = "claimed"]
    /\ gate' = c
    /\ UNCHANGED <<accountVars, tracked, importRefused, reconVars, readVars>>

\* Mutant of CloseCapacity: the barrier trusts the decision.
CapacityAsDecided(c) == HeldBy(Closes \ {c}) + OrderQty[c] <= op[c].decided

\* validateFreshCloseCapacity: the position is the decided one and covers the
\* other held closes.
CloseCapacity(c) ==
    /\ snap[c].pos = op[c].decided
    /\ HeldBy(Closes \ {c}) + OrderQty[c] <= snap[c].pos

PassPreEffect(c) ==
    /\ snap[c].pc = "barrier" /\ CloseCapacity(c)
    /\ op' = [op EXCEPT ![c].st = "sent"]
    /\ snap' = [snap EXCEPT ![c].pc = "over"]
    /\ UNCHANGED <<accountVars, tracked, gate, importRefused, reconVars, look, looks, cache>>

RefusePreEffect(c) ==
    /\ snap[c].pc = "barrier" /\ ~CloseCapacity(c)
    /\ op' = [op EXCEPT ![c].st = "failed", ![c].held = 0]
    /\ gate' = None
    /\ snap' = [d \in Closes |-> [snap[d] EXCEPT !.pc = IF d = c THEN "over" ELSE @, !.current = FALSE]]
    /\ look' = [look EXCEPT !.current = FALSE]
    /\ head' = [head EXCEPT !.current = FALSE]
    /\ UNCHANGED <<accountVars, tracked, importRefused, projection, reduced, byCache, looks, cache>>

\* The broker's answer settles the attempt; its fills are imported from now on.
ResolveAttempt(c) ==
    /\ op[c].st = "sent" /\ border[c].st # "none"
    /\ op' = [op EXCEPT ![c] = IF border[c].st = "rejected"
                                 THEN [@ EXCEPT !.st = "failed", !.held = 0]
                                 ELSE [@ EXCEPT !.st = "working"]]
    /\ gate' = None
    /\ Outdated
    /\ UNCHANGED <<accountVars, tracked, importRefused, projection, reduced, byCache, looks, cache>>

----------------------------------------------------------------------------
(* applyOrderUpdate: fills of a working order are imported, up to a read    *)
(* that may be behind the broker, and an ended order settles.               *)

\* Mutant of TrackedPart: the split of an episode is ignored.
TrackedOnly(o, n) == n

\* applyCloseExposureFill: the tracked share of an episode first, then the
\* external one; without an episode every share is a tracked one.
TrackedPart(o, n) ==
    IF op[o].episode THEN Least(n, op[o].tracked - op[o].usedTracked) ELSE n

FillAccepted(o, n) ==
    \/ o \in Opens
    \/ /\ TrackedPart(o, n) <= tracked
       /\ n <= op[o].held
       /\ op[o].episode => n - TrackedPart(o, n) <= op[o].external - op[o].usedExternal

\* A read of the order: n fills not yet imported, and whether it has ended.
Reads(o, n, ended) ==
    /\ op[o].st = "working"
    /\ op[o].filled + n <= border[o].filled
    /\ op[o].filled + n = OrderQty[o] => ended
    /\ ended => border[o].st = "ended" /\ op[o].filled + n = border[o].filled
    /\ n > 0 \/ ended

\* Mutant of Imported: a partial fill does not reduce the reservation.
ImportedHoldsAll(o, n, ended) ==
    [op[o] EXCEPT !.st = IF ended THEN "done" ELSE @, !.filled = @ + n,
                  !.held = IF o \in Opens \/ ended THEN 0 ELSE @,
                  !.usedTracked = @ + TrackedPart(o, n),
                  !.usedExternal = @ + n - TrackedPart(o, n)]

Imported(o, n, ended) ==
    [op[o] EXCEPT !.st = IF ended THEN "done" ELSE @, !.filled = @ + n,
                  !.held = IF o \in Opens \/ ended THEN 0 ELSE @ - n,
                  !.usedTracked = @ + TrackedPart(o, n),
                  !.usedExternal = @ + n - TrackedPart(o, n)]

\* Mutant of ApplyOrderUpdate: the fills of a final update reach no lot.
ApplyFinalWithoutLots(o, n, ended) ==
    /\ Reads(o, n, ended) /\ FillAccepted(o, n)
    /\ op' = [op EXCEPT ![o] = Imported(o, n, ended)]
    /\ tracked' = CASE ended -> tracked
                    [] o \in Opens -> tracked + n
                    [] OTHER -> tracked - TrackedPart(o, n)
    /\ Outdated
    /\ UNCHANGED <<accountVars, gate, importRefused, projection, reduced, byCache, looks, cache>>

ApplyOrderUpdate(o, n, ended) ==
    /\ Reads(o, n, ended) /\ FillAccepted(o, n)
    /\ op' = [op EXCEPT ![o] = Imported(o, n, ended)]
    /\ tracked' = IF o \in Opens THEN tracked + n ELSE tracked - TrackedPart(o, n)
    /\ Outdated
    /\ UNCHANGED <<accountVars, gate, importRefused, projection, reduced, byCache, looks, cache>>

\* ErrFillIntegrity rolls the import back and halts the kernel.
IntegrityFailure(o, n, ended) ==
    /\ ~importRefused
    /\ Reads(o, n, ended) /\ ~FillAccepted(o, n)
    /\ importRefused' = TRUE
    /\ UNCHANGED <<accountVars, tracked, op, gate, reconVars, readVars>>

----------------------------------------------------------------------------
CloseStep(c) ==
    \/ ReadGeneration(c) \/ ReadPositions(c) \/ RecordObservation(c)
    \/ Reconcile(c) \/ ReconcileSkipped(c)
    \/ Propose(c) \/ ProposeRefused(c)
    \/ Claim(c) \/ PassPreEffect(c) \/ RefusePreEffect(c)
    \/ BrokerReceives(c) \/ ResolveAttempt(c)

OrderStep(o) ==
    \/ BrokerFillsOrder(o) \/ BrokerEndsOrder(o)
    \/ \E n \in 0 .. OrderQty[o], ended \in BOOLEAN :
         ApplyOrderUpdate(o, n, ended) \/ IntegrityFailure(o, n, ended)

LookStep == LookBegins \/ LookAtPositions \/ LookRecords

ExposureNext ==
    \/ \E c \in Closes : CloseStep(c)
    \/ \E o \in Orders : OrderStep(o)
    \/ LookStep
    \/ HumanBuys \/ HumanSells

ExposureSpec == ExposureInit /\ [][ExposureNext]_exposureVars

----------------------------------------------------------------------------
(* Properties.                                                             *)

\* The type invariant; a reservation covers exactly what its order can still
\* fill and is let go when the order is over.
ExposureTypeOK ==
    /\ position \in Nat /\ tracked \in Nat /\ reduced \in Nat
    /\ gate \in Closes \cup {None}
    /\ \A o \in Orders :
         /\ border[o].filled \in 0 .. OrderQty[o] /\ op[o].filled \in 0 .. border[o].filled
         /\ op[o].tracked + op[o].external \in {0, OrderQty[o]}
    /\ \A c \in Closes :
         op[c].held = IF op[c].st \in {"pending", "claimed", "sent", "working"}
                        THEN OrderQty[c] - op[c].filled ELSE 0
    /\ bought \in 0 .. start.buys /\ sold \in 0 .. start.sells

\* Every fill the broker made can be imported: an honest fill is refused as an
\* integrity violation, which halts the kernel, only when the account had shares
\* the ledger did not know of (others' or an opening fill on its way) and two
\* closes were promised tracked ones (TrackedShare does not subtract what other
\* closes were promised).  Write-offs by cached snapshots are
\* CachedNeverReduces' subject, here and below.
FillsAreImported ==
    importRefused /\ ~byCache =>
                 /\ \/ start.external + bought > 0
                    \/ \E o \in Opens : border[o].filled > 0
                 /\ \E c, d \in Closes : c # d /\ op[c].tracked > 0 /\ op[d].tracked > 0

SoldAsExternal == MapThenSumSet(LAMBDA c : op[c].usedExternal, Closes)

\* Shares are written off only to the extent that people sold and closes sold as
\* external more than the account held beside the ledger's: an authority snapshot
\* never takes a fill that is not imported yet for an outside change.  (Shares an
\* opening order bought and a close sold as external before that fill was imported
\* are written off although nobody else traded.)
ReductionIsExternal ==
    reduced <= Positive(sold + SoldAsExternal - start.external) \/ byCache

\* The kernel never asks the broker to sell more than the account has, whatever
\* it decided on and whatever filled since; only people selling in the window
\* between barrier and call can make a close come back rejected.
RejectedOnlyByPeople == (\E c \in Closes : border[c].st = "rejected") => sold > 0

\* In an account nobody else trades in, closes keep the ledger and the account
\* together: once all fills are imported the ledger owns every share.  (A close
\* decided before an opening fill is imported sells own shares as external.)
OwnSharesStayTracked ==
    (/\ ~byCache /\ start.external + bought + sold = 0
     /\ \A o \in Opens : border[o].filled = 0
     /\ \A c \in Closes : border[c].filled = op[c].filled)
        => tracked = position

\* broker_observations.go:297: "read-model and ordinary cached snapshots remain
\* evidence only and can never reduce the internal exposure ledger".
CachedNeverReduces == ~byCache

\* The exposure ledger against the account: fills can be imported, only sales of
\* others are written off, closes never oversell, and own shares stay owned
\* (internal/store/exposure.go, broker_reconciliation.go).
ExposureSafe ==
    /\ ExposureTypeOK
    /\ FillsAreImported /\ ReductionIsExternal /\ RejectedOnlyByPeople /\ OwnSharesStayTracked
=============================================================================
