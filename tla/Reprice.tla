------------------------------- MODULE Reprice -------------------------------
(***************************************************************************)
(* Repricing of one managed operation (cmd/kernel/repricer.go,             *)
(* internal/store/repricing.go).  A working order is cancelled, the cancel *)
(* is proved by reading the order back, and what is left of the quantity   *)
(* is placed again under the same reservation.  Generation g is the g-th   *)
(* placement of the operation with its order; each generation may be the   *)
(* target of reprice cancels, one unresolved at a time.                    *)
(*                                                                         *)
(* Two goroutines of a kernel work on the operation: the repricer, which   *)
(* stages cancels, and the attempt reconciler, which recovers what was     *)
(* left behind and observes working orders.  Either may be slow enough to  *)
(* lose its lease, and a crash stops both.                                 *)
(*                                                                         *)
(* The claim, send and lookup of a placement are module LiveExecution's    *)
(* subject and are reduced here to four steps of a replacement.  The live  *)
(* gate only delays claims of this operation and is left out.              *)
(***************************************************************************)
EXTENDS Naturals, FiniteSets

CONSTANTS
    Qty,          \* quantity of the operation
    MaxReprices,  \* orders.max_reprices, bound when the operation was authorised
    Modes         \* [action, live]: kinds of operation, and trading modes

ASSUME RepriceQtyAssumption == Qty \in Nat \ {0}
ASSUME MaxRepricesAssumption == MaxReprices \in Nat
ASSUME ModesAssumption == Modes \subseteq [action : {"open", "close"}, live : BOOLEAN]

Gens == 1..(MaxReprices + 1)
Procs == {"repricer", "reconciler"}

VARIABLES
    place,      \* state of the placement attempt; "sent" is claimed or unknown after the send marker
    qty,        \* orders.qty
    order,      \* orders.state
    filled,     \* sum of the order's durable fills
    reprices,   \* orders.reprices
    cancel,     \* state of the newest reprice cancel aimed at the order
    owner,      \* who holds its fencing token
    leased,     \* its lease runs
    sent,       \* its sent_at is set
    held,       \* remaining quantity of the held reservation
    resource,   \* state of the reservation
    status,     \* operations.status
    integrity,  \* an ErrFillIntegrity halted trading
    mode,       \* what the operation does, and the mode the kernel trades in
    policyMax,  \* max_reprices of the policy in force
    ledgerHalted, \* what repriceLedgerHalted would answer
    broker,     \* [state, filled] of the order at the broker (external)
    cancelSent, \* a cancel request is on its way to the broker (external)
    proc        \* the goroutines: where they are, and what they remember

bookVars == <<place, qty, order, filled, reprices, held, resource, status>>
cancelVars == <<cancel, owner, leased, sent>>
policyVars == <<mode, policyMax, ledgerHalted>>
brokerVars == <<broker, cancelSent>>
repriceVars == <<bookVars, cancelVars, policyVars, brokerVars, integrity, proc>>

Action == mode.action
LiveMode == mode.live   \* pre-effect barrier and send marker

Working == {"submitted", "partially_filled"}
TerminalUnfilled == {"cancelled", "rejected", "expired"}
Terminal == TerminalUnfilled \cup {"filled"}
Unresolved == {"pending", "claimed", "unknown"}
PlaceLive == {"pending", "claimed", "sent", "placed"}

OrderRead == [state : Working \cup Terminal, filled : 0..Qty]
NoRead == [state |-> "submitted", filled |-> 0]
Idle == [pc |-> "idle", gen |-> 1, reason |-> FALSE, read |-> NoRead]
Pcs == {"idle", "staged", "claimed", "barrier", "call", "query", "decide", "finalize", "listed", "observed"}

\* What is left to do of the operation's quantity
Remaining(g) == qty[g] - filled[g]
HasFills(f) == \E g \in Gens : f[g] > 0

\* operationStatusAfterFailedAttempt
FailureStatus(f) == IF HasFills(f) THEN "executed" ELSE "failed"

\* where a fully used reservation ends
Consumed == IF Action = "open" THEN "converted" ELSE "released"

\* The first placement is working and untouched.
RepriceInit ==
    /\ place = [g \in Gens |-> IF g = 1 THEN "placed" ELSE "none"]
    /\ qty = [g \in Gens |-> IF g = 1 THEN Qty ELSE 0]
    /\ order = [g \in Gens |-> IF g = 1 THEN "submitted" ELSE "none"]
    /\ filled = [g \in Gens |-> 0]
    /\ reprices = [g \in Gens |-> 0]
    /\ cancel = [g \in Gens |-> "none"]
    /\ owner = [g \in Gens |-> "none"]
    /\ leased = [g \in Gens |-> FALSE]
    /\ sent = [g \in Gens |-> FALSE]
    /\ held = Qty /\ resource = "held" /\ status = "auto_approved"
    /\ integrity = FALSE
    /\ mode \in Modes
    /\ policyMax = MaxReprices /\ ledgerHalted = FALSE
    /\ broker = [g \in Gens |-> [state |-> IF g = 1 THEN "submitted" ELSE "none", filled |-> 0]]
    /\ cancelSent = [g \in Gens |-> FALSE]
    /\ proc = [p \in Procs |-> Idle]

At(p, pc) == proc[p].pc = pc
Goto(p, pc) == proc' = [proc EXCEPT ![p].pc = pc]
Stop(p) == proc' = [proc EXCEPT ![p] = Idle]

\* the fenced UPDATE of a transaction on the cancel finds its row
Holds(p, g) == cancel[g] = "claimed" /\ owner[g] = p

-----------------------------------------------------------------------------
(* Policy                                                                  *)

\* effectiveOrderPolicy: neither policy may widen what the other allows
EffectiveMax == IF policyMax < MaxReprices THEN policyMax ELSE MaxReprices

\* repricePolicy: why the order may not be replaced, if it may not
PolicyReason(g) == reprices[g] >= EffectiveMax \/ (Action = "open" /\ ledgerHalted)

\* A policy revision is activated, or the ledger is halted or resumed.
ChangePolicy ==
    /\ \/ policyMax' \in 0..(MaxReprices + 1) /\ UNCHANGED ledgerHalted
       \/ Action = "open" /\ ledgerHalted' = ~ledgerHalted /\ UNCHANGED policyMax
    /\ UNCHANGED <<mode, bookVars, cancelVars, brokerVars, integrity, proc>>

-----------------------------------------------------------------------------
(* Order updates                                                           *)

Advances(current, next) ==
    \/ current = next
    \/ current \in {"new", "submitted"}   \* a new order passes through submitted
    \/ current = "partially_filled" /\ next \in {"filled", "cancelled", "expired"}

\* Mutant of RepriceManaged: only an unresolved cancel takes the order away.
ManagedWhileUnresolved(g) == cancel[g] \in Unresolved

\* once a cancel exists that has not failed, only its finalisation writes the order
RepriceManaged(g) == cancel[g] \in Unresolved \cup {"settled"}

\* validateM3AExecutionEntitlement and replacementOrderRemaining
Entitled(g) ==
    IF order[g] \in Terminal
      THEN resource = IF order[g] = "filled" THEN Consumed ELSE "released"
      ELSE resource = "held" /\ held > 0 /\ (g > 1 => held = Remaining(g))

\* applyOrderUpdate fails with ErrFillIntegrity
Contradicts(g, r) ==
    /\ Advances(order[g], r.state)
    /\ ~Entitled(g) \/ r.filled < filled[g] \/ r.filled - filled[g] > held

\* applyOrderUpdate commits.  An illegal transition is an error that only rolls back.
UpdateAccepted(g, r) == Advances(order[g], r.state) /\ ~Contradicts(g, r)

\* Mutant of HeldAfter: the order's cumulative fills are deducted again.
HeldLessAllFills(g, r, preserve) ==
    IF r.state \in TerminalUnfilled /\ ~preserve THEN 0 ELSE held - r.filled

\* the reservation after an accepted update: new fills use it, and a terminal
\* order lets go of the rest unless the caller preserves it
HeldAfter(g, r, preserve) ==
    IF r.state \in TerminalUnfilled /\ ~preserve THEN 0 ELSE held - (r.filled - filled[g])
ResourceAfter(g, r, preserve) ==
    IF resource = "held" /\ held = r.filled - filled[g] THEN Consumed
    ELSE IF resource = "held" /\ r.state \in TerminalUnfilled /\ ~preserve THEN "released"
    ELSE resource

\* the placement attempt after a terminal order update
PlacementAfter(s) ==
    CASE s = "rejected" -> "failed" [] s \in {"filled", "cancelled", "expired"} -> "settled"
      [] OTHER -> "placed"

StatusAfterOrder(s, f) ==
    CASE s = "filled" -> "executed" [] s \in TerminalUnfilled -> FailureStatus(f) [] OTHER -> status

-----------------------------------------------------------------------------
(* Staging and claiming a cancel                                           *)

\* repriceOrder and StageRepriceCancel: an order that works and has no
\* unresolved cancel; without a policy reason there must be market data for a
\* replacement (nondeterministic), otherwise nothing is staged.
StageRepriceCancel(g) ==
    LET p == "repricer"
    IN  /\ At(p, "idle")
        /\ order[g] \in Working
        /\ cancel[g] \notin Unresolved
        /\ cancel' = [cancel EXCEPT ![g] = "pending"]
        /\ owner' = [owner EXCEPT ![g] = "none"]
        /\ leased' = [leased EXCEPT ![g] = FALSE]
        /\ sent' = [sent EXCEPT ![g] = FALSE]
        /\ proc' = [proc EXCEPT ![p] =
                      [Idle EXCEPT !.pc = "staged", !.gen = g, !.reason = PolicyReason(g)]]
        /\ UNCHANGED <<bookVars, policyVars, brokerVars, integrity>>

Claimed(p, g) ==
    /\ cancel' = [cancel EXCEPT ![g] = "claimed"]
    /\ owner' = [owner EXCEPT ![g] = p]
    /\ leased' = [leased EXCEPT ![g] = TRUE]
    /\ UNCHANGED <<sent, bookVars, policyVars, brokerVars, integrity>>

\* executePendingRepriceCancel by the repricer that staged it
ClaimStaged ==
    LET p == "repricer" IN LET g == proc[p].gen
    IN  /\ At(p, "staged")
        /\ \/ cancel[g] = "pending" /\ Claimed(p, g) /\ Goto(p, "claimed")
           \/ Stop(p) /\ UNCHANGED <<bookVars, cancelVars, policyVars, brokerVars, integrity>>

\* reconcilePendingRepriceCancel: the reconciler takes over a pending cancel
ClaimPendingCancel(g) ==
    LET p == "reconciler"
    IN  /\ At(p, "idle") /\ cancel[g] = "pending"
        /\ Claimed(p, g)
        /\ proc' = [proc EXCEPT ![p] =
                      [Idle EXCEPT !.pc = "claimed", !.gen = g, !.reason = PolicyReason(g)]]

\* Mutant of ClaimUncertainCancel: recovery sends every unresolved cancel to the
\* finalisation without proof.
RecoverWithoutProof(g) ==
    LET p == "reconciler"
    IN  /\ At(p, "idle")
        /\ cancel[g] = "unknown" \/ (cancel[g] = "claimed" /\ ~leased[g])
        /\ Claimed(p, g)
        /\ proc' = [proc EXCEPT ![p] =
                      IF LiveMode /\ ~sent[g]
                        THEN [Idle EXCEPT !.pc = "claimed", !.gen = g, !.reason = PolicyReason(g)]
                        ELSE [Idle EXCEPT !.pc = "decide", !.gen = g,
                                          !.read = [state |-> "cancelled", filled |-> filled[g]]]]

\* Mutant of ClaimUncertainCancel: an unknown cancel waits for a human.
RecoverOnlyExpired(g) ==
    LET p == "reconciler"
    IN  /\ At(p, "idle") /\ cancel[g] = "claimed" /\ ~leased[g]
        /\ Claimed(p, g)
        /\ proc' = [proc EXCEPT ![p] = [Idle EXCEPT !.pc = "query", !.gen = g]]

\* reconcileUncertainAttempt and reconcileUncertainReprice: a cancel that was
\* never sent is executed, any other is only read back.
ClaimUncertainCancel(g) ==
    LET p == "reconciler"
    IN  /\ At(p, "idle")
        /\ cancel[g] = "unknown" \/ (cancel[g] = "claimed" /\ ~leased[g])
        /\ Claimed(p, g)
        /\ proc' = [proc EXCEPT ![p] =
                      IF LiveMode /\ ~sent[g]
                        THEN [Idle EXCEPT !.pc = "claimed", !.gen = g, !.reason = PolicyReason(g)]
                        ELSE [Idle EXCEPT !.pc = "query", !.gen = g]]

LeaseExpires(g) ==
    /\ cancel[g] = "claimed" /\ leased[g]
    /\ leased' = [leased EXCEPT ![g] = FALSE]
    /\ UNCHANGED <<cancel, owner, sent, bookVars, policyVars, brokerVars, integrity, proc>>

\* ResolveAttempt of a cancel: fenced, and it touches nothing but the cancel
CancelResolved(p, g, s) ==
    /\ cancel' = [cancel EXCEPT ![g] = IF Holds(p, g) THEN s ELSE @]
    /\ leased' = [leased EXCEPT ![g] = @ /\ ~Holds(p, g)]
    /\ UNCHANGED <<owner, sent, bookVars, policyVars, brokerVars, integrity>>

-----------------------------------------------------------------------------
(* Executing a claimed cancel                                              *)

\* captureLivePreEffect: a fresh snapshot must show the target working.  A
\* failed barrier fails the cancel and keeps the reservation.
PreEffect(p) ==
    LET g == proc[p].gen
    IN  /\ At(p, "claimed")
        /\ \/ /\ LiveMode => broker[g].state \in Working
              /\ Goto(p, IF LiveMode THEN "barrier" ELSE "call")
              /\ UNCHANGED <<bookVars, cancelVars, policyVars, brokerVars, integrity>>
           \/ LiveMode /\ CancelResolved(p, g, "failed") /\ Stop(p)

\* MarkAttemptSentWithManifest; when it fails the cancel stays claimed
MarkSent(p) ==
    LET g == proc[p].gen
    IN  /\ At(p, "barrier")
        /\ \/ /\ Holds(p, g) /\ ~sent[g]
              /\ sent' = [sent EXCEPT ![g] = TRUE]
              /\ Goto(p, "call")
              /\ UNCHANGED <<cancel, owner, leased, bookVars, policyVars, brokerVars, integrity>>
           \/ Stop(p) /\ UNCHANGED <<bookVars, cancelVars, policyVars, brokerVars, integrity>>

\* CancelOrder: the request leaves; its answer proves nothing
CancelOrder(p) ==
    /\ At(p, "call")
    /\ cancelSent' = [cancelSent EXCEPT ![proc[p].gen] = TRUE]
    /\ Goto(p, "query")
    /\ UNCHANGED <<broker, bookVars, cancelVars, policyVars, integrity>>

\* Mutant of QueryTarget: an accepted cancel counts as terminal proof.
AcceptanceIsProof(p) ==
    LET g == proc[p].gen
    IN  /\ At(p, "query")
        /\ \/ /\ proc' = [proc EXCEPT ![p].pc = "decide",
                                      ![p].read = [state |-> IF broker[g].state \in Terminal
                                                               THEN broker[g].state ELSE "cancelled",
                                                   filled |-> broker[g].filled]]
              /\ UNCHANGED <<bookVars, cancelVars, policyVars, brokerVars, integrity>>
           \/ CancelResolved(p, g, "unknown") /\ Stop(p)

\* Mutant of QueryTarget: fills that raced with the cancel are not read.
RacingFillsMissed(p) ==
    LET g == proc[p].gen
    IN  /\ At(p, "query")
        /\ \/ /\ broker[g].state \in Terminal
              /\ proc' = [proc EXCEPT ![p].pc = "decide",
                                      ![p].read = [state |-> broker[g].state, filled |-> filled[g]]]
              /\ UNCHANGED <<bookVars, cancelVars, policyVars, brokerVars, integrity>>
           \/ CancelResolved(p, g, "unknown") /\ Stop(p)

\* GetOrder: only a terminal read goes on, anything else (an error too) leaves
\* the cancel unknown
QueryTarget(p) ==
    LET g == proc[p].gen
    IN  /\ At(p, "query")
        /\ \/ /\ broker[g].state \in Terminal
              /\ proc' = [proc EXCEPT ![p].pc = "decide", ![p].read = broker[g]]
              /\ UNCHANGED <<bookVars, cancelVars, policyVars, brokerVars, integrity>>
           \/ CancelResolved(p, g, "unknown") /\ Stop(p)

\* finalizeRepriceResult before its transaction: policy is evaluated again and
\* a replacement needs market data; without either the cancel stays unknown
\* (deferTerminalReprice).
Decide(p) ==
    LET g == proc[p].gen
        undecided == proc[p].read.state # "filled" /\ ~proc[p].reason
    IN  /\ At(p, "decide")
        /\ \/ /\ proc' = [proc EXCEPT ![p].pc = "finalize",
                                      ![p].reason = @ \/ (undecided /\ PolicyReason(g))]
              /\ UNCHANGED <<bookVars, cancelVars, policyVars, brokerVars, integrity>>
           \/ undecided /\ CancelResolved(p, g, "unknown") /\ Stop(p)

-----------------------------------------------------------------------------
(* FinalizeRepriceCancel                                                   *)

\* Mutant of ReplacementAllowed: the count was checked before the transaction.
AllowedBefore(p, g) == ~proc[p].reason

\* The transaction checks the count again, under the policy lock.
ReplacementAllowed(p, g) == ~proc[p].reason /\ reprices[g] + 1 <= EffectiveMax

\* the broker's confirmed unfilled remainder
RemainderOf(g, r) == qty[g] - r.filled

\* A replacement attempt and order for the remainder, under the same reservation.
Replace(g, r) ==
    /\ HeldAfter(g, r, TRUE) = RemainderOf(g, r)
    /\ qty' = [qty EXCEPT ![g + 1] = RemainderOf(g, r)]
    /\ order' = [order EXCEPT ![g] = r.state, ![g + 1] = "new"]
    /\ place' = [place EXCEPT ![g] = IF @ = "placed" THEN "settled" ELSE @, ![g + 1] = "pending"]
    /\ reprices' = [reprices EXCEPT ![g] = @ + 1, ![g + 1] = reprices[g] + 1]
    /\ held' = HeldAfter(g, r, TRUE)
    /\ resource' = ResourceAfter(g, r, TRUE)
    /\ status' = IF HasFills(filled') THEN "executed" ELSE status

\* Mutant of Finish: a policy expiry fails the operation whatever it has filled.
FinishAsFailed(g, r) ==
    /\ order' = [order EXCEPT ![g] = r.state]
    /\ place' = [place EXCEPT ![g] = IF @ = "placed" THEN "settled" ELSE @]
    /\ held' = HeldAfter(g, r, FALSE)
    /\ resource' = ResourceAfter(g, r, FALSE)
    /\ status' = IF r.state = "filled" THEN "executed" ELSE "failed"
    /\ UNCHANGED <<qty, reprices>>

\* The order is filled, or policy ends it: what the reservation still holds is
\* released (releaseRepriceReservation).
Finish(g, r) ==
    /\ order' = [order EXCEPT ![g] = r.state]
    /\ place' = [place EXCEPT ![g] = IF @ = "placed" THEN "settled" ELSE @]
    /\ held' = HeldAfter(g, r, FALSE)
    /\ resource' = ResourceAfter(g, r, FALSE)
    /\ status' = IF r.state = "filled" THEN "executed" ELSE FailureStatus(filled')
    /\ UNCHANGED <<qty, reprices>>

\* FinalizeRepriceCancel: fills, order, placement, cancel, reservation and
\* replacement in one transaction.  A tightened interval or quote age may
\* suppress the replacement at any time.
FinalizeRepriceCancel(p) ==
    LET g == proc[p].gen
        r == proc[p].read
    IN  /\ At(p, "finalize")
        /\ Holds(p, g) /\ UpdateAccepted(g, r)
        /\ filled' = [filled EXCEPT ![g] = r.filled]
        /\ \/ Finish(g, r)
           \/ r.state # "filled" /\ ReplacementAllowed(p, g) /\ Replace(g, r)
        /\ cancel' = [cancel EXCEPT ![g] = "settled"]
        /\ leased' = [leased EXCEPT ![g] = FALSE]
        /\ Stop(p)
        /\ UNCHANGED <<owner, sent, policyVars, brokerVars, integrity>>

\* The fence is lost or the update is refused: nothing is written, unless the
\* update contradicts the books.
FinalizeRefused(p) ==
    LET g == proc[p].gen
        r == proc[p].read
    IN  /\ At(p, "finalize")
        /\ ~Holds(p, g) \/ ~UpdateAccepted(g, r)
        /\ integrity' = (integrity \/ (Holds(p, g) /\ Contradicts(g, r)))
        /\ Stop(p)
        /\ UNCHANGED <<bookVars, cancelVars, policyVars, brokerVars>>

-----------------------------------------------------------------------------
(* The replacement's placement                                             *)

\* ClaimPendingAttempt of the replacement: a claim without its entitlement
\* halts trading
ClaimReplacement(g) ==
    /\ place[g] = "pending"
    /\ place' = [place EXCEPT ![g] = IF Entitled(g) THEN "claimed" ELSE @]
    /\ integrity' = (integrity \/ ~Entitled(g))
    /\ UNCHANGED <<qty, order, filled, reprices, held, resource, status,
                   cancelVars, policyVars, brokerVars, proc>>

\* FailPendingAttempt, or a refusal of the claimed attempt before its send:
\* nothing has left.  Some refusals leave the order row as it is.
RefuseReplacement(g) ==
    /\ place[g] \in {"pending", "claimed"}
    /\ place' = [place EXCEPT ![g] = "failed"]
    /\ \E s \in {"rejected"} \cup (IF place[g] = "claimed" THEN {"new"} ELSE {}) :
         order' = [order EXCEPT ![g] = s]
    /\ held' = 0 /\ resource' = "released"
    /\ status' = FailureStatus(filled)
    /\ UNCHANGED <<qty, filled, reprices, cancelVars, policyVars, brokerVars, integrity, proc>>

\* the send marker, and the request (a halt may suppress it)
SendReplacement(g) ==
    /\ place[g] = "claimed"
    /\ place' = [place EXCEPT ![g] = "sent"]
    /\ UNCHANGED <<qty, order, filled, reprices, held, resource, status,
                   cancelVars, policyVars, brokerVars, integrity, proc>>

\* ResolveAttempt with what the broker said then or says now
ResolveReplacement(g) ==
    /\ place[g] = "sent" /\ broker[g].state # "none"
    /\ \E r \in {broker[g]} \cup (IF broker[g].state = "rejected" THEN {} ELSE {NoRead}) :
         /\ UpdateAccepted(g, r)
         /\ order' = [order EXCEPT ![g] = r.state]
         /\ filled' = [filled EXCEPT ![g] = r.filled]
         /\ held' = HeldAfter(g, r, FALSE)
         /\ resource' = ResourceAfter(g, r, FALSE)
         /\ place' = [place EXCEPT ![g] = PlacementAfter(r.state)]
         /\ status' = StatusAfterOrder(r.state, filled')
    /\ UNCHANGED <<qty, reprices, cancelVars, policyVars, brokerVars, integrity, proc>>

-----------------------------------------------------------------------------
(* The working-order reconciler                                            *)

\* reconcileWorkingOrders lists the working orders without unresolved cancel ...
ListOrder(g) ==
    LET p == "reconciler"
    IN  /\ At(p, "idle") /\ ~integrity
        /\ order[g] \in Working /\ cancel[g] \notin Unresolved
        /\ proc' = [proc EXCEPT ![p] = [Idle EXCEPT !.pc = "listed", !.gen = g]]
        /\ UNCHANGED <<bookVars, cancelVars, policyVars, brokerVars, integrity>>

\* ... and reads each at the broker, some time after
ReadListed ==
    LET p == "reconciler"
    IN  /\ At(p, "listed")
        /\ \/ proc' = [proc EXCEPT ![p].pc = "observed", ![p].read = broker[proc[p].gen]]
           \/ Stop(p)   \* the read fails
        /\ UNCHANGED <<bookVars, cancelVars, policyVars, brokerVars, integrity>>

\* ApplyOrderUpdate with a read that may be old by now
ApplyObserved ==
    LET p == "reconciler"
        g == proc[p].gen
        r == proc[p].read
    IN  /\ At(p, "observed") /\ Stop(p)
        /\ IF ~RepriceManaged(g) /\ UpdateAccepted(g, r)
             THEN /\ order' = [order EXCEPT ![g] = r.state]
                  /\ filled' = [filled EXCEPT ![g] = r.filled]
                  /\ held' = HeldAfter(g, r, FALSE)
                  /\ resource' = ResourceAfter(g, r, FALSE)
                  /\ place' = [place EXCEPT ![g] = IF @ = "placed" THEN PlacementAfter(r.state) ELSE @]
                  /\ status' = StatusAfterOrder(r.state, filled')
                  /\ UNCHANGED <<qty, reprices, integrity>>
             ELSE /\ integrity' = (integrity \/ (~RepriceManaged(g) /\ Contradicts(g, r)))
                  /\ UNCHANGED bookVars
        /\ UNCHANGED <<cancelVars, policyVars, brokerVars>>

-----------------------------------------------------------------------------
(* The broker (external) and crashes                                       *)

BrokerMoves(g, s, f) ==
    /\ broker' = [broker EXCEPT ![g] = [state |-> s, filled |-> f]]
    /\ UNCHANGED <<cancelSent, bookVars, cancelVars, policyVars, integrity, proc>>

BrokerAccepts(g) ==
    /\ place[g] = "sent" /\ broker[g].state = "none"
    /\ \E s \in {"submitted", "rejected"} : BrokerMoves(g, s, 0)

BrokerFills(g) ==
    /\ broker[g].state \in Working
    /\ LET f == broker[g].filled + 1
       IN  BrokerMoves(g, IF f = qty[g] THEN "filled" ELSE "partially_filled", f)

\* an order ends by itself, or by the hand of its owner
BrokerEnds(g) ==
    /\ broker[g].state \in Working
    /\ \E s \in {"cancelled", "expired"} \cup (IF broker[g].filled = 0 THEN {"rejected"} ELSE {}) :
         BrokerMoves(g, s, broker[g].filled)

\* the cancel request arrives, late perhaps, or never
BrokerCancels(g) ==
    /\ cancelSent[g] /\ broker[g].state \in Working
    /\ BrokerMoves(g, "cancelled", broker[g].filled)

RepriceCrash ==
    /\ \E p \in Procs : proc[p] # Idle
    /\ proc' = [p \in Procs |-> Idle]
    /\ UNCHANGED <<bookVars, cancelVars, policyVars, brokerVars, integrity>>

-----------------------------------------------------------------------------
ProcStep(p) ==
    \/ PreEffect(p) \/ MarkSent(p) \/ CancelOrder(p) \/ QueryTarget(p) \/ Decide(p)
    \/ FinalizeRepriceCancel(p) \/ FinalizeRefused(p)

Recover(g) == ClaimPendingCancel(g) \/ ClaimUncertainCancel(g)

RepriceRunning ==
    \/ ChangePolicy
    \/ ClaimStaged
    \/ ReadListed
    \/ ApplyObserved
    \/ \E p \in Procs : ProcStep(p)
    \/ \E g \in Gens :
         \/ StageRepriceCancel(g) \/ Recover(g) \/ LeaseExpires(g) \/ ListOrder(g)
         \/ ClaimReplacement(g) \/ RefuseReplacement(g) \/ SendReplacement(g) \/ ResolveReplacement(g)
         \/ BrokerAccepts(g) \/ BrokerFills(g) \/ BrokerEnds(g) \/ BrokerCancels(g)

RepriceNext == RepriceRunning \/ RepriceCrash

RepriceSpec == RepriceInit /\ [][RepriceNext]_repriceVars

\* startAttemptReconciler ticks for ever, its calls run under timeouts and a
\* lease ends by the clock.  The broker answers and market data comes back
\* infinitely often, the repricer's tick does not always fall between the
\* reconciler's list, read and update, and in the end kernels stay up.
RepriceLiveSpec ==
    /\ RepriceSpec
    /\ <>[][RepriceRunning]_repriceVars
    /\ WF_repriceVars(ClaimStaged) /\ WF_repriceVars(ReadListed) /\ WF_repriceVars(ApplyObserved)
    /\ SF_repriceVars(ReadListed /\ proc'["reconciler"].pc = "observed"
                 /\ ~RepriceManaged(proc["reconciler"].gen))
    /\ SF_repriceVars(ApplyObserved /\ ~RepriceManaged(proc["reconciler"].gen))
    /\ \A p \in Procs : WF_repriceVars(ProcStep(p))
    /\ SF_repriceVars(QueryTarget("reconciler") /\ proc'["reconciler"].pc = "decide")
    /\ SF_repriceVars(Decide("reconciler") /\ proc'["reconciler"].pc = "finalize")
    /\ WF_repriceVars(\E g \in Gens : LeaseExpires(g) \/ ResolveReplacement(g))
    /\ SF_repriceVars(\E g \in Gens : Recover(g))
    /\ SF_repriceVars(\E g \in Gens : ListOrder(g))

-----------------------------------------------------------------------------
(* Properties                                                              *)

\* Every column and every goroutine's memory is in its type.
RepriceTypeOK ==
    /\ place \in [Gens -> {"none", "settled", "failed"} \cup PlaceLive]
    /\ qty \in [Gens -> 0..Qty] /\ filled \in [Gens -> 0..Qty]
    /\ order \in [Gens -> {"none", "new"} \cup Working \cup Terminal]
    /\ reprices \in [Gens -> 0..MaxReprices]
    /\ cancel \in [Gens -> {"none", "settled", "failed"} \cup Unresolved]
    /\ owner \in [Gens -> Procs \cup {"none"}]
    /\ leased \in [Gens -> BOOLEAN] /\ sent \in [Gens -> BOOLEAN]
    /\ held \in 0..Qty /\ resource \in {"held", "released", "converted"}
    /\ status \in {"auto_approved", "executed", "failed"}
    /\ integrity \in BOOLEAN /\ ledgerHalted \in BOOLEAN
    /\ mode \in Modes /\ policyMax \in 0..(MaxReprices + 1)
    /\ broker \in [Gens -> [state : {"none"} \cup Working \cup Terminal, filled : 0..Qty]]
    /\ cancelSent \in [Gens -> BOOLEAN]
    /\ proc \in [Procs -> [pc : Pcs, gen : Gens, reason : BOOLEAN, read : OrderRead]]

\* what the broker may still fill of an order that is, or may become, working
MayFill(g) ==
    IF broker[g].state \in Working THEN qty[g] - broker[g].filled
    ELSE IF broker[g].state = "none" /\ place[g] \in {"pending", "claimed", "sent"} THEN qty[g]
    ELSE 0

\* The operation never fills more than its quantity, whatever fills race with
\* the cancel: a replacement is staged only for what a proved terminal order
\* left (FinalizeRepriceCancel).
NeverOverfill ==
    LET sum[g \in 0..(MaxReprices + 1)] ==
            IF g = 0 THEN 0 ELSE sum[g - 1] + broker[g].filled + MayFill(g)
    IN  sum[MaxReprices + 1] <= Qty

\* An order that works at the broker, or may come to work there, is backed by
\* the one reservation for exactly what the books have not seen filled, across
\* cancel, crash and replacement.
WorkingIsBacked ==
    \A g \in Gens :
        broker[g].state \in Working \/ place[g] \in PlaceLive =>
            resource = "held" /\ held = Remaining(g)

\* A terminal order in the books is the broker's last word with all its fills,
\* although the repricer and the reconciler read the broker independently
\* (errRepriceManagedOrder).
BooksFinal ==
    \A g \in Gens :
        order[g] \in Terminal /\ broker[g].state # "none" =>
            order[g] = broker[g].state /\ filled[g] = broker[g].filled

\* No interleaving of one kernel's own reads and updates looks like a broker
\* that contradicts itself, so none halts trading (ErrFillIntegrity).
NoIntegrityHalt == ~integrity

\* Nothing holds the reservation after the last attempt is over, and the
\* operation is executed exactly if something was filled
\* (operationStatusAfterFailedAttempt, releaseRepriceReservation).
OverIsSettled ==
    (\A g \in Gens : place[g] \notin PlaceLive) =>
        resource # "held" /\ held = 0 /\ status = FailureStatus(filled)

\* A replacement is staged only within the count that was authorised and the
\* count in force at that moment: a policy tightened while the broker processed
\* the cancel still counts (FinalizeRepriceCancel's recheck).
WithinPolicy ==
    [][\A g \in Gens : place[g] = "none" /\ place'[g] = "pending" => reprices'[g] <= EffectiveMax]_repriceVars

\* Whatever ended at the broker ends in the books, and its cancel with it.
RepriceSettles ==
    \A g \in Gens :
        broker[g].state \in Terminal ~> (order[g] \in Terminal /\ cancel[g] \notin Unresolved)

\* What a reprice may never do, under any order of its steps: overfill, work
\* unbacked, book what the broker did not say, halt itself, or end with
\* resources held (repricer.go, repricing.go).
RepriceSafe ==
    /\ RepriceTypeOK
    /\ NeverOverfill /\ WorkingIsBacked /\ BooksFinal /\ NoIntegrityHalt /\ OverIsSettled
=============================================================================
