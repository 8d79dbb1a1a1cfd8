--------------------------- MODULE ExecutionStore ---------------------------
(***************************************************************************)
(* The durable half of order execution: the execution_attempt, orders,     *)
(* open_reservation/close_reservation and live_execution_gate rows of      *)
(* kernel/internal/store, and the PostgreSQL transactions that write them. *)
(* Every transaction takes its row and advisory locks before it reads what *)
(* it decides on, so each is one atomic action here.                       *)
(*                                                                         *)
(* The module says what the store guarantees whoever calls it: the         *)
(* transactions may be invoked by any worker, in any order, with any       *)
(* fencing token.  Module LiveExecution adds the workers and the broker.   *)
(*                                                                         *)
(* One operation has one attempt here (seq = 1).  Reprice cancels and      *)
(* replacements (seq > 1) are another component.                           *)
(***************************************************************************)
EXTENDS Naturals, FiniteSets

CONSTANTS
    Attempts,     \* execution_attempt ids; also names the broker order of its client_order_id
    NoAttempt,    \* SQL NULL
    Kind,         \* what an attempt does: see Kinds
    Legacy,       \* attempts left unresolved by a run in a mode without the gate
    Qty,          \* quantity of an order
    MaxToken      \* bound on claims of one attempt

\* intent = 'place' for an opening or a closing operation, 'cancel', 'paper_place'
Kinds == {"open", "close", "cancel", "paper"}

ASSUME NoAttemptAssumption == NoAttempt \notin Attempts
ASSUME KindAssumption == Kind \in [Attempts -> Kinds]
ASSUME LegacyAssumption == Legacy \subseteq {a \in Attempts : Kind[a] \in {"open", "close"}}
ASSUME QtyAssumption == Qty \in Nat \ {0}
ASSUME MaxTokenAssumption == MaxToken \in Nat \ {0}

VARIABLES
    state,      \* execution_attempt.state, "none" before the row exists
    token,      \* execution_attempt.attempt, the fencing token
    leased,     \* lease_expires_at is in the future
    sent,       \* sent_at is set
    replays,    \* replay_count
    candidate,  \* candidate_broker_order_id
    active,     \* live_execution_gate.active_attempt_id
    unknown,    \* live_execution_gate.unknown_attempt_id
    halted,     \* the last global_halt_transition: "no", "admin" or "integrity"
    order,      \* orders.state of the attempt's order
    boundOrder, \* orders.broker_order_id
    filled,     \* sum of the order's durable fills
    reserved,   \* state of the attempt's open or close reservation
    status      \* operations.status

attemptVars == <<state, token, leased, sent, replays, candidate>>
gateVars == <<active, unknown>>
bookVars == <<order, boundOrder, filled, reserved, status>>
storeVars == <<attemptVars, gateVars, halted, bookVars>>

AttemptStates == {"none", "pending", "claimed", "placed", "unknown", "settled", "failed"}
OrderStates == {"none", "new", "submitted", "partially_filled", "filled",
                "cancelled", "rejected", "expired"}
ReservationStates == {"none", "held", "released", "converted"}
Statuses == {"none", "auto_approved", "executed", "failed"}
HaltStates == {"no", "admin", "integrity"}

IsPlace(a) == Kind[a] \in {"open", "close"}
\* useLiveGate: a paper placement never touches the gate
UsesGate(a) == Kind[a] # "paper"
HasOrder(a) == Kind[a] # "cancel"

Unresolved(a) == UsesGate(a) /\ state[a] \in {"claimed", "unknown"}
GateEmpty == active = NoAttempt /\ unknown = NoAttempt
UnresolvedOther(a) == \E b \in Attempts \ {a} : Unresolved(b)

TerminalUnfilled == {"cancelled", "rejected", "expired"}

\* validateM3AExecutionEntitlement: the reservation stands where the order does
Entitled(a) ==
    reserved[a] = CASE order[a] = "filled" -> IF Kind[a] = "close" THEN "released" ELSE "converted"
                    [] order[a] \in TerminalUnfilled -> "released"
                    [] OTHER -> "held"

StoreInit ==
    /\ state \in {s \in [Attempts -> {"none", "claimed", "unknown"}] :
                    \A a \in Attempts : (s[a] # "none") <=> (a \in Legacy)}
    /\ token = [a \in Attempts |-> IF a \in Legacy THEN 1 ELSE 0]
    /\ leased = [a \in Attempts |-> FALSE]
    /\ sent = [a \in Attempts |-> FALSE]
    /\ replays = [a \in Attempts |-> 0]
    /\ candidate = [a \in Attempts |-> NoAttempt]
    /\ active = NoAttempt
    /\ unknown = NoAttempt
    /\ halted = "no"
    /\ order = [a \in Attempts |-> IF a \in Legacy THEN "new" ELSE "none"]
    /\ boundOrder = [a \in Attempts |-> NoAttempt]
    /\ filled = [a \in Attempts |-> 0]
    /\ reserved = [a \in Attempts |-> IF a \in Legacy THEN "held" ELSE "none"]
    /\ status = [a \in Attempts |-> IF a \in Legacy THEN "auto_approved" ELSE "none"]

-----------------------------------------------------------------------------
(* Admission, claims and the send marker                                   *)

\* RequireLiveExecutionIdle and the rows a live proposal inserts in the same
\* transaction.  A paper proposal needs no gate.
StageAttempt(a) ==
    /\ state[a] = "none"
    /\ UsesGate(a) => GateEmpty
    /\ Kind[a] = "open" => halted = "no"
    /\ state' = [state EXCEPT ![a] = "pending"]
    /\ order' = [order EXCEPT ![a] = IF HasOrder(a) THEN "new" ELSE @]
    /\ reserved' = [reserved EXCEPT ![a] = IF HasOrder(a) THEN "held" ELSE @]
    /\ status' = [status EXCEPT ![a] = "auto_approved"]
    /\ UNCHANGED <<token, leased, sent, replays, candidate, gateVars, halted,
                   boundOrder, filled>>

\* Mutant of GateAllows: a claimed attempt that the gate calls active is busy.
GateNeverReclaims(a, expected) ==
    \/ ~UsesGate(a)
    \/ GateEmpty /\ ~UnresolvedOther(a)
    \/ expected \in {"claimed", "unknown"} /\ unknown = a /\ active = NoAttempt

\* The gate's answer to a claim of a by a caller that expects this state.
GateAllows(a, expected) ==
    \/ ~UsesGate(a)
    \/ GateEmpty /\ ~UnresolvedOther(a)
    \/ expected = "claimed" /\ active = a /\ unknown = NoAttempt
    \/ expected \in {"claimed", "unknown"} /\ unknown = a /\ active = NoAttempt

\* claimAttempt: the claim takes a new fencing token and a new lease.  A
\* recovered unknown attempt keeps the unknown latch, any other holds the
\* active one.  A claim whose entitlement fails would halt trading
\* (recordExecutionEntitlementFailure); ClaimableIsEntitled shows that none does.
ClaimAttempt(a, expected, expectedToken) ==
    LET recoveringUnknown == expected = "unknown" \/ (expected = "claimed" /\ unknown = a)
    IN  /\ GateAllows(a, expected)
        /\ state[a] = expected
        /\ expected # "pending" => token[a] = expectedToken
        /\ expected = "claimed" => ~leased[a]
        /\ HasOrder(a) => Entitled(a)
        /\ token[a] < MaxToken
        /\ state' = [state EXCEPT ![a] = "claimed"]
        /\ token' = [token EXCEPT ![a] = @ + 1]
        /\ leased' = [leased EXCEPT ![a] = TRUE]
        /\ active' = IF UsesGate(a) /\ ~recoveringUnknown THEN a ELSE active
        /\ unknown' = IF UsesGate(a) /\ recoveringUnknown THEN a ELSE unknown
        /\ UNCHANGED <<sent, replays, candidate, halted, bookVars>>

\* clock_timestamp() passes lease_expires_at
LeaseExpires(a) ==
    /\ state[a] = "claimed" /\ leased[a]
    /\ leased' = [leased EXCEPT ![a] = FALSE]
    /\ UNCHANGED <<state, token, sent, replays, candidate, gateVars, halted, bookVars>>

\* markAttemptSent reads the gate and the fenced row before anything else
SendFenceHeld(a, tok, replay) ==
    /\ state[a] = "claimed" /\ token[a] = tok
    /\ IF replay THEN unknown = a /\ active = NoAttempt
                 ELSE active = a /\ unknown = NoAttempt

\* Mutant of SendHalted: Halt stops replays and forgets first sends.
HaltStopsReplays(a, replay) == halted # "no" /\ replay

\* ... and then the Halt switch, under the lock every Halt transition takes
SendHalted(a, replay) == halted # "no" /\ (replay \/ Kind[a] = "open")

\* The first send: sent_at and the send window, once.
MarkAttemptSent(a, tok) ==
    /\ SendFenceHeld(a, tok, FALSE)
    /\ ~SendHalted(a, FALSE)
    /\ ~sent[a]
    /\ sent' = [sent EXCEPT ![a] = TRUE]
    /\ UNCHANGED <<state, token, leased, replays, candidate, gateVars, halted, bookVars>>

\* The one same-reference replay of a placement whose outcome is unknown.
MarkAttemptReplayed(a, tok) ==
    /\ SendFenceHeld(a, tok, TRUE)
    /\ ~SendHalted(a, TRUE)
    /\ IsPlace(a) /\ sent[a] /\ replays[a] = 0
    /\ replays' = [replays EXCEPT ![a] = 1]
    /\ UNCHANGED <<state, token, leased, sent, candidate, gateVars, halted, bookVars>>

-----------------------------------------------------------------------------
(* Order updates                                                           *)

\* What a provider read says of an order: its id, state and cumulative fills.
OrderUpdate == [bid : Attempts \cup {NoAttempt}, state : OrderStates, filled : 0..Qty]

\* the reads the provider adapter lets through
ProviderRead(u) ==
    /\ u.bid # NoAttempt
    /\ \/ u.state \in {"submitted", "rejected"} /\ u.filled = 0
       \/ u.state = "partially_filled" /\ u.filled \in 1..(Qty - 1)
       \/ u.state = "filled" /\ u.filled = Qty
       \/ u.state \in {"cancelled", "expired"} /\ u.filled < Qty

NoUpdate == [bid |-> NoAttempt, state |-> "none", filled |-> 0]

\* Mutant of Advances: a submitted order cannot expire.
AdvancesWithoutExpiry(current, next) ==
    \/ current = "new" /\ next \in {"submitted", "rejected"}
    \/ current = "submitted" /\ next \in {"partially_filled", "filled", "cancelled", "rejected"}
    \/ current = "partially_filled" /\ next \in {"filled", "cancelled", "expired"}

Advances(current, next) ==
    \/ current = "new" /\ next \in {"submitted", "rejected"}
    \/ current = "submitted" /\ next \in {"partially_filled", "filled", "cancelled", "rejected", "expired"}
    \/ current = "partially_filled" /\ next \in {"filled", "cancelled", "expired"}

\* validateOrderTransition: a new order may be seen first in any later state
LegalTransition(current, next) ==
    \/ current = next
    \/ Advances(current, next)
    \/ current = "new" /\ Advances("submitted", next)

\* Mutant of OwnedElsewhere: no UNIQUE index on broker_order_id.
NeverOwned(a, u) == FALSE

OwnedElsewhere(a, u) == u.bid # NoAttempt /\ \E b \in Attempts \ {a} : boundOrder[b] = u.bid

\* Fills are deduplicated by broker_fill_id: an update may not lose durable
\* fills, nor bring fills that another order already owns.
FillsContradict(a, u) ==
    \/ filled[a] > u.filled
    \/ u.state = "filled" /\ u.filled # Qty
    \/ u.filled > 0 /\ \E b \in Attempts \ {a} : boundOrder[b] = u.bid /\ filled[b] > 0

IdentityChanged(a, u) == boundOrder[a] # NoAttempt /\ u.bid \notin {NoAttempt, boundOrder[a]}

\* applyOrderUpdate fails with ErrFillIntegrity
UpdateContradicts(a, u) ==
    \/ IdentityChanged(a, u)
    \/ LegalTransition(order[a], u.state) /\ (~Entitled(a) \/ FillsContradict(a, u))

\* applyOrderUpdate commits.  An illegal transition, or a broker id that the
\* UNIQUE index of another order holds, is an error that only rolls back.
UpdateAccepted(a, u) ==
    /\ ~UpdateContradicts(a, u)
    /\ LegalTransition(order[a], u.state)
    /\ ~OwnedElsewhere(a, u)

\* Mutant of OrderUpdated: the fills of a cancelled or expired order are dropped.
TerminalDropsFills(a, u) ==
    /\ order' = [order EXCEPT ![a] = u.state]
    /\ boundOrder' = [boundOrder EXCEPT ![a] = IF u.bid = NoAttempt THEN @ ELSE u.bid]
    /\ filled' = [filled EXCEPT ![a] = IF u.state \in TerminalUnfilled THEN @ ELSE u.filled]

\* The rows an accepted update writes
OrderUpdated(a, u) ==
    /\ order' = [order EXCEPT ![a] = u.state]
    /\ boundOrder' = [boundOrder EXCEPT ![a] = IF u.bid = NoAttempt THEN @ ELSE u.bid]
    /\ filled' = [filled EXCEPT ![a] = u.filled]

\* The reservation after an accepted update: fills consume it, a terminal order
\* releases what is left.
ReservationAfter(a, u) ==
    IF reserved[a] # "held" THEN reserved[a]
    ELSE IF u.filled = Qty THEN (IF Kind[a] = "close" THEN "released" ELSE "converted")
    ELSE IF u.state \in TerminalUnfilled THEN "released" ELSE "held"

\* operationStatusAfterFailedAttempt: an operation with fills has executed
StatusAfter(requested, fills) ==
    IF requested = "failed" /\ fills > 0 THEN "executed" ELSE requested

-----------------------------------------------------------------------------
(* Resolutions                                                             *)

NoStatus == "none"

\* AttemptResolution: the new state, an order update, whether to release the
\* reservation, a candidate to record, and the operation's status.
Resolution(st, u, release, cand, stat) ==
    [state |-> st, update |-> u, release |-> release, candidate |-> cand, status |-> stat]

\* refused before any provider effect, the order row left as it is
Refusal == Resolution("failed", NoUpdate, TRUE, NoAttempt, "failed")
\* refused before any provider effect, the order row rejected
RejectedRefusal ==
    Resolution("failed", [bid |-> NoAttempt, state |-> "rejected", filled |-> 0],
               TRUE, NoAttempt, "failed")
\* Mutant of Uncertain: an unknown outcome gives the reservation back.
UncertainReleases(cand) == Resolution("unknown", NoUpdate, TRUE, cand, NoStatus)

\* keepAttemptUnknown
Uncertain(cand) == Resolution("unknown", NoUpdate, FALSE, cand, NoStatus)

\* Mutant of ResolutionForOrder: an accepted cancel counts as a done one.
CancelTakenAtItsWord(a, u) ==
    LET isCancel == Kind[a] = "cancel"
        upd == IF isCancel THEN NoUpdate ELSE u
        zeroFillClose == Kind[a] = "close" /\ u.filled = 0
    IN  CASE u.state = "filled" -> Resolution("settled", upd, FALSE, NoAttempt, "executed")
          [] u.state = "rejected" -> Resolution("failed", upd, zeroFillClose, NoAttempt, "failed")
          [] u.state \in {"cancelled", "expired"} ->
                Resolution("settled", upd, zeroFillClose, NoAttempt,
                           IF isCancel THEN "executed" ELSE "failed")
          [] OTHER -> Resolution(IF isCancel THEN "settled" ELSE "placed", upd,
                                 FALSE, NoAttempt, NoStatus)

\* resolutionForOrder
ResolutionForOrder(a, u) ==
    LET isCancel == Kind[a] = "cancel"
        upd == IF isCancel THEN NoUpdate ELSE u
        zeroFillClose == Kind[a] = "close" /\ u.filled = 0
    IN  CASE u.state = "filled" -> Resolution("settled", upd, FALSE, NoAttempt, "executed")
          [] u.state = "rejected" -> Resolution("failed", upd, zeroFillClose, NoAttempt, "failed")
          [] u.state \in {"cancelled", "expired"} ->
                Resolution("settled", upd, zeroFillClose, NoAttempt,
                           IF isCancel THEN "executed" ELSE "failed")
          [] OTHER -> Resolution(IF isCancel THEN "unknown" ELSE "placed", upd,
                                 FALSE, NoAttempt, NoStatus)

Resolutions(a) ==
    {Refusal}
    \cup (IF IsPlace(a) THEN {RejectedRefusal} ELSE {})
    \cup {Uncertain(c) : c \in Attempts \cup {NoAttempt}}
    \cup {[ResolutionForOrder(a, u) EXCEPT !.candidate = c] :
             u \in {v \in OrderUpdate : ProviderRead(v)}, c \in Attempts \cup {NoAttempt}}

\* the fenced UPDATE of ResolveAttempt finds its row
ResolveFenceHeld(a, tok, r) ==
    /\ state[a] = "claimed" /\ token[a] = tok
    /\ r.candidate = NoAttempt \/ candidate[a] \in {NoAttempt, r.candidate}

\* ResolveAttempt commits: attempt, order, gate, operation and reservation.
ResolveAttempt(a, tok, r) ==
    /\ ResolveFenceHeld(a, tok, r)
    /\ IF r.update = NoUpdate
         THEN UNCHANGED <<order, boundOrder, filled>>
         ELSE UpdateAccepted(a, r.update) /\ OrderUpdated(a, r.update)
    /\ LET afterUpdate == IF r.update = NoUpdate THEN reserved[a] ELSE ReservationAfter(a, r.update)
       IN  reserved' = [reserved EXCEPT ![a] =
                          IF r.release /\ afterUpdate = "held" THEN "released" ELSE afterUpdate]
    /\ state' = [state EXCEPT ![a] = r.state]
    /\ candidate' = [candidate EXCEPT ![a] = IF @ = NoAttempt THEN r.candidate ELSE @]
    /\ IF r.state = "unknown"
         THEN /\ active' = IF active = a THEN NoAttempt ELSE active
              /\ unknown' = IF active = a THEN a ELSE unknown
         ELSE /\ active' = IF active = a THEN NoAttempt ELSE active
              /\ unknown' = IF unknown = a THEN NoAttempt ELSE unknown
    /\ status' = [status EXCEPT ![a] =
                    IF r.status = NoStatus THEN @ ELSE StatusAfter(r.status, filled'[a])]
    /\ leased' = [leased EXCEPT ![a] = FALSE]   \* read only of a claimed attempt
    /\ UNCHANGED <<token, sent, replays, halted>>

\* recordIntegrityFailure: the update rolled back and trading is halted.
IntegrityHalt ==
    /\ halted' = IF halted = "no" THEN "integrity" ELSE halted
    /\ UNCHANGED <<attemptVars, gateVars, bookVars>>

\* ResolveAttempt with an update that contradicts the durable fills
ResolveIntegrityFailure(a, tok, r) ==
    /\ ResolveFenceHeld(a, tok, Uncertain(NoAttempt))
    /\ r.update # NoUpdate /\ UpdateContradicts(a, r.update)
    /\ IntegrityHalt

\* FailPendingAttempt: nothing has reached the broker yet.
FailPendingAttempt(a) ==
    /\ state[a] = "pending"
    /\ state' = [state EXCEPT ![a] = "failed"]
    /\ status' = [status EXCEPT ![a] = StatusAfter("failed", filled[a])]
    /\ order' = [order EXCEPT ![a] = IF @ = "new" /\ boundOrder[a] = NoAttempt THEN "rejected" ELSE @]
    /\ reserved' = [reserved EXCEPT ![a] = IF @ = "held" THEN "released" ELSE @]
    /\ UNCHANGED <<token, leased, sent, replays, candidate, gateVars, halted,
                   boundOrder, filled>>

\* ApplyOrderUpdate: a reconciler advances a working order; a terminal order
\* also moves its placed attempt (terminalPlacementState).
ApplyOrderUpdate(a, u) ==
    LET attemptState == CASE u.state = "rejected" -> "failed"
                          [] u.state \in {"filled", "cancelled", "expired"} -> "settled"
                          [] OTHER -> state[a]
        terminal == u.state \in TerminalUnfilled \cup {"filled"}
    IN  /\ UpdateAccepted(a, u)
        /\ OrderUpdated(a, u)
        /\ reserved' = [reserved EXCEPT ![a] = ReservationAfter(a, u)]
        /\ state' = [state EXCEPT ![a] = IF @ = "placed" THEN attemptState ELSE @]
        /\ status' = [status EXCEPT ![a] =
                        IF terminal
                          THEN StatusAfter(IF u.state = "filled" THEN "executed" ELSE "failed", u.filled)
                          ELSE @]
        /\ UNCHANGED <<token, leased, sent, replays, candidate, gateVars, halted>>

ApplyIntegrityFailure(a, u) ==
    /\ UpdateContradicts(a, u)
    /\ IntegrityHalt

-----------------------------------------------------------------------------
(* The global halt                                                         *)

\* ActivateGlobalHalt: a second Halt keeps the first cut.
ActivateGlobalHalt ==
    /\ halted' = IF halted = "no" THEN "admin" ELSE halted
    /\ UNCHANGED <<attemptVars, gateVars, bookVars>>

\* Mutant of ResumeGlobalHalt: the gate is not consulted.
ResumeAnyTime ==
    /\ halted # "no"
    /\ halted' = "no"
    /\ UNCHANGED <<attemptVars, gateVars, bookVars>>

\* ResumeGlobalHalt refuses while an attempt is active or unknown.
ResumeGlobalHalt ==
    /\ halted # "no"
    /\ GateEmpty
    /\ halted' = "no"
    /\ UNCHANGED <<attemptVars, gateVars, bookVars>>

-----------------------------------------------------------------------------
(* The store under arbitrary callers                                       *)

\* Whoever calls with whatever token it once held.  ApplyOrderUpdate is called
\* for orders that ListWorkingOrders returned, which are past "new".
StoreNext ==
    \/ ActivateGlobalHalt
    \/ ResumeGlobalHalt
    \/ \E a \in Attempts :
         \/ StageAttempt(a)
         \/ FailPendingAttempt(a)
         \/ LeaseExpires(a)
         \/ \E expected \in {"pending", "claimed", "unknown"}, tok \in 0..MaxToken :
               ClaimAttempt(a, expected, tok)
         \/ \E tok \in 0..MaxToken :
               \/ MarkAttemptSent(a, tok)
               \/ MarkAttemptReplayed(a, tok)
         \/ /\ state[a] = "claimed"
            /\ \E r \in Resolutions(a), tok \in 0..MaxToken :
                  \/ ResolveAttempt(a, tok, r)
                  \/ ResolveIntegrityFailure(a, tok, r)
         \/ /\ order[a] \notin {"none", "new"}
            /\ \E u \in OrderUpdate :
                 /\ ProviderRead(u)
                 /\ ApplyOrderUpdate(a, u) \/ ApplyIntegrityFailure(a, u)

StoreSpec == StoreInit /\ [][StoreNext]_storeVars

-----------------------------------------------------------------------------
(* Properties                                                              *)

\* Every column holds a value of its type and every counter is in its bound.
StoreTypeOK ==
    /\ state \in [Attempts -> AttemptStates]
    /\ token \in [Attempts -> 0..MaxToken]
    /\ leased \in [Attempts -> BOOLEAN]
    /\ sent \in [Attempts -> BOOLEAN]
    /\ replays \in [Attempts -> 0..1]
    /\ candidate \in [Attempts -> Attempts \cup {NoAttempt}]
    /\ active \in Attempts \cup {NoAttempt}
    /\ unknown \in Attempts \cup {NoAttempt}
    /\ halted \in HaltStates
    /\ order \in [Attempts -> OrderStates]
    /\ boundOrder \in [Attempts -> Attempts \cup {NoAttempt}]
    /\ filled \in [Attempts -> 0..Qty]
    /\ reserved \in [Attempts -> ReservationStates]
    /\ status \in [Attempts -> Statuses]

\* The live account has at most one attempt between claim and resolution, and
\* the gate row names it, as active or as unknown and never as both: this is
\* what lets one claim decide from the gate alone (claimAttempt).  Attempts that
\* a gateless mode left behind are the exception until the gate takes one over,
\* and while they exist it takes nothing else.
GateExclusive ==
    /\ active = NoAttempt \/ unknown = NoAttempt
    /\ \A a \in Attempts : Unresolved(a) => a \in {active, unknown} \/ (a \in Legacy /\ GateEmpty)
    /\ \A a \in {active, unknown} \ {NoAttempt} :
         /\ Unresolved(a)
         /\ \A b \in Attempts : Unresolved(b) => b = a

\* An attempt that may still be claimed holds its whole reservation behind an
\* untouched order, so the entitlement check of a claim never fails and
\* recovery always finds the resources it was granted.
ClaimableIsEntitled ==
    \A a \in Attempts :
        (HasOrder(a) /\ state[a] \in {"pending", "claimed", "unknown"}) =>
            /\ order[a] = "new" /\ reserved[a] = "held"
            /\ filled[a] = 0 /\ boundOrder[a] = NoAttempt

\* A provider order belongs to one durable order, and an order keeps it.
BindingUnique ==
    \A a, b \in Attempts :
        boundOrder[a] # NoAttempt /\ boundOrder[a] = boundOrder[b] => a = b

\* Fills are never lost, tokens and replay counts never go back, a resolved
\* attempt and a terminal order never change again, and a reservation once let
\* go is never held again.
DurableHistory ==
    [][\A a \in Attempts :
         /\ filled'[a] >= filled[a] /\ token'[a] >= token[a] /\ replays'[a] >= replays[a]
         /\ state[a] \in {"settled", "failed"} => state'[a] = state[a]
         /\ order[a] \in TerminalUnfilled \cup {"filled"} => order'[a] = order[a]
         /\ reserved[a] \in {"released", "converted"} => reserved'[a] = reserved[a]]_storeVars

\* What the transactions keep between them, under any calls: one unresolved live
\* attempt, entitled claims, and provider orders bound once.
StoreSafe == StoreTypeOK /\ GateExclusive /\ ClaimableIsEntitled /\ BindingUnique
=============================================================================
