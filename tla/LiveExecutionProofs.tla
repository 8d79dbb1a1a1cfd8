------------------------ MODULE LiveExecutionProofs ------------------------
(***************************************************************************)
(* Proofs about the execution of attempts, for every set of attempts and   *)
(* workers, every quantity and every bound on claims.                      *)
(*                                                                         *)
(* ExecutionStore: whoever calls its transactions, in any order and with   *)
(* any fencing token, one attempt owns the live gate, a claimable attempt  *)
(* is entitled, an order belongs to one attempt and history is kept.       *)
(*                                                                         *)
(* LiveExecution: the workers call the store only as ExecutionStore        *)
(* allows, and no interleaving of their crashes, retries and stale reads   *)
(* with the broker loses, doubles or misattributes an order.               *)
(***************************************************************************)
EXTENDS LiveExecution, FiniteSetTheorems, TLAPS

-----------------------------------------------------------------------------
(* The execution store                                                     *)

\* What a caller may hand to ResolveAttempt.
ResolutionShape ==
    [state : {"unknown", "placed", "settled", "failed"}, update : OrderUpdate,
     release : BOOLEAN, candidate : Attempts \cup {NoAttempt}, status : Statuses]

\* Every resolution the callers of ResolveAttempt build has that shape.
LEMMA ResolutionTyped ==
    ASSUME NEW a \in Attempts, NEW r \in Resolutions(a)
    PROVE  r \in ResolutionShape
<1> USE DEF ResolutionShape, Resolution, Statuses
<1>0. NoUpdate \in OrderUpdate
    BY QtyAssumption DEF NoUpdate, OrderUpdate, OrderStates
<1>1. CASE r = Refusal
    BY <1>0, <1>1 DEF Refusal
<1>2. CASE r = RejectedRefusal
    BY <1>2, QtyAssumption DEF RejectedRefusal, OrderUpdate, OrderStates
<1>3. ASSUME NEW c \in Attempts \cup {NoAttempt}, r = Uncertain(c)
      PROVE  r \in ResolutionShape
    BY <1>0, <1>3 DEF Uncertain, NoStatus
<1>4. ASSUME NEW u \in OrderUpdate, NEW c \in Attempts \cup {NoAttempt},
             r = [ResolutionForOrder(a, u) EXCEPT !.candidate = c]
      PROVE  r \in ResolutionShape
  <2>1. ResolutionForOrder(a, u) \in ResolutionShape
    BY <1>0 DEF ResolutionForOrder, NoStatus
  <2> QED
    BY <1>4, <2>1
<1> QED
    BY <1>1, <1>2, <1>3, <1>4 DEF Resolutions

-----------------------------------------------------------------------------
(* Type correctness                                                        *)

LEMMA StoreInitTyped == StoreInit => StoreTypeOK
BY QtyAssumption, MaxTokenAssumption
   DEF StoreInit, StoreTypeOK, AttemptStates, HaltStates, OrderStates, ReservationStates, Statuses

LEMMA StageTyped ==
    ASSUME StoreTypeOK, NEW a \in Attempts, StageAttempt(a) PROVE StoreTypeOK'
BY DEF StageAttempt, StoreTypeOK, gateVars, AttemptStates, OrderStates, ReservationStates, Statuses

LEMMA ClaimTyped ==
    ASSUME StoreTypeOK, NEW a \in Attempts, NEW expected, NEW tok, ClaimAttempt(a, expected, tok)
    PROVE  StoreTypeOK'
BY MaxTokenAssumption DEF ClaimAttempt, StoreTypeOK, bookVars, AttemptStates

LEMMA MarkTyped ==
    ASSUME StoreTypeOK, NEW a \in Attempts, NEW tok,
           MarkAttemptSent(a, tok) \/ MarkAttemptReplayed(a, tok) \/ LeaseExpires(a)
    PROVE  StoreTypeOK'
<1>1. CASE MarkAttemptSent(a, tok)
    BY <1>1 DEF MarkAttemptSent, StoreTypeOK, bookVars, gateVars
<1>2. CASE MarkAttemptReplayed(a, tok)
    BY <1>2 DEF MarkAttemptReplayed, StoreTypeOK, bookVars, gateVars
<1>3. CASE LeaseExpires(a)
    BY <1>3 DEF LeaseExpires, StoreTypeOK, bookVars, gateVars
<1> QED
    BY <1>1, <1>2, <1>3

LEMMA FailPendingTyped ==
    ASSUME StoreTypeOK, NEW a \in Attempts, FailPendingAttempt(a) PROVE StoreTypeOK'
BY DEF FailPendingAttempt, StoreTypeOK, gateVars, StatusAfter,
       AttemptStates, OrderStates, ReservationStates, Statuses

LEMMA ResolveTyped ==
    ASSUME StoreTypeOK, NEW a \in Attempts, NEW tok, NEW r \in ResolutionShape,
           ResolveAttempt(a, tok, r)
    PROVE  StoreTypeOK'
<1>1. /\ order' \in [Attempts -> OrderStates]
      /\ boundOrder' \in [Attempts -> Attempts \cup {NoAttempt}]
      /\ filled' \in [Attempts -> 0..Qty]
    BY DEF ResolveAttempt, StoreTypeOK, ResolutionShape, OrderUpdate, OrderUpdated
<1>2. reserved' \in [Attempts -> ReservationStates]
  <2>1. ReservationAfter(a, r.update) \in ReservationStates
    BY DEF ReservationAfter, StoreTypeOK, ReservationStates
  <2> QED
    BY <2>1 DEF ResolveAttempt, StoreTypeOK, ReservationStates
<1>3. /\ state' \in [Attempts -> AttemptStates]
      /\ candidate' \in [Attempts -> Attempts \cup {NoAttempt}]
      /\ leased' \in [Attempts -> BOOLEAN]
    BY DEF ResolveAttempt, StoreTypeOK, ResolutionShape, AttemptStates
<1>4. active' \in Attempts \cup {NoAttempt} /\ unknown' \in Attempts \cup {NoAttempt}
    BY DEF ResolveAttempt, StoreTypeOK
<1>5. status' \in [Attempts -> Statuses]
    BY DEF ResolveAttempt, StoreTypeOK, ResolutionShape, Statuses, StatusAfter
<1>6. UNCHANGED <<token, sent, replays, halted>>
    BY DEF ResolveAttempt
<1> QED
    BY <1>1, <1>2, <1>3, <1>4, <1>5, <1>6 DEF StoreTypeOK

LEMMA ApplyTyped ==
    ASSUME StoreTypeOK, NEW a \in Attempts, NEW u \in OrderUpdate, ApplyOrderUpdate(a, u)
    PROVE  StoreTypeOK'
<1>1. /\ order' \in [Attempts -> OrderStates]
      /\ boundOrder' \in [Attempts -> Attempts \cup {NoAttempt}]
      /\ filled' \in [Attempts -> 0..Qty]
    BY DEF ApplyOrderUpdate, StoreTypeOK, OrderUpdate, OrderUpdated
<1>2. reserved' \in [Attempts -> ReservationStates]
    BY DEF ApplyOrderUpdate, StoreTypeOK, ReservationStates, ReservationAfter
<1>3. state' \in [Attempts -> AttemptStates] /\ status' \in [Attempts -> Statuses]
    BY DEF ApplyOrderUpdate, StoreTypeOK, AttemptStates, Statuses, StatusAfter
<1>4. UNCHANGED <<token, leased, sent, replays, candidate, active, unknown, halted>>
    BY DEF ApplyOrderUpdate, gateVars
<1> QED
    BY <1>1, <1>2, <1>3, <1>4 DEF StoreTypeOK

LEMMA HaltTyped ==
    ASSUME StoreTypeOK, IntegrityHalt \/ ActivateGlobalHalt \/ ResumeGlobalHalt
    PROVE  StoreTypeOK'
BY DEF IntegrityHalt, ActivateGlobalHalt, ResumeGlobalHalt, StoreTypeOK,
       attemptVars, gateVars, bookVars, HaltStates

LEMMA StoreStepTyped == StoreTypeOK /\ [StoreNext]_storeVars => StoreTypeOK'
<1> SUFFICES ASSUME StoreTypeOK, [StoreNext]_storeVars PROVE StoreTypeOK'
    OBVIOUS
<1>1. CASE ActivateGlobalHalt \/ ResumeGlobalHalt
    BY <1>1, HaltTyped
<1>2. ASSUME NEW a \in Attempts, StageAttempt(a) \/ FailPendingAttempt(a) \/ LeaseExpires(a)
      PROVE  StoreTypeOK'
    BY <1>2, StageTyped, FailPendingTyped, MarkTyped
<1>3. ASSUME NEW a \in Attempts, NEW expected, NEW tok, ClaimAttempt(a, expected, tok)
      PROVE  StoreTypeOK'
    BY <1>3, ClaimTyped
<1>4. ASSUME NEW a \in Attempts, NEW tok, MarkAttemptSent(a, tok) \/ MarkAttemptReplayed(a, tok)
      PROVE  StoreTypeOK'
    BY <1>4, MarkTyped
<1>5. ASSUME NEW a \in Attempts, NEW tok, NEW r \in Resolutions(a),
             ResolveAttempt(a, tok, r) \/ ResolveIntegrityFailure(a, tok, r)
      PROVE  StoreTypeOK'
    BY <1>5, ResolutionTyped, ResolveTyped, HaltTyped DEF ResolveIntegrityFailure
<1>6. ASSUME NEW a \in Attempts, NEW u \in OrderUpdate,
             ApplyOrderUpdate(a, u) \/ ApplyIntegrityFailure(a, u)
      PROVE  StoreTypeOK'
    BY <1>6, ApplyTyped, HaltTyped DEF ApplyIntegrityFailure
<1>7. CASE UNCHANGED storeVars
    BY <1>7 DEF storeVars, attemptVars, gateVars, bookVars, StoreTypeOK
<1> QED
    BY <1>1, <1>2, <1>3, <1>4, <1>5, <1>6, <1>7 DEF StoreNext

\* Every column keeps its type under any calls (the CHECK constraints of
\* execution_attempt, orders, reservations and live_execution_gate).
THEOREM StoreTypeCorrect == StoreSpec => []StoreTypeOK
BY StoreInitTyped, StoreStepTyped, PTL DEF StoreSpec

-----------------------------------------------------------------------------
(* The gate admits one unresolved attempt                                  *)

\* Steps that keep the gate row and the set of unresolved attempts.
LEMMA GateKept ==
    ASSUME StoreTypeOK, GateExclusive, UNCHANGED <<active, unknown>>,
           \A b \in Attempts : Unresolved(b)' <=> Unresolved(b)
    PROVE  GateExclusive'
<1>1. {active, unknown} \subseteq Attempts \cup {NoAttempt}
    BY DEF StoreTypeOK
<1> QED
    BY <1>1 DEF GateExclusive, GateEmpty

\* A claim keeps the gate exclusive: it finds the gate empty and nobody else
\* unresolved, or the gate already names the attempt.
LEMMA ClaimKeepsGate ==
    ASSUME StoreTypeOK, GateExclusive, NEW a \in Attempts, NEW tok,
           NEW expected \in {"pending", "claimed", "unknown"}, ClaimAttempt(a, expected, tok)
    PROVE  GateExclusive'
<1>1. state' = [state EXCEPT ![a] = "claimed"]
    BY DEF ClaimAttempt
<1>2. \A b \in Attempts \ {a} : Unresolved(b)' <=> Unresolved(b)
    BY <1>1 DEF Unresolved, UsesGate, StoreTypeOK
<1>3. CASE ~UsesGate(a)
  <2>1. UNCHANGED <<active, unknown>>
    BY <1>3 DEF ClaimAttempt
  <2>2. ~Unresolved(a) /\ ~Unresolved(a)'
    BY <1>3 DEF Unresolved, UsesGate
  <2> QED
    BY <1>2, <2>1, <2>2, GateKept
<1>4. CASE UsesGate(a)
  <2>1. Unresolved(a)'
    BY <1>1, <1>4 DEF Unresolved, UsesGate, StoreTypeOK
  <2>2. \A b \in Attempts \ {a} : ~Unresolved(b)
    BY <1>4, NoAttemptAssumption
       DEF ClaimAttempt, GateAllows, UnresolvedOther, GateEmpty, GateExclusive
  <2>3. \/ active' = a /\ unknown' = NoAttempt
        \/ active' = NoAttempt /\ unknown' = a
    BY <1>4, NoAttemptAssumption DEF ClaimAttempt, GateAllows, GateEmpty
  <2> QED
    BY <1>2, <2>1, <2>2, <2>3, NoAttemptAssumption DEF GateExclusive
<1> QED
    BY <1>3, <1>4

\* A resolution clears the latch it held, or moves it from active to unknown.
LEMMA ResolveKeepsGate ==
    ASSUME StoreTypeOK, GateExclusive, NEW a \in Attempts, NEW tok, NEW r \in ResolutionShape,
           ResolveAttempt(a, tok, r)
    PROVE  GateExclusive'
<1>1. state[a] = "claimed" /\ state' = [state EXCEPT ![a] = r.state]
    BY DEF ResolveAttempt, ResolveFenceHeld
<1>2. \A b \in Attempts \ {a} : Unresolved(b)' <=> Unresolved(b)
    BY <1>1 DEF Unresolved, UsesGate, StoreTypeOK
<1>3. (Unresolved(a) <=> UsesGate(a)) /\ {active, unknown} \subseteq Attempts \cup {NoAttempt}
    BY <1>1 DEF Unresolved, StoreTypeOK
<1>4. CASE r.state = "unknown"
  <2>1. Unresolved(a)' <=> UsesGate(a)
    BY <1>1, <1>4 DEF Unresolved, UsesGate, StoreTypeOK
  <2>2. /\ active' = IF active = a THEN NoAttempt ELSE active
        /\ unknown' = IF active = a THEN a ELSE unknown
    BY <1>4 DEF ResolveAttempt
  <2> QED
    BY <1>2, <1>3, <2>1, <2>2, NoAttemptAssumption DEF GateExclusive, GateEmpty
<1>5. CASE r.state # "unknown"
  <2>1. ~Unresolved(a)'
    BY <1>1, <1>5 DEF Unresolved, UsesGate, StoreTypeOK, ResolutionShape
  <2>2. /\ active' = IF active = a THEN NoAttempt ELSE active
        /\ unknown' = IF unknown = a THEN NoAttempt ELSE unknown
    BY <1>5 DEF ResolveAttempt
  <2> QED
    BY <1>2, <1>3, <2>1, <2>2, NoAttemptAssumption DEF GateExclusive, GateEmpty
<1> QED
    BY <1>4, <1>5

LEMMA StoreStepKeepsGate ==
    StoreTypeOK /\ GateExclusive /\ [StoreNext]_storeVars => GateExclusive'
<1> SUFFICES ASSUME StoreTypeOK, GateExclusive, [StoreNext]_storeVars PROVE GateExclusive'
    OBVIOUS
<1>1. ASSUME UNCHANGED <<attemptVars, gateVars>> PROVE GateExclusive'
    BY <1>1, GateKept DEF attemptVars, gateVars, Unresolved, UsesGate
<1>2. CASE ActivateGlobalHalt \/ ResumeGlobalHalt \/ UNCHANGED storeVars
    BY <1>1, <1>2 DEF ActivateGlobalHalt, ResumeGlobalHalt, storeVars
<1>3. ASSUME NEW a \in Attempts, StageAttempt(a) \/ FailPendingAttempt(a)
      PROVE  GateExclusive'
  <2>1. UNCHANGED <<active, unknown>>
    BY <1>3 DEF StageAttempt, FailPendingAttempt, gateVars
  <2>2. \A b \in Attempts : Unresolved(b)' <=> Unresolved(b)
    BY <1>3 DEF StageAttempt, FailPendingAttempt, Unresolved, UsesGate, StoreTypeOK
  <2> QED
    BY <2>1, <2>2, GateKept
<1>4. ASSUME NEW a \in Attempts, NEW tok,
             LeaseExpires(a) \/ MarkAttemptSent(a, tok) \/ MarkAttemptReplayed(a, tok)
      PROVE  GateExclusive'
  <2>1. UNCHANGED <<active, unknown, state>>
    BY <1>4 DEF LeaseExpires, MarkAttemptSent, MarkAttemptReplayed, gateVars
  <2> QED
    BY <2>1, GateKept DEF Unresolved, UsesGate
<1>5. ASSUME NEW a \in Attempts, NEW expected \in {"pending", "claimed", "unknown"}, NEW tok,
             ClaimAttempt(a, expected, tok)
      PROVE  GateExclusive'
    BY <1>5, ClaimKeepsGate
<1>6. ASSUME NEW a \in Attempts, NEW tok, NEW r \in Resolutions(a),
             ResolveAttempt(a, tok, r) \/ ResolveIntegrityFailure(a, tok, r)
      PROVE  GateExclusive'
    BY <1>1, <1>6, ResolutionTyped, ResolveKeepsGate DEF ResolveIntegrityFailure, IntegrityHalt
<1>7. ASSUME NEW a \in Attempts, NEW u \in OrderUpdate,
             ApplyOrderUpdate(a, u) \/ ApplyIntegrityFailure(a, u)
      PROVE  GateExclusive'
  <2>1. CASE ApplyOrderUpdate(a, u)
    <3>1. UNCHANGED <<active, unknown>>
      BY <2>1 DEF ApplyOrderUpdate, gateVars
    <3>2. \A b \in Attempts : Unresolved(b)' <=> Unresolved(b)
      BY <2>1 DEF ApplyOrderUpdate, Unresolved, UsesGate, StoreTypeOK
    <3> QED
      BY <3>1, <3>2, GateKept
  <2>2. CASE ApplyIntegrityFailure(a, u)
    BY <1>1, <2>2 DEF ApplyIntegrityFailure, IntegrityHalt
  <2> QED
    BY <1>7, <2>1, <2>2
<1> QED
    BY <1>2, <1>3, <1>4, <1>5, <1>6, <1>7 DEF StoreNext

\* However the transactions of any number of workers interleave, at most one
\* attempt of the live account is unresolved once the gate names one, and the
\* gate names it (claimAttempt, ResolveAttempt).
THEOREM GateIsExclusive == StoreSpec => []GateExclusive
<1>1. StoreInit => GateExclusive
    BY NoAttemptAssumption
       DEF StoreInit, GateExclusive, GateEmpty, Unresolved
<1> QED
    BY <1>1, StoreInitTyped, StoreStepTyped, StoreStepKeepsGate, PTL DEF StoreSpec

-----------------------------------------------------------------------------
(* Claimable attempts keep what they were granted                          *)

\* An attempt without a row has no order, no fills and no reservation.
UnstagedIsFresh ==
    \A a \in Attempts :
        state[a] = "none" =>
            /\ order[a] = "none" /\ reserved[a] = "none"
            /\ filled[a] = 0 /\ boundOrder[a] = NoAttempt

Claimable(a) == HasOrder(a) /\ state[a] \in {"pending", "claimed", "unknown"}

\* One attempt's part of the two invariants.
EntitledOne(a) ==
    /\ state[a] = "none" =>
         order[a] = "none" /\ reserved[a] = "none" /\ filled[a] = 0 /\ boundOrder[a] = NoAttempt
    /\ Claimable(a) =>
         order[a] = "new" /\ reserved[a] = "held" /\ filled[a] = 0 /\ boundOrder[a] = NoAttempt

Entitlements == \A a \in Attempts : EntitledOne(a)

LEMMA EntitlementsMeaning == Entitlements <=> UnstagedIsFresh /\ ClaimableIsEntitled
BY DEF Entitlements, EntitledOne, Claimable, UnstagedIsFresh, ClaimableIsEntitled

\* A transaction of a writes no row of another attempt.
LEMMA OthersEntitled ==
    ASSUME StoreTypeOK, Entitlements, NEW a \in Attempts, EntitledOne(a)',
           \A b \in Attempts \ {a} :
              /\ state'[b] = state[b] /\ order'[b] = order[b] /\ reserved'[b] = reserved[b]
              /\ filled'[b] = filled[b] /\ boundOrder'[b] = boundOrder[b]
    PROVE  Entitlements'
BY DEF Entitlements, EntitledOne, Claimable, HasOrder

\* An attempt that has an order is left unknown only with its books untouched.
LEMMA UncertainTouchesNothing ==
    ASSUME NEW a \in Attempts, NEW r \in Resolutions(a), HasOrder(a), r.state = "unknown"
    PROVE  r.update = NoUpdate /\ r.release = FALSE
<1> USE DEF Resolution
<1>1. CASE r = Refusal \/ r = RejectedRefusal
    BY <1>1 DEF Refusal, RejectedRefusal
<1>2. ASSUME NEW c \in Attempts \cup {NoAttempt}, r = Uncertain(c)
      PROVE  r.update = NoUpdate /\ r.release = FALSE
    BY <1>2 DEF Uncertain
<1>3. ASSUME NEW u \in OrderUpdate, NEW c \in Attempts \cup {NoAttempt},
             r = [ResolutionForOrder(a, u) EXCEPT !.candidate = c]
      PROVE  FALSE
  <2>1. ResolutionForOrder(a, u) \in ResolutionShape /\ ResolutionForOrder(a, u).state # "unknown"
    <3>1. NoUpdate \in OrderUpdate
      BY QtyAssumption DEF NoUpdate, OrderUpdate, OrderStates
    <3> QED
      BY <3>1 DEF ResolutionForOrder, ResolutionShape, HasOrder, NoStatus, Statuses
  <2> QED
    BY <1>3, <2>1 DEF ResolutionShape
<1>4. \/ r = Refusal \/ r = RejectedRefusal
      \/ \E c \in Attempts \cup {NoAttempt} : r = Uncertain(c)
      \/ \E u \in OrderUpdate, c \in Attempts \cup {NoAttempt} :
            r = [ResolutionForOrder(a, u) EXCEPT !.candidate = c]
  <2> HIDE DEF Resolution
  <2> QED
    BY DEF Resolutions
<1> QED
  <2> HIDE DEF Resolution
  <2> QED
    BY <1>1, <1>2, <1>3, <1>4

LEMMA ResolveKeepsEntitlements ==
    ASSUME StoreTypeOK, Entitlements, NEW a \in Attempts, NEW tok, NEW r \in Resolutions(a),
           ResolveAttempt(a, tok, r)
    PROVE  Entitlements'
<1>1. r \in ResolutionShape
    BY ResolutionTyped
<1>2. state' = [state EXCEPT ![a] = r.state]
    BY DEF ResolveAttempt
<1>3. \A b \in Attempts \ {a} :
        /\ state'[b] = state[b] /\ order'[b] = order[b] /\ reserved'[b] = reserved[b]
        /\ filled'[b] = filled[b] /\ boundOrder'[b] = boundOrder[b]
  <2>1. \A b \in Attempts \ {a} : state'[b] = state[b] /\ reserved'[b] = reserved[b]
    BY DEF ResolveAttempt, StoreTypeOK
  <2>2. \A b \in Attempts \ {a} :
          order'[b] = order[b] /\ filled'[b] = filled[b] /\ boundOrder'[b] = boundOrder[b]
    BY DEF ResolveAttempt, OrderUpdated, StoreTypeOK
  <2> QED
    BY <2>1, <2>2
<1>4. EntitledOne(a)'
  <2>1. CASE r.state = "unknown" /\ HasOrder(a)
    <3>1. r.update = NoUpdate /\ r.release = FALSE
      BY <2>1, UncertainTouchesNothing
    <3>2. UNCHANGED <<order, boundOrder, filled>> /\ reserved'[a] = reserved[a] /\ state[a] = "claimed"
      BY <3>1 DEF ResolveAttempt, ResolveFenceHeld, StoreTypeOK
    <3> QED
      BY <1>2, <2>1, <3>2 DEF Entitlements, EntitledOne, Claimable, HasOrder, StoreTypeOK
  <2>2. CASE ~(r.state = "unknown" /\ HasOrder(a))
    BY <1>1, <1>2, <2>2 DEF EntitledOne, Claimable, HasOrder, ResolutionShape, StoreTypeOK
  <2> QED
    BY <2>1, <2>2
<1> QED
    BY <1>3, <1>4, OthersEntitled

LEMMA ApplyKeepsEntitlements ==
    ASSUME StoreTypeOK, Entitlements, NEW a \in Attempts, NEW u \in OrderUpdate,
           order[a] \notin {"none", "new"}, ApplyOrderUpdate(a, u)
    PROVE  Entitlements'
<1>1. state[a] # "none" /\ ~Claimable(a)
    BY DEF Entitlements, EntitledOne
<1>2. state'[a] # "none" /\ ~Claimable(a)'
    BY <1>1 DEF ApplyOrderUpdate, Claimable, HasOrder, StoreTypeOK
<1>3. \A b \in Attempts \ {a} :
        /\ state'[b] = state[b] /\ order'[b] = order[b] /\ reserved'[b] = reserved[b]
        /\ filled'[b] = filled[b] /\ boundOrder'[b] = boundOrder[b]
    BY DEF ApplyOrderUpdate, OrderUpdated, StoreTypeOK
<1> QED
    BY <1>2, <1>3, OthersEntitled DEF EntitledOne

LEMMA StoreStepKeepsEntitlements ==
    StoreTypeOK /\ Entitlements /\ [StoreNext]_storeVars => Entitlements'
<1> SUFFICES ASSUME StoreTypeOK, Entitlements, [StoreNext]_storeVars PROVE Entitlements'
    OBVIOUS
<1>1. ASSUME UNCHANGED <<state, bookVars>> PROVE Entitlements'
    BY <1>1 DEF Entitlements, EntitledOne, Claimable, HasOrder, bookVars
<1>2. CASE ActivateGlobalHalt \/ ResumeGlobalHalt \/ UNCHANGED storeVars
    BY <1>1, <1>2 DEF ActivateGlobalHalt, ResumeGlobalHalt, storeVars, attemptVars
<1>3. ASSUME NEW a \in Attempts, StageAttempt(a) PROVE Entitlements'
  <2>1. EntitledOne(a)'
    BY <1>3 DEF StageAttempt, Entitlements, EntitledOne, Claimable, HasOrder, StoreTypeOK
  <2> QED
    BY <1>3, <2>1, OthersEntitled DEF StageAttempt, StoreTypeOK
<1>4. ASSUME NEW a \in Attempts, FailPendingAttempt(a) PROVE Entitlements'
  <2>1. EntitledOne(a)'
    BY <1>4 DEF FailPendingAttempt, EntitledOne, Claimable, HasOrder, StoreTypeOK
  <2> QED
    BY <1>4, <2>1, OthersEntitled DEF FailPendingAttempt, StoreTypeOK
<1>5. ASSUME NEW a \in Attempts, NEW tok,
             LeaseExpires(a) \/ MarkAttemptSent(a, tok) \/ MarkAttemptReplayed(a, tok)
      PROVE  Entitlements'
    BY <1>1, <1>5 DEF LeaseExpires, MarkAttemptSent, MarkAttemptReplayed
<1>6. ASSUME NEW a \in Attempts, NEW expected \in {"pending", "claimed", "unknown"}, NEW tok,
             ClaimAttempt(a, expected, tok)
      PROVE  Entitlements'
  <2>1. EntitledOne(a)'
    BY <1>6 DEF ClaimAttempt, Entitlements, EntitledOne, Claimable, HasOrder, StoreTypeOK, bookVars
  <2> QED
    BY <1>6, <2>1, OthersEntitled DEF ClaimAttempt, StoreTypeOK, bookVars
<1>7. ASSUME NEW a \in Attempts, NEW tok, NEW r \in Resolutions(a),
             ResolveAttempt(a, tok, r) \/ ResolveIntegrityFailure(a, tok, r)
      PROVE  Entitlements'
    BY <1>1, <1>7, ResolveKeepsEntitlements DEF ResolveIntegrityFailure, IntegrityHalt, attemptVars
<1>8. ASSUME NEW a \in Attempts, NEW u \in OrderUpdate, order[a] \notin {"none", "new"},
             ApplyOrderUpdate(a, u) \/ ApplyIntegrityFailure(a, u)
      PROVE  Entitlements'
    BY <1>1, <1>8, ApplyKeepsEntitlements DEF ApplyIntegrityFailure, IntegrityHalt, attemptVars
<1> QED
    BY <1>2, <1>3, <1>4, <1>5, <1>6, <1>7, <1>8 DEF StoreNext

LEMMA StoreInitEntitled == StoreInit => Entitlements
BY LegacyAssumption DEF StoreInit, Entitlements, EntitledOne, Claimable

\* A claim or a recovery never finds its reservation gone or its order moved on:
\* the entitlement check of claimAttempt holds for every claimable attempt.
THEOREM ClaimableStaysEntitled == StoreSpec => []ClaimableIsEntitled
<1>1. Entitlements => ClaimableIsEntitled
    BY EntitlementsMeaning
<1> QED
    BY <1>1, StoreInitEntitled, StoreInitTyped, StoreStepTyped, StoreStepKeepsEntitlements, PTL
       DEF StoreSpec

-----------------------------------------------------------------------------
(* Provider orders are bound once                                          *)

\* An accepted update binds an id that no other order holds.
LEMMA UpdateKeepsBinding ==
    ASSUME StoreTypeOK, BindingUnique, NEW a \in Attempts, NEW u \in OrderUpdate,
           UpdateAccepted(a, u), OrderUpdated(a, u)
    PROVE  BindingUnique'
<1>1. \A b \in Attempts \ {a} : boundOrder'[b] = boundOrder[b]
    BY DEF OrderUpdated, StoreTypeOK
<1>2. boundOrder'[a] = IF u.bid = NoAttempt THEN boundOrder[a] ELSE u.bid
    BY DEF OrderUpdated, StoreTypeOK
<1>3. u.bid # NoAttempt => \A b \in Attempts \ {a} : boundOrder[b] # u.bid
    BY DEF UpdateAccepted, OwnedElsewhere
<1> QED
    BY <1>1, <1>2, <1>3 DEF BindingUnique

LEMMA StoreStepKeepsBinding ==
    StoreTypeOK /\ BindingUnique /\ [StoreNext]_storeVars => BindingUnique'
<1> SUFFICES ASSUME StoreTypeOK, BindingUnique, [StoreNext]_storeVars PROVE BindingUnique'
    OBVIOUS
<1>1. ASSUME UNCHANGED boundOrder PROVE BindingUnique'
    BY <1>1 DEF BindingUnique
<1>2. CASE ActivateGlobalHalt \/ ResumeGlobalHalt \/ UNCHANGED storeVars
    BY <1>1, <1>2 DEF ActivateGlobalHalt, ResumeGlobalHalt, storeVars, bookVars
<1>3. ASSUME NEW a \in Attempts, NEW expected, NEW tok,
             \/ StageAttempt(a) \/ FailPendingAttempt(a) \/ LeaseExpires(a)
             \/ MarkAttemptSent(a, tok) \/ MarkAttemptReplayed(a, tok)
             \/ ClaimAttempt(a, expected, tok)
      PROVE  BindingUnique'
    BY <1>1, <1>3 DEF StageAttempt, FailPendingAttempt, LeaseExpires, MarkAttemptSent,
                      MarkAttemptReplayed, ClaimAttempt, bookVars
<1>4. ASSUME NEW a \in Attempts, NEW tok, NEW r \in Resolutions(a),
             ResolveAttempt(a, tok, r) \/ ResolveIntegrityFailure(a, tok, r)
      PROVE  BindingUnique'
  <2>1. r.update \in OrderUpdate
    BY ResolutionTyped DEF ResolutionShape
  <2> QED
    BY <1>1, <1>4, <2>1, UpdateKeepsBinding
       DEF ResolveAttempt, ResolveIntegrityFailure, IntegrityHalt, bookVars
<1>5. ASSUME NEW a \in Attempts, NEW u \in OrderUpdate,
             ApplyOrderUpdate(a, u) \/ ApplyIntegrityFailure(a, u)
      PROVE  BindingUnique'
    BY <1>1, <1>5, UpdateKeepsBinding
       DEF ApplyOrderUpdate, ApplyIntegrityFailure, IntegrityHalt, bookVars
<1> QED
    BY <1>2, <1>3, <1>4, <1>5 DEF StoreNext

\* No two durable orders are ever bound to the same provider order
\* (orders.broker_order_id UNIQUE, applyOrderUpdate).
THEOREM BindingStaysUnique == StoreSpec => []BindingUnique
<1>1. StoreInit => BindingUnique
    BY DEF StoreInit, BindingUnique
<1> QED
    BY <1>1, StoreInitTyped, StoreStepTyped, StoreStepKeepsBinding, PTL DEF StoreSpec

-----------------------------------------------------------------------------
(* What is durable stays                                                   *)

\* What a step may do to the rows of one attempt.
HistoryKept(a) ==
    /\ filled'[a] >= filled[a] /\ token'[a] >= token[a] /\ replays'[a] >= replays[a]
    /\ state[a] \in {"settled", "failed"} => state'[a] = state[a]
    /\ order[a] \in TerminalUnfilled \cup {"filled"} => order'[a] = order[a]
    /\ reserved[a] \in {"released", "converted"} => reserved'[a] = reserved[a]

RowsUnchanged(a) ==
    /\ filled'[a] = filled[a] /\ token'[a] = token[a] /\ replays'[a] = replays[a]
    /\ state'[a] = state[a] /\ order'[a] = order[a] /\ reserved'[a] = reserved[a]

LEMMA UnchangedKeepsHistory ==
    ASSUME StoreTypeOK, NEW a \in Attempts, RowsUnchanged(a) PROVE HistoryKept(a)
<1>1. filled[a] \in Nat /\ token[a] \in Nat /\ replays[a] \in Nat
    BY QtyAssumption, MaxTokenAssumption DEF StoreTypeOK
<1> QED
    BY <1>1 DEF RowsUnchanged, HistoryKept

\* An accepted update keeps the fills and never leaves a terminal state.
LEMMA UpdateKeepsHistory ==
    ASSUME StoreTypeOK, NEW a \in Attempts, NEW u \in OrderUpdate,
           UpdateAccepted(a, u), OrderUpdated(a, u)
    PROVE  /\ filled'[a] >= filled[a]
           /\ order[a] \in TerminalUnfilled \cup {"filled"} => order'[a] = order[a]
           /\ \A b \in Attempts \ {a} : filled'[b] = filled[b] /\ order'[b] = order[b]
<1>1. filled[a] \in Nat /\ u.filled \in Nat /\ filled'[a] = u.filled /\ order'[a] = u.state
    BY QtyAssumption DEF StoreTypeOK, OrderUpdated, OrderUpdate
<1>2. LegalTransition(order[a], u.state) /\ ~FillsContradict(a, u)
    BY DEF UpdateAccepted, UpdateContradicts
<1>3. filled[a] <= u.filled
    BY <1>1, <1>2 DEF FillsContradict
<1>4. order[a] \in TerminalUnfilled \cup {"filled"} => u.state = order[a]
    BY <1>2 DEF LegalTransition, Advances, TerminalUnfilled
<1>5. \A b \in Attempts \ {a} : filled'[b] = filled[b] /\ order'[b] = order[b]
    BY DEF OrderUpdated, StoreTypeOK
<1> QED
    BY <1>1, <1>3, <1>4, <1>5

LEMMA ResolveKeepsHistory ==
    ASSUME StoreTypeOK, NEW a \in Attempts, NEW tok, NEW r \in ResolutionShape,
           ResolveAttempt(a, tok, r), NEW b \in Attempts
    PROVE  HistoryKept(b)
<1>1. UNCHANGED <<token, replays>> /\ state[a] = "claimed"
    BY DEF ResolveAttempt, ResolveFenceHeld
<1>2. b # a => state'[b] = state[b] /\ reserved'[b] = reserved[b]
    BY DEF ResolveAttempt, StoreTypeOK
<1>3. reserved[a] \in {"released", "converted"} => reserved'[a] = reserved[a]
    BY DEF ResolveAttempt, ReservationAfter, StoreTypeOK
<1>4. /\ filled'[b] >= filled[b]
      /\ order[b] \in TerminalUnfilled \cup {"filled"} => order'[b] = order[b]
  <2>1. filled[b] \in Nat
    BY QtyAssumption DEF StoreTypeOK
  <2>2. CASE r.update = NoUpdate
    BY <2>1, <2>2 DEF ResolveAttempt
  <2>3. CASE r.update # NoUpdate
    <3>1. r.update \in OrderUpdate /\ UpdateAccepted(a, r.update) /\ OrderUpdated(a, r.update)
      BY <2>3 DEF ResolveAttempt, ResolutionShape
    <3> QED
      BY <2>1, <3>1, UpdateKeepsHistory
  <2> QED
    BY <2>2, <2>3
<1>5. token[b] \in Nat /\ replays[b] \in Nat
    BY MaxTokenAssumption DEF StoreTypeOK
<1> QED
    BY <1>1, <1>2, <1>3, <1>4, <1>5 DEF HistoryKept

LEMMA ApplyKeepsHistory ==
    ASSUME StoreTypeOK, NEW a \in Attempts, NEW u \in OrderUpdate, ApplyOrderUpdate(a, u),
           NEW b \in Attempts
    PROVE  HistoryKept(b)
<1>1. UNCHANGED <<token, replays>>
    BY DEF ApplyOrderUpdate
<1>2. /\ b # a => state'[b] = state[b] /\ reserved'[b] = reserved[b]
      /\ state[a] \in {"settled", "failed"} => state'[a] = state[a]
    BY DEF ApplyOrderUpdate, StoreTypeOK
<1>3. reserved[a] \in {"released", "converted"} => reserved'[a] = reserved[a]
    BY DEF ApplyOrderUpdate, ReservationAfter, StoreTypeOK
<1>4. /\ filled'[b] >= filled[b]
      /\ order[b] \in TerminalUnfilled \cup {"filled"} => order'[b] = order[b]
  <2>1. filled[b] \in Nat
    BY QtyAssumption DEF StoreTypeOK
  <2> QED
    BY <2>1, UpdateKeepsHistory DEF ApplyOrderUpdate
<1>5. token[b] \in Nat /\ replays[b] \in Nat
    BY MaxTokenAssumption DEF StoreTypeOK
<1> QED
    BY <1>1, <1>2, <1>3, <1>4, <1>5 DEF HistoryKept

LEMMA StoreStepKeepsHistory ==
    ASSUME StoreTypeOK, Entitlements, StoreNext, NEW b \in Attempts
    PROVE  HistoryKept(b)
<1>0. filled[b] \in Nat /\ token[b] \in Nat /\ replays[b] \in Nat
    BY QtyAssumption, MaxTokenAssumption DEF StoreTypeOK
<1>1. ASSUME UNCHANGED <<attemptVars, bookVars>> PROVE HistoryKept(b)
    BY <1>1, UnchangedKeepsHistory DEF attemptVars, bookVars, RowsUnchanged
<1>2. CASE ActivateGlobalHalt \/ ResumeGlobalHalt
    BY <1>1, <1>2 DEF ActivateGlobalHalt, ResumeGlobalHalt
<1>3. ASSUME NEW a \in Attempts, StageAttempt(a) PROVE HistoryKept(b)
  <2>1. order[a] = "none" /\ reserved[a] = "none" /\ state[a] = "none"
    BY <1>3 DEF StageAttempt, Entitlements, EntitledOne
  <2>2. CASE b = a
    BY <1>0, <1>3, <2>1, <2>2 DEF StageAttempt, HistoryKept, StoreTypeOK, TerminalUnfilled
  <2>3. CASE b # a
    BY <1>3, <2>3, UnchangedKeepsHistory DEF StageAttempt, RowsUnchanged, StoreTypeOK
  <2> QED
    BY <2>2, <2>3
<1>4. ASSUME NEW a \in Attempts, FailPendingAttempt(a) PROVE HistoryKept(b)
  <2>1. CASE b = a
    BY <1>0, <1>4, <2>1 DEF FailPendingAttempt, HistoryKept, StoreTypeOK, TerminalUnfilled
  <2>2. CASE b # a
    BY <1>4, <2>2, UnchangedKeepsHistory DEF FailPendingAttempt, RowsUnchanged, StoreTypeOK
  <2> QED
    BY <2>1, <2>2
<1>5. ASSUME NEW a \in Attempts, NEW tok, LeaseExpires(a) \/ MarkAttemptSent(a, tok)
      PROVE  HistoryKept(b)
    BY <1>5, UnchangedKeepsHistory DEF LeaseExpires, MarkAttemptSent, bookVars, RowsUnchanged
<1>6. ASSUME NEW a \in Attempts, NEW tok, MarkAttemptReplayed(a, tok) PROVE HistoryKept(b)
  <2>1. /\ UNCHANGED <<state, token, order, filled, reserved>>
        /\ replays[a] = 0 /\ replays' = [replays EXCEPT ![a] = 1]
    BY <1>6 DEF MarkAttemptReplayed, bookVars
  <2>2. replays'[b] >= replays[b]
    BY <1>0, <2>1 DEF StoreTypeOK
  <2> QED
    BY <1>0, <2>1, <2>2 DEF HistoryKept
<1>7. ASSUME NEW a \in Attempts, NEW expected \in {"pending", "claimed", "unknown"}, NEW tok,
             ClaimAttempt(a, expected, tok)
      PROVE  HistoryKept(b)
  <2>1. /\ UNCHANGED <<replays, order, filled, reserved>> /\ state[a] = expected
        /\ state' = [state EXCEPT ![a] = "claimed"] /\ token' = [token EXCEPT ![a] = @ + 1]
    BY <1>7 DEF ClaimAttempt, bookVars
  <2>2. token'[b] >= token[b]
    BY <1>0, <2>1 DEF StoreTypeOK
  <2>3. state[b] \in {"settled", "failed"} => state'[b] = state[b]
    BY <2>1 DEF StoreTypeOK
  <2> QED
    BY <1>0, <2>1, <2>2, <2>3 DEF HistoryKept
<1>8. ASSUME NEW a \in Attempts, NEW tok, NEW r \in Resolutions(a),
             ResolveAttempt(a, tok, r) \/ ResolveIntegrityFailure(a, tok, r)
      PROVE  HistoryKept(b)
    BY <1>1, <1>8, ResolutionTyped, ResolveKeepsHistory DEF ResolveIntegrityFailure, IntegrityHalt
<1>9. ASSUME NEW a \in Attempts, NEW u \in OrderUpdate,
             ApplyOrderUpdate(a, u) \/ ApplyIntegrityFailure(a, u)
      PROVE  HistoryKept(b)
    BY <1>1, <1>9, ApplyKeepsHistory DEF ApplyIntegrityFailure, IntegrityHalt
<1> QED
    BY <1>2, <1>3, <1>4, <1>5, <1>6, <1>7, <1>8, <1>9 DEF StoreNext

\* No step loses a fill, reuses a fencing token, revives a resolved attempt or a
\* terminal order, or takes a released reservation back.
THEOREM HistoryIsDurable == StoreSpec => DurableHistory
<1>1. StoreTypeOK /\ Entitlements /\ [StoreNext]_storeVars
         => [\A a \in Attempts : HistoryKept(a)]_storeVars
    BY StoreStepKeepsHistory
<1>2. [\A a \in Attempts : HistoryKept(a)]_storeVars
        => [\A a \in Attempts :
              /\ filled'[a] >= filled[a] /\ token'[a] >= token[a] /\ replays'[a] >= replays[a]
              /\ state[a] \in {"settled", "failed"} => state'[a] = state[a]
              /\ order[a] \in TerminalUnfilled \cup {"filled"} => order'[a] = order[a]
              /\ reserved[a] \in {"released", "converted"} => reserved'[a] = reserved[a]]_storeVars
    BY DEF HistoryKept
<1> QED
    BY <1>1, <1>2, StoreInitEntitled, StoreInitTyped, StoreStepTyped, StoreStepKeepsEntitlements, PTL
       DEF StoreSpec, DurableHistory

-----------------------------------------------------------------------------
\* What the transactions keep between them holds together.
THEOREM StoreIsSafe == StoreSpec => []StoreSafe
<1>1. StoreTypeOK /\ GateExclusive /\ ClaimableIsEntitled /\ BindingUnique => StoreSafe
    BY DEF StoreSafe
<1> QED
    BY <1>1, StoreTypeCorrect, GateIsExclusive, ClaimableStaysEntitled, BindingStaysUnique, PTL

-----------------------------------------------------------------------------
(* The workers and the broker                                              *)

Ended == TerminalUnfilled \cup {"filled"}

\* steps of a worker that holds a claim
Driving == Pcs \ {"idle", "apply"}

\* the claim of worker w on attempt a is the last one and stands
Fenced(w, a) == state[a] = "claimed" /\ token[a] = worker[w].tok

\* nothing of a placement has reached the broker, nor can it any more
Quiet(a) ==
    /\ created[a] = 0
    /\ \A n \in Ordinals : request[a][n] \in {"none", "refused"}
    /\ \A w \in Workers : ~(worker[w].att = a /\ worker[w].pc = "call")

\* what a read said of an order is the broker's past, and its end if it said so
Past(u) ==
    /\ u.filled <= brokerOrder[u.bid].filled
    /\ u.state \in Ended => Read(u.bid) = u

-----------------------------------------------------------------------------
(* The inductive invariant                                                 *)

\* The broker makes one order at most, for a request that says so.
BrokerFact(a) ==
    /\ created[a] = 0 => brokerOrder[a] = [state |-> "none", filled |-> 0]
    /\ created[a] > 0 =>
         /\ IsPlace(a) /\ ProviderRead(Read(a))
         /\ \E n \in Ordinals : request[a][n] = "done"
    /\ created[a] <= 1
    /\ IsPlace(a) => \A n \in Ordinals : request[a][n] = "done" => created[a] > 0
    /\ inWindow[a] => created[a] > 0

\* A request has its marker, and a marked attempt that is unresolved owns the
\* gate; after a halt an opening attempt gets no more markers.
SendFact(a) ==
    /\ request[a][0] # "none" => sent[a]
    /\ request[a][1] # "none" => replays[a] = 1
    /\ replays[a] = 1 => sent[a] /\ a \in ReplayVerified
    /\ sent[a] =>
         /\ UsesGate(a) /\ state[a] \notin {"none", "pending"}
         /\ state[a] \in {"claimed", "unknown"} => a \in {active, unknown}
    /\ halted # "no" /\ Kind[a] = "open" => cutSends[a] = Sends(a)

\* A row is bound to its own order and is that order's past; a placement is
\* resolved only when it is bound or can have no order.
BookFact(a) ==
    /\ boundOrder[a] \in {NoAttempt, a}
    /\ boundOrder[a] = NoAttempt => filled[a] = 0
    /\ boundOrder[a] = a =>
         /\ created[a] > 0 /\ Entitled(a)
         /\ filled[a] <= brokerOrder[a].filled
         /\ order[a] \in Ended => order[a] = brokerOrder[a].state /\ filled[a] = brokerOrder[a].filled
    /\ IsPlace(a) /\ state[a] \notin {"claimed", "unknown"} => Quiet(a) \/ boundOrder[a] = a
    /\ \A c \in near[a] : c # a /\ boundOrder[c] = c

\* A cancel is proposed for a bound order, and is settled by its end.
CancelFact(a) ==
    a \in Cancels =>
        /\ state[a] # "none" => boundOrder[Target[a]] = Target[a]
        /\ state[a] = "settled" => brokerOrder[Target[a]].state \in Ended

AttemptFact(a) == BrokerFact(a) /\ SendFact(a) /\ BookFact(a) /\ CancelFact(a)

\* What a step of a worker presupposes of its attempt.
ShapeFact(w) ==
    /\ worker[w].pc # "idle" => worker[w].att \in Attempts
    /\ worker[w].replay =>
         /\ worker[w].pc \in {"pre_effect", "mark", "call", "wait", "resolve"}
         /\ IsPlace(worker[w].att) /\ worker[w].att \in ReplayVerified
    /\ worker[w].pc \in {"recover", "query", "adopt"} => IsPlace(worker[w].att)
    /\ worker[w].pc = "target" => worker[w].att \in Cancels

\* What a worker that drives a knows of its rows; the last two only as long as
\* its fence holds.
DriveFact(w, a) ==
    worker[w].att = a =>
        /\ worker[w].pc \in Driving => worker[w].tok <= token[a] /\ state[a] \notin {"none", "pending"}
        /\ worker[w].pc = "call" =>
             /\ sent[a] /\ request[a][Ordinal(w)] = "none"
             /\ worker[w].replay => replays[a] = 1
        /\ worker[w].pc \in {"recover", "pre_effect", "mark"} /\ ~worker[w].replay /\ Fenced(w, a) => ~sent[a]
        /\ worker[w].pc \in {"call", "wait"} /\ ~worker[w].replay /\ Fenced(w, a) => replays[a] = 0

\* The resolution a worker is about to store: its order is the broker's past, and
\* without one a placement is given up only when it is quiet.
PlanFact(w, a) ==
    LET r == worker[w].plan
        u == worker[w].plan.update
    IN  worker[w].att = a /\ worker[w].pc = "resolve" =>
        /\ r \in Resolutions(a)
        /\ u.bid # NoAttempt =>
             /\ IsPlace(a) /\ Past(u) /\ created[u.bid] > 0
             /\ u.bid = a \/ boundOrder[u.bid] = u.bid
        /\ IsPlace(a) /\ r.state # "unknown" /\ u.bid = NoAttempt /\ Fenced(w, a) => Quiet(a)
        /\ a \in Cancels /\ r.state = "settled" => brokerOrder[Target[a]].state \in Ended

\* The read a worker is about to apply, however old, is the broker's past.
ApplyFact(w, a) ==
    LET u == worker[w].plan.update
    IN  worker[w].att = a /\ worker[w].pc = "apply" =>
        /\ ProviderRead(u) /\ u.bid = a /\ boundOrder[a] = a /\ Past(u)
        /\ order[a] \notin {"none", "new"}

\* No two workers hold the same claim, nor the same call.
PairFact(v, w, a) ==
    v # w /\ worker[v].att = a /\ worker[w].att = a =>
        /\ worker[v].pc \in Driving /\ worker[w].pc \in Driving => worker[v].tok # worker[w].tok
        /\ worker[v].pc = "call" /\ worker[w].pc = "call" => worker[v].replay # worker[w].replay

WorkerFact(w, a) == DriveFact(w, a) /\ PlanFact(w, a) /\ ApplyFact(w, a)

LiveInv ==
    /\ LiveTypeOK /\ GateExclusive /\ Entitlements
    /\ \A a \in Attempts : AttemptFact(a)
    /\ \A w \in Workers : ShapeFact(w)
    /\ \A w \in Workers, a \in Attempts : WorkerFact(w, a)
    /\ \A v, w \in Workers, a \in Attempts : PairFact(v, w, a)

-----------------------------------------------------------------------------
(* Every step of the workers is a transaction of the store                 *)

LEMMA WorkerTyped ==
    ASSUME LiveTypeOK, NEW w \in Workers
    PROVE  /\ worker[w].pc \in Pcs /\ worker[w].att \in Attempts \cup {NoAttempt}
           /\ worker[w].tok \in 0..MaxToken /\ worker[w].replay \in BOOLEAN
           /\ worker[w].plan \in Resolved /\ worker[w].plan.update \in OrderUpdate
           /\ worker[w] = [pc |-> worker[w].pc, att |-> worker[w].att, tok |-> worker[w].tok,
                           replay |-> worker[w].replay, plan |-> worker[w].plan]
BY DEF LiveTypeOK, Resolved

LEMMA NextIsStoreStep == LiveInv /\ [Next]_vars => [StoreNext]_storeVars
<1> SUFFICES ASSUME LiveInv, [Next]_vars PROVE [StoreNext]_storeVars
    OBVIOUS
<1>0. LiveTypeOK
    BY DEF LiveInv
<1>1. CASE Halt \/ Resume
    BY <1>1 DEF Halt, Resume, StoreNext
<1>2. ASSUME NEW a \in Attempts, Propose(a) \/ FailPending(a) \/ LeaseExpiry(a)
      PROVE  StoreNext
    BY <1>2 DEF Propose, FailPending, LeaseExpiry, StoreNext
<1>3. ASSUME NEW w \in Workers, NEW a \in Attempts,
             ClaimPending(w, a) \/ ClaimUncertain(w, a) \/ ClaimCandidate(w, a)
      PROVE  StoreNext
  <2>1. token[a] \in 0..MaxToken /\ 0 \in 0..MaxToken
    BY <1>0, MaxTokenAssumption DEF LiveTypeOK, StoreTypeOK
  <2>2. \E expected \in {"pending", "claimed", "unknown"}, tok \in 0..MaxToken :
           ClaimAttempt(a, expected, tok)
    BY <1>3, <2>1 DEF ClaimPending, ClaimUncertain, ClaimCandidate
  <2> QED
    BY <2>2 DEF StoreNext
<1>4. ASSUME NEW w \in Workers, MarkSent(w) \/ MarkReplayed(w)
      PROVE  StoreNext
  <2>1. worker[w].att \in Attempts /\ worker[w].tok \in 0..MaxToken
    BY <1>0, <1>4, WorkerTyped DEF LiveInv, ShapeFact, MarkSent, MarkReplayed
  <2>2. \E a \in Attempts, tok \in 0..MaxToken : MarkAttemptSent(a, tok) \/ MarkAttemptReplayed(a, tok)
    BY <1>4, <2>1 DEF MarkSent, MarkReplayed
  <2> QED
    BY <2>2 DEF StoreNext
<1>5. ASSUME NEW w \in Workers, StoreResolution(w)
      PROVE  StoreNext \/ UNCHANGED storeVars
  <2> DEFINE a == worker[w].att  tok == worker[w].tok  r == worker[w].plan
  <2>1. worker[w].pc = "resolve" /\ a \in Attempts /\ tok \in 0..MaxToken
    BY <1>0, <1>5, WorkerTyped DEF LiveInv, ShapeFact, StoreResolution
  <2>2. r \in Resolutions(a)
    BY <2>1 DEF LiveInv, WorkerFact, PlanFact
  <2>3. ResolveAttempt(a, tok, r) \/ ResolveIntegrityFailure(a, tok, r) \/ UNCHANGED storeVars
    BY <1>5 DEF StoreResolution
  <2>4. ResolveAttempt(a, tok, r) \/ ResolveIntegrityFailure(a, tok, r) => state[a] = "claimed"
    BY DEF ResolveAttempt, ResolveIntegrityFailure, ResolveFenceHeld
  <2> QED
    BY <2>1, <2>2, <2>3, <2>4 DEF StoreNext
<1>6. ASSUME NEW w \in Workers, ApplyObservation(w)
      PROVE  StoreNext \/ UNCHANGED storeVars
  <2> DEFINE a == worker[w].att  u == worker[w].plan.update
  <2>1. worker[w].pc = "apply" /\ a \in Attempts /\ u \in OrderUpdate
    BY <1>0, <1>6, WorkerTyped DEF LiveInv, ShapeFact, ApplyObservation
  <2>2. ProviderRead(u) /\ order[a] \notin {"none", "new"}
    BY <2>1 DEF LiveInv, WorkerFact, ApplyFact
  <2>3. ApplyOrderUpdate(a, u) \/ ApplyIntegrityFailure(a, u) \/ UNCHANGED storeVars
    BY <1>6 DEF ApplyObservation
  <2> QED
    BY <2>1, <2>2, <2>3 DEF StoreNext
<1>7. ASSUME NEW w \in Workers,
             \/ RecoverUnsent(w) \/ PreEffect(w) \/ MarkRefused(w) \/ CallProvider(w)
             \/ ProviderAnswer(w) \/ QueryCandidates(w) \/ AdoptCandidate(w) \/ QueryTarget(w)
             \/ Crash(w) \/ \E a \in Attempts : ObserveOrder(w, a)
      PROVE  UNCHANGED storeVars
    BY <1>7 DEF RecoverUnsent, PreEffect, MarkRefused, CallProvider, ProviderAnswer,
                QueryCandidates, AdoptCandidate, QueryTarget, Crash, ObserveOrder
<1>8. CASE BrokerStep \/ UNCHANGED vars
    BY <1>8 DEF BrokerStep, vars
<1> QED
    BY <1>1, <1>2, <1>3, <1>4, <1>5, <1>6, <1>7, <1>8 DEF Next, Running, WorkerStep

-----------------------------------------------------------------------------
(* What a transaction never takes back                                     *)

\* Tokens grow, markers, bindings and resolutions stand, and a fence that holds
\* after a step held before it.
StoreForward(a) ==
    /\ token'[a] >= token[a]
    /\ token'[a] = token[a] /\ state'[a] = "claimed" => state[a] = "claimed"
    /\ sent[a] => sent'[a]
    /\ replays'[a] >= replays[a]
    /\ state[a] # "none" => state'[a] # "none"
    /\ state[a] \notin {"none", "pending"} => state'[a] \notin {"none", "pending"}
    /\ state[a] \in {"placed", "settled", "failed"} => state'[a] \in {"placed", "settled", "failed"}
    /\ boundOrder[a] # NoAttempt => boundOrder'[a] = boundOrder[a]
    /\ order[a] \notin {"none", "new"} => order'[a] \notin {"none", "new"}

LEMMA RowForward ==
    ASSUME StoreTypeOK, NEW a \in Attempts,
           token'[a] = token[a], state'[a] = state[a], sent'[a] = sent[a], replays'[a] = replays[a],
           boundOrder'[a] = boundOrder[a], order'[a] = order[a]
    PROVE  StoreForward(a)
<1>1. token[a] \in Nat /\ replays[a] \in Nat
    BY MaxTokenAssumption DEF StoreTypeOK
<1> QED
    BY <1>1 DEF StoreForward

\* An accepted update keeps the binding, and the order past "new".
LEMMA UpdateForward ==
    ASSUME StoreTypeOK, NEW a \in Attempts, NEW u \in OrderUpdate,
           UpdateAccepted(a, u), OrderUpdated(a, u)
    PROVE  /\ boundOrder[a] # NoAttempt => boundOrder'[a] = boundOrder[a]
           /\ order[a] \notin {"none", "new"} => order'[a] \notin {"none", "new"}
           /\ \A b \in Attempts \ {a} : boundOrder'[b] = boundOrder[b] /\ order'[b] = order[b]
           /\ order'[a] = u.state /\ filled'[a] = u.filled
           /\ boundOrder'[a] = IF u.bid = NoAttempt THEN boundOrder[a] ELSE u.bid
<1>1. /\ order'[a] = u.state /\ filled'[a] = u.filled
      /\ boundOrder'[a] = IF u.bid = NoAttempt THEN boundOrder[a] ELSE u.bid
      /\ \A b \in Attempts \ {a} : boundOrder'[b] = boundOrder[b] /\ order'[b] = order[b]
    BY DEF OrderUpdated, StoreTypeOK
<1>2. LegalTransition(order[a], u.state) /\ ~IdentityChanged(a, u)
    BY DEF UpdateAccepted, UpdateContradicts
<1>3. order[a] \notin {"none", "new"} => u.state \notin {"none", "new"}
    BY <1>2 DEF LegalTransition, Advances
<1>4. boundOrder[a] # NoAttempt => u.bid \in {NoAttempt, boundOrder[a]}
    BY <1>2 DEF IdentityChanged
<1> QED
    BY <1>1, <1>3, <1>4

LEMMA StoreStepForward ==
    ASSUME StoreTypeOK, Entitlements, [StoreNext]_storeVars, NEW b \in Attempts
    PROVE  StoreForward(b)
<1>0. token[b] \in Nat /\ replays[b] \in Nat
    BY MaxTokenAssumption DEF StoreTypeOK
<1>1. ASSUME UNCHANGED <<attemptVars, bookVars>> PROVE StoreForward(b)
    BY <1>1, RowForward DEF attemptVars, bookVars
<1>2. CASE ActivateGlobalHalt \/ ResumeGlobalHalt \/ UNCHANGED storeVars
    BY <1>1, <1>2 DEF ActivateGlobalHalt, ResumeGlobalHalt, storeVars
<1>3. ASSUME NEW a \in Attempts, StageAttempt(a) \/ FailPendingAttempt(a) PROVE StoreForward(b)
  <2>1. UNCHANGED <<token, sent, replays, boundOrder>>
    BY <1>3 DEF StageAttempt, FailPendingAttempt
  <2>2. \/ state[a] = "none" /\ state' = [state EXCEPT ![a] = "pending"]
        \/ state[a] = "pending" /\ state' = [state EXCEPT ![a] = "failed"]
    BY <1>3 DEF StageAttempt, FailPendingAttempt
  <2>3. StageAttempt(a) => order[a] = "none"
    BY DEF StageAttempt, Entitlements, EntitledOne
  <2>4. order[b] \notin {"none", "new"} => order'[b] \notin {"none", "new"}
    BY <1>3, <2>3 DEF StageAttempt, FailPendingAttempt, StoreTypeOK
  <2> QED
    BY <1>0, <2>1, <2>2, <2>4 DEF StoreForward, StoreTypeOK
<1>4. ASSUME NEW a \in Attempts, LeaseExpires(a) PROVE StoreForward(b)
    BY <1>4, RowForward DEF LeaseExpires, bookVars
<1>5. ASSUME NEW a \in Attempts, NEW tok, MarkAttemptSent(a, tok) \/ MarkAttemptReplayed(a, tok)
      PROVE  StoreForward(b)
  <2>1. UNCHANGED <<state, token, order, boundOrder>>
    BY <1>5 DEF MarkAttemptSent, MarkAttemptReplayed, bookVars
  <2>2. (sent[b] => sent'[b]) /\ replays'[b] >= replays[b]
    <3>1. CASE MarkAttemptSent(a, tok)
      BY <1>0, <3>1 DEF MarkAttemptSent, StoreTypeOK
    <3>2. CASE MarkAttemptReplayed(a, tok)
      BY <1>0, <3>2 DEF MarkAttemptReplayed, StoreTypeOK
    <3> QED
      BY <1>5, <3>1, <3>2
  <2> QED
    BY <1>0, <2>1, <2>2 DEF StoreForward
<1>6. ASSUME NEW a \in Attempts, NEW expected \in {"pending", "claimed", "unknown"}, NEW tok,
             ClaimAttempt(a, expected, tok)
      PROVE  StoreForward(b)
  <2>1. /\ UNCHANGED <<sent, replays, order, boundOrder>> /\ state[a] = expected
        /\ state' = [state EXCEPT ![a] = "claimed"] /\ token' = [token EXCEPT ![a] = @ + 1]
    BY <1>6 DEF ClaimAttempt, bookVars
  <2>2. token'[b] >= token[b] /\ (b = a => token'[b] # token[b])
    BY <1>0, <2>1 DEF StoreTypeOK
  <2>3. IF b = a THEN state'[b] = "claimed" ELSE state'[b] = state[b]
    BY <2>1 DEF StoreTypeOK
  <2> QED
    BY <1>0, <2>1, <2>2, <2>3 DEF StoreForward
<1>7. ASSUME NEW a \in Attempts, NEW tok, NEW r \in Resolutions(a), ResolveAttempt(a, tok, r)
      PROVE  StoreForward(b)
  <2>1. r \in ResolutionShape
    BY ResolutionTyped
  <2>2. /\ UNCHANGED <<token, sent, replays>> /\ state[a] = "claimed"
        /\ state' = [state EXCEPT ![a] = r.state]
    BY <1>7 DEF ResolveAttempt, ResolveFenceHeld
  <2>3. r.state \in {"unknown", "placed", "settled", "failed"} /\ r.update \in OrderUpdate
    BY <2>1 DEF ResolutionShape
  <2>4. /\ boundOrder[b] # NoAttempt => boundOrder'[b] = boundOrder[b]
        /\ order[b] \notin {"none", "new"} => order'[b] \notin {"none", "new"}
    <3>1. CASE r.update = NoUpdate
      BY <1>7, <3>1 DEF ResolveAttempt
    <3>2. CASE r.update # NoUpdate
      BY <1>7, <2>3, <3>2, UpdateForward DEF ResolveAttempt
    <3> QED
      BY <3>1, <3>2
  <2>5. IF b = a THEN state'[b] = r.state ELSE state'[b] = state[b]
    BY <2>2 DEF StoreTypeOK
  <2> QED
    BY <1>0, <2>2, <2>3, <2>4, <2>5 DEF StoreForward
<1>8. ASSUME NEW a \in Attempts, NEW u \in OrderUpdate, ApplyOrderUpdate(a, u)
      PROVE  StoreForward(b)
  <2>1. UNCHANGED <<token, sent, replays>>
    BY <1>8 DEF ApplyOrderUpdate
  <2>2. /\ boundOrder[b] # NoAttempt => boundOrder'[b] = boundOrder[b]
        /\ order[b] \notin {"none", "new"} => order'[b] \notin {"none", "new"}
    BY <1>8, UpdateForward DEF ApplyOrderUpdate
  <2>3. state'[b] = state[b] \/ (state[b] = "placed" /\ state'[b] \in {"placed", "settled", "failed"})
    BY <1>8 DEF ApplyOrderUpdate, StoreTypeOK
  <2> QED
    BY <1>0, <2>1, <2>2, <2>3 DEF StoreForward
<1>9. ASSUME IntegrityHalt PROVE StoreForward(b)
    BY <1>1, <1>9 DEF IntegrityHalt
<1> QED
    BY <1>2, <1>3, <1>4, <1>5, <1>6, <1>7, <1>8, <1>9
       DEF StoreNext, ResolveIntegrityFailure, ApplyIntegrityFailure

\* The gate lets go of an attempt only when it is resolved.
LEMMA LatchKept ==
    ASSUME StoreTypeOK, GateExclusive, [StoreNext]_storeVars, NEW a \in Attempts,
           a \in {active, unknown}, Unresolved(a)'
    PROVE  a \in {active', unknown'}
<1>1. CASE UNCHANGED gateVars
    BY <1>1 DEF gateVars
<1>2. ASSUME NEW b \in Attempts, NEW expected, NEW tok, ClaimAttempt(b, expected, tok)
      PROVE  a \in {active', unknown'}
  <2>1. UsesGate(b) => b = a
    BY <1>2, NoAttemptAssumption DEF ClaimAttempt, GateAllows, GateEmpty, StoreTypeOK
  <2> QED
    BY <1>2, <2>1 DEF ClaimAttempt
<1>3. ASSUME NEW b \in Attempts, NEW tok, NEW r \in Resolutions(b), ResolveAttempt(b, tok, r)
      PROVE  a \in {active', unknown'}
  <2>1. r.state # "claimed"
    BY ResolutionTyped DEF ResolutionShape
  <2>2. b = a => r.state = "unknown"
    BY <1>3, <2>1 DEF ResolveAttempt, Unresolved, StoreTypeOK
  <2>3. active = NoAttempt \/ unknown = NoAttempt
    BY DEF GateExclusive
  <2> QED
    BY <1>3, <2>2, <2>3, NoAttemptAssumption DEF ResolveAttempt
<1> QED
  <2>1. CASE ActivateGlobalHalt \/ ResumeGlobalHalt \/ IntegrityHalt \/ UNCHANGED storeVars
    BY <1>1, <2>1 DEF ActivateGlobalHalt, ResumeGlobalHalt, IntegrityHalt, storeVars
  <2>2. ASSUME NEW b \in Attempts, NEW tok, NEW u,
               \/ StageAttempt(b) \/ FailPendingAttempt(b) \/ LeaseExpires(b)
               \/ MarkAttemptSent(b, tok) \/ MarkAttemptReplayed(b, tok) \/ ApplyOrderUpdate(b, u)
        PROVE  UNCHANGED gateVars
    BY <2>2 DEF StageAttempt, FailPendingAttempt, LeaseExpires, MarkAttemptSent,
                MarkAttemptReplayed, ApplyOrderUpdate, gateVars
  <2> QED
    BY <1>1, <1>2, <1>3, <2>1, <2>2 DEF StoreNext, ResolveIntegrityFailure, ApplyIntegrityFailure

-----------------------------------------------------------------------------
(* Resolutions                                                             *)

LEMMA SimpleResolutions ==
    ASSUME NEW a \in Attempts, NEW c \in Attempts \cup {NoAttempt}
    PROVE  /\ Refusal \in Resolutions(a) /\ Uncertain(c) \in Resolutions(a)
           /\ IsPlace(a) => RejectedRefusal \in Resolutions(a)
           /\ Refusal.update.bid = NoAttempt /\ Refusal.state = "failed"
           /\ Uncertain(c).update.bid = NoAttempt /\ Uncertain(c).state = "unknown"
           /\ RejectedRefusal.update.bid = NoAttempt /\ RejectedRefusal.state = "failed"
<1>1. /\ Refusal \in Resolutions(a) /\ Uncertain(c) \in Resolutions(a)
      /\ IsPlace(a) => RejectedRefusal \in Resolutions(a)
    BY DEF Resolutions
<1>2. /\ Refusal.update.bid = NoAttempt /\ Refusal.state = "failed"
      /\ Uncertain(c).update.bid = NoAttempt /\ Uncertain(c).state = "unknown"
      /\ RejectedRefusal.update.bid = NoAttempt /\ RejectedRefusal.state = "failed"
    BY DEF Refusal, RejectedRefusal, Uncertain, Resolution, NoUpdate
<1> QED
    BY <1>1, <1>2

\* What resolutionForOrder says of the order that was read.
LEMMA OrderResolution ==
    ASSUME NEW a \in Attempts, NEW u \in OrderUpdate
    PROVE  LET r == ResolutionForOrder(a, u)
           IN  /\ r \in ResolutionShape /\ r.candidate = NoAttempt
               /\ r.update = IF a \in Cancels THEN NoUpdate ELSE u
               /\ a \in Cancels /\ r.state = "settled" => u.state \in Ended
               /\ a \notin Cancels => r.state # "unknown"
               /\ r.release => u.state \in TerminalUnfilled
<1>1. NoUpdate \in OrderUpdate
    BY QtyAssumption DEF NoUpdate, OrderUpdate, OrderStates
<1> QED
    BY <1>1 DEF ResolutionForOrder, Resolution, ResolutionShape, Cancels, Ended, TerminalUnfilled,
                NoStatus, Statuses

LEMMA OrderResolutionAdmitted ==
    ASSUME NEW a \in Attempts, NEW u \in OrderUpdate, ProviderRead(u),
           NEW c \in Attempts \cup {NoAttempt}
    PROVE  /\ ResolutionForOrder(a, u) \in Resolutions(a)
           /\ [ResolutionForOrder(a, u) EXCEPT !.candidate = c] \in Resolutions(a)
<1>1. [ResolutionForOrder(a, u) EXCEPT !.candidate = c] \in Resolutions(a)
    BY DEF Resolutions
<1>2. [ResolutionForOrder(a, u) EXCEPT !.candidate = NoAttempt] \in Resolutions(a)
    BY DEF Resolutions
<1>3. [ResolutionForOrder(a, u) EXCEPT !.candidate = NoAttempt] = ResolutionForOrder(a, u)
  <2>1. \A r \in ResolutionShape : r.candidate = NoAttempt => [r EXCEPT !.candidate = NoAttempt] = r
    BY DEF ResolutionShape
  <2> QED
    BY <2>1, OrderResolution
<1> QED
    BY <1>1, <1>2, <1>3

\* A resolution with a provider order is what the provider said of it, and gives
\* the reservation back only when the order ended without a full fill.
LEMMA ResolutionParts ==
    ASSUME NEW a \in Attempts, NEW r \in Resolutions(a)
    PROVE  /\ r.update.bid # NoAttempt =>
                /\ ProviderRead(r.update) /\ r.state # "unknown"
                /\ r.release => r.update.state \in TerminalUnfilled
           /\ r.update.bid = NoAttempt => r.update.filled = 0
<1>1. CASE r = Refusal \/ r = RejectedRefusal
    BY <1>1 DEF Refusal, RejectedRefusal, Resolution, NoUpdate
<1>2. ASSUME NEW c \in Attempts \cup {NoAttempt}, r = Uncertain(c)
      PROVE  r.update.bid = NoAttempt /\ r.update.filled = 0
    BY <1>2 DEF Uncertain, Resolution, NoUpdate
<1>3. ASSUME NEW u \in OrderUpdate, ProviderRead(u), NEW c \in Attempts \cup {NoAttempt},
             r = [ResolutionForOrder(a, u) EXCEPT !.candidate = c]
      PROVE  /\ r.update.bid # NoAttempt =>
                  /\ ProviderRead(r.update) /\ r.state # "unknown"
                  /\ r.release => r.update.state \in TerminalUnfilled
             /\ r.update.bid = NoAttempt => r.update.filled = 0
  <2> DEFINE q == ResolutionForOrder(a, u)
  <2>1. /\ q \in ResolutionShape
        /\ q.update = IF a \in Cancels THEN NoUpdate ELSE u
        /\ a \notin Cancels => q.state # "unknown"
        /\ q.release => u.state \in TerminalUnfilled
    BY OrderResolution
  <2>2. r.update = q.update /\ r.state = q.state /\ r.release = q.release
    <3> HIDE DEF q
    <3> QED
      BY <1>3, <2>1 DEF ResolutionShape, q
  <2>3. a \in Cancels => r.update.bid = NoAttempt /\ r.update.filled = 0
    BY <2>1, <2>2 DEF NoUpdate
  <2>4. a \notin Cancels => r.update = u /\ r.update.bid # NoAttempt
    BY <1>3, <2>1, <2>2 DEF ProviderRead
  <2> HIDE DEF q
  <2> QED
    BY <1>3, <2>1, <2>2, <2>3, <2>4
<1>4. \/ r = Refusal \/ r = RejectedRefusal
      \/ \E c \in Attempts \cup {NoAttempt} : r = Uncertain(c)
      \/ \E u \in OrderUpdate, c \in Attempts \cup {NoAttempt} :
            ProviderRead(u) /\ r = [ResolutionForOrder(a, u) EXCEPT !.candidate = c]
    BY DEF Resolutions
<1> QED
    BY <1>1, <1>2, <1>3, <1>4

LEMMA ResolutionIsResolved ==
    ASSUME NEW a \in Attempts, NEW r \in Resolutions(a)
    PROVE  r \in Resolved
<1>1. r \in ResolutionShape
    BY ResolutionTyped
<1> QED
    BY <1>1 DEF ResolutionShape, Resolved, AttemptStates

-----------------------------------------------------------------------------
(* What a worker knows stays true while others move                        *)

\* The broker never takes an order or a fill back, and an ended order stands.
BrokerForward(a) ==
    /\ created'[a] >= created[a]
    /\ brokerOrder'[a].filled >= brokerOrder[a].filled
    /\ brokerOrder[a].state \in Ended => brokerOrder'[a] = brokerOrder[a]

LEMMA PastKept ==
    ASSUME LiveTypeOK, LiveTypeOK', NEW u \in OrderUpdate, u.bid # NoAttempt, BrokerForward(u.bid), Past(u)
    PROVE  /\ u.filled <= brokerOrder'[u.bid].filled
           /\ u.state \in Ended =>
                u = [bid |-> u.bid, state |-> brokerOrder'[u.bid].state, filled |-> brokerOrder'[u.bid].filled]
<1>1. u.bid \in Attempts /\ u.filled \in Nat
    BY QtyAssumption DEF OrderUpdate
<1>2. brokerOrder[u.bid].filled \in Nat /\ brokerOrder'[u.bid].filled \in Nat
    BY <1>1, QtyAssumption DEF LiveTypeOK
<1>3. u.filled <= brokerOrder'[u.bid].filled
    BY <1>1, <1>2 DEF Past, BrokerForward
<1>4. u.state \in Ended => u = [bid |-> u.bid, state |-> brokerOrder[u.bid].state, filled |-> brokerOrder[u.bid].filled]
    BY DEF Past, Read
<1>5. u.state \in Ended => brokerOrder[u.bid].state \in Ended
  <2>1. u.state \in Ended => u.state = brokerOrder[u.bid].state
    BY <1>4
  <2> QED
    BY <2>1
<1> QED
    BY <1>3, <1>4, <1>5 DEF BrokerForward

LEMMA WorkerKept ==
    ASSUME LiveTypeOK, LiveTypeOK', NEW v \in Workers, NEW a \in Attempts, WorkerFact(v, a),
           worker'[v] = worker[v],
           \A b \in Attempts : StoreForward(b) /\ BrokerForward(b),
           worker[v].att = a /\ worker[v].pc = "call" => request'[a][Ordinal(v)] = request[a][Ordinal(v)],
           worker[v].att = a /\ worker[v].pc \in Driving /\ Fenced(v, a) =>
               /\ sent'[a] = sent[a] /\ replays'[a] = replays[a]
               /\ Quiet(a) => Quiet(a)'
    PROVE  WorkerFact(v, a)'
<1>0. /\ worker[v].tok \in Nat /\ token[a] \in Nat /\ token'[a] \in Nat
      /\ worker[v].pc \in Pcs /\ worker[v].plan.update \in OrderUpdate
      /\ replays[a] \in 0..1 /\ replays'[a] \in 0..1
    BY WorkerTyped, MaxTokenAssumption DEF LiveTypeOK, StoreTypeOK
<1>1. worker[v].att = a /\ worker[v].pc \in Driving /\ Fenced(v, a)' => Fenced(v, a)
    BY <1>0 DEF Fenced, WorkerFact, DriveFact, StoreForward
<1>2. DriveFact(v, a)'
    BY <1>0, <1>1 DEF WorkerFact, DriveFact, StoreForward, Ordinal, Driving, Pcs
<1> DEFINE u == worker[v].plan.update
<1>3. u.bid # NoAttempt /\ Past(u) => Past(u)'
  <2> SUFFICES ASSUME u.bid # NoAttempt, Past(u) PROVE Past(u)'
    OBVIOUS
  <2>1. u.bid \in Attempts
    BY <1>0 DEF OrderUpdate
  <2>2. BrokerForward(u.bid)
    BY <2>1
  <2>3. /\ u.filled <= brokerOrder'[u.bid].filled
        /\ u.state \in Ended =>
             u = [bid |-> u.bid, state |-> brokerOrder'[u.bid].state, filled |-> brokerOrder'[u.bid].filled]
    BY <1>0, <2>2, PastKept
  <2> QED
    BY <2>3 DEF Past, Read
<1>4. u.bid # NoAttempt => u.bid \in Attempts
    BY <1>0 DEF OrderUpdate
<1>5. u.bid # NoAttempt /\ created[u.bid] > 0 => created'[u.bid] > 0
  <2>1. u.bid # NoAttempt => created[u.bid] \in Nat /\ created'[u.bid] \in Nat
    BY <1>4 DEF LiveTypeOK
  <2> QED
    BY <1>4, <2>1 DEF BrokerForward
<1>6. u.bid # NoAttempt /\ boundOrder[u.bid] = u.bid => boundOrder'[u.bid] = u.bid
    BY <1>4 DEF StoreForward
<1>7. a \in Cancels /\ brokerOrder[Target[a]].state \in Ended => brokerOrder'[Target[a]].state \in Ended
    BY TargetAssumption DEF BrokerForward, Places
<1>8. PlanFact(v, a)'
  <2>1. worker[v].pc = "resolve" => worker[v].pc \in Driving
    BY DEF Driving, Pcs
  <2> QED
    BY <1>1, <1>3, <1>5, <1>6, <1>7, <2>1 DEF WorkerFact, PlanFact
<1>9. ApplyFact(v, a)'
  <2>1. boundOrder[a] = a => boundOrder'[a] = a
    BY NoAttemptAssumption DEF StoreForward
  <2>2. order[a] \notin {"none", "new"} => order'[a] \notin {"none", "new"}
    BY DEF StoreForward
  <2> QED
    BY <1>3, <2>1, <2>2, NoAttemptAssumption DEF WorkerFact, ApplyFact
<1> QED
    BY <1>2, <1>8, <1>9 DEF WorkerFact

-----------------------------------------------------------------------------
(* Steps that change one worker only                                       *)

WorkerRecord == [pc : Pcs, att : Attempts \cup {NoAttempt}, tok : 0..MaxToken,
                 replay : BOOLEAN, plan : Resolved]

\* Worker w turns to another step; store and broker stand still.
Thinks(w) ==
    /\ UNCHANGED <<storeVars, brokerVars, cutSends>>
    /\ worker' \in [Workers -> WorkerRecord]
    /\ \A v \in Workers \ {w} : worker'[v] = worker[v]
    /\ worker'[w].pc # "call"
    /\ worker'[w].pc \in Driving =>
         worker[w].pc \in Driving /\ worker'[w].att = worker[w].att /\ worker'[w].tok = worker[w].tok

LEMMA QuietThoughThinking ==
    ASSUME LiveTypeOK, NEW w \in Workers, Thinks(w), NEW a \in Attempts, Quiet(a)
    PROVE  Quiet(a)'
<1>1. UNCHANGED <<created, request>>
    BY DEF Thinks, brokerVars
<1>2. \A v \in Workers : ~(worker'[v].att = a /\ worker'[v].pc = "call")
    BY DEF Thinks, Quiet
<1> QED
    BY <1>1, <1>2 DEF Quiet

LEMMA ThinkingKeepsInv ==
    ASSUME LiveInv, NEW w \in Workers, Thinks(w), ShapeFact(w)', \A a \in Attempts : WorkerFact(w, a)'
    PROVE  LiveInv'
<1>1. UNCHANGED storeVars /\ UNCHANGED brokerVars /\ UNCHANGED cutSends
    BY DEF Thinks
<1>2. LiveTypeOK' /\ GateExclusive' /\ Entitlements'
  <2>1. StoreTypeOK' /\ GateExclusive' /\ Entitlements'
    BY <1>1, StoreStepTyped, StoreStepKeepsGate, StoreStepKeepsEntitlements DEF LiveInv, LiveTypeOK
  <2> QED
    BY <1>1, <2>1 DEF LiveInv, LiveTypeOK, Thinks, brokerVars, WorkerRecord
<1>3. ASSUME NEW a \in Attempts PROVE StoreForward(a) /\ BrokerForward(a)
  <2>1. StoreForward(a)
    BY <1>1, StoreStepForward DEF LiveInv, LiveTypeOK
  <2>2. created[a] \in Nat /\ brokerOrder[a].filled \in Nat
    BY QtyAssumption DEF LiveInv, LiveTypeOK
  <2> QED
    BY <1>1, <2>1, <2>2 DEF BrokerForward, brokerVars
<1>4. ASSUME NEW a \in Attempts PROVE AttemptFact(a)'
  <2>0. BrokerFact(a) /\ SendFact(a) /\ BookFact(a) /\ CancelFact(a)
    BY DEF LiveInv, AttemptFact
  <2>1. BrokerFact(a)'
    BY <1>1, <2>0 DEF BrokerFact, brokerVars, Read
  <2>2. SendFact(a)'
    BY <1>1, <2>0 DEF SendFact, Sends, brokerVars, storeVars, attemptVars, gateVars
  <2>3. Quiet(a) => Quiet(a)'
    BY QuietThoughThinking DEF LiveInv
  <2>4. BookFact(a)'
    BY <1>1, <2>0, <2>3 DEF BookFact, brokerVars, storeVars, attemptVars, bookVars, Entitled
  <2>5. CancelFact(a)'
    BY <1>1, <2>0 DEF CancelFact, brokerVars, storeVars, attemptVars, bookVars
  <2> QED
    BY <2>1, <2>2, <2>4, <2>5 DEF AttemptFact
<1>5. ASSUME NEW v \in Workers PROVE ShapeFact(v)'
    BY DEF LiveInv, ShapeFact, Thinks
<1>6. ASSUME NEW v \in Workers, NEW a \in Attempts PROVE WorkerFact(v, a)'
  <2>1. CASE v = w
    BY <2>1
  <2>2. CASE v # w
    <3>1. worker'[v] = worker[v] /\ WorkerFact(v, a) /\ LiveTypeOK
      BY <2>2 DEF Thinks, LiveInv
    <3>2. UNCHANGED <<request, sent, replays>>
      BY <1>1 DEF brokerVars, storeVars, attemptVars
    <3>3. Quiet(a) => Quiet(a)'
      BY QuietThoughThinking DEF LiveInv
    <3> QED
      BY <1>2, <1>3, <3>1, <3>2, <3>3, WorkerKept
  <2> QED
    BY <2>1, <2>2
<1>7. ASSUME NEW u \in Workers, NEW v \in Workers, NEW a \in Attempts PROVE PairFact(u, v, a)'
    BY DEF LiveInv, PairFact, Thinks, Driving
<1> QED
    BY <1>2, <1>4, <1>5, <1>6, <1>7 DEF LiveInv

LEMMA IdleTyped == Idle \in WorkerRecord /\ Idle.pc = "idle" /\ Idle.replay = FALSE
<1>1. NoUpdate \in OrderUpdate
    BY QtyAssumption DEF NoUpdate, OrderUpdate, OrderStates
<1> QED
    BY <1>1, MaxTokenAssumption
       DEF Idle, NoPlan, Uncertain, Resolution, NoStatus, WorkerRecord, Resolved, AttemptStates, Statuses, Pcs

\* A worker that will store nothing more.
LEMMA IdleKeepsInv ==
    ASSUME LiveInv, NEW w \in Workers, Done(w), UNCHANGED <<storeVars, brokerVars, cutSends>>
    PROVE  LiveInv'
<1>1. Idle \in WorkerRecord /\ Idle.pc = "idle" /\ Idle.replay = FALSE
    BY IdleTyped
<1>2. worker \in [Workers -> WorkerRecord]
    BY DEF LiveInv, LiveTypeOK, WorkerRecord
<1>3. worker' = [worker EXCEPT ![w] = Idle]
    BY DEF Done
<1>4. worker'[w] = Idle /\ worker' \in [Workers -> WorkerRecord]
    BY <1>1, <1>2, <1>3
<1>5. Thinks(w)
    BY <1>1, <1>2, <1>3, <1>4 DEF Thinks, Driving
<1>6. ShapeFact(w)' /\ \A a \in Attempts : WorkerFact(w, a)'
    BY <1>1, <1>4 DEF ShapeFact, WorkerFact, DriveFact, PlanFact, ApplyFact, Driving
<1> QED
    BY <1>5, <1>6, ThinkingKeepsInv

\* What is quiet once worker w does not call.
QuietBut(w, a) ==
    /\ created[a] = 0
    /\ \A n \in Ordinals : request[a][n] \in {"none", "refused"}
    /\ \A v \in Workers \ {w} : ~(worker[v].att = a /\ worker[v].pc = "call")

\* A worker that decides on a resolution.
LEMMA PlanKeepsInv ==
    ASSUME LiveInv, NEW w \in Workers, NEW a \in Attempts, NEW r \in Resolutions(a),
           worker[w].att = a, worker[w].pc \in Driving, Plan(w, r),
           UNCHANGED <<storeVars, brokerVars, cutSends>>,
           r.update.bid # NoAttempt =>
             /\ IsPlace(a) /\ Past(r.update) /\ created[r.update.bid] > 0
             /\ r.update.bid = a \/ boundOrder[r.update.bid] = r.update.bid,
           IsPlace(a) /\ r.state # "unknown" /\ r.update.bid = NoAttempt /\ Fenced(w, a) => QuietBut(w, a),
           a \in Cancels /\ r.state = "settled" => brokerOrder[Target[a]].state \in Ended
    PROVE  LiveInv'
<1>0. r \in Resolved
    BY ResolutionIsResolved
<1>1. worker \in [Workers -> WorkerRecord] /\ LiveTypeOK /\ ShapeFact(w) /\ WorkerFact(w, a)
    BY DEF LiveInv, LiveTypeOK, WorkerRecord
<1>2. worker' = [worker EXCEPT ![w] = [@ EXCEPT !.pc = "resolve", !.plan = r]]
    BY <1>1 DEF Plan, WorkerRecord
<1>3. /\ worker'[w] \in WorkerRecord /\ worker'[w].pc = "resolve" /\ worker'[w].plan = r
      /\ worker'[w].att = a /\ worker'[w].tok = worker[w].tok /\ worker'[w].replay = worker[w].replay
  <2>1. worker'[w] = [worker[w] EXCEPT !.pc = "resolve", !.plan = r] /\ worker[w] \in WorkerRecord
    BY <1>1, <1>2
  <2> QED
    BY <1>0, <2>1 DEF WorkerRecord, Pcs
<1>4. worker' \in [Workers -> WorkerRecord] /\ \A v \in Workers \ {w} : worker'[v] = worker[v]
    BY <1>1, <1>2, <1>3
<1>5. Thinks(w)
    BY <1>3, <1>4 DEF Thinks
<1>6. UNCHANGED <<state, token, sent, boundOrder, created, brokerOrder>>
    BY DEF storeVars, attemptVars, bookVars, brokerVars
<1>7. ShapeFact(w)'
    BY <1>1, <1>3 DEF ShapeFact
<1>8. ASSUME NEW b \in Attempts PROVE WorkerFact(w, b)'
  <2>1. DriveFact(w, b)'
    BY <1>1, <1>3, <1>6 DEF WorkerFact, DriveFact, Driving
  <2>2. QuietBut(w, a) => Quiet(a)'
    BY <1>3, <1>4 DEF QuietBut, Quiet, brokerVars
  <2>3. PlanFact(w, b)'
    BY <1>3, <1>6, <2>2 DEF PlanFact, Past, Read, Fenced
  <2>4. ApplyFact(w, b)'
    BY <1>3 DEF ApplyFact
  <2> QED
    BY <2>1, <2>3, <2>4 DEF WorkerFact
<1> QED
    BY <1>5, <1>7, <1>8, ThinkingKeepsInv

\* What was never marked as sent has not reached the broker.
LEMMA UnsentIsQuiet ==
    ASSUME LiveInv, NEW a \in Attempts, ~sent[a]
    PROVE  Quiet(a)
<1>1. BrokerFact(a) /\ SendFact(a)
    BY DEF LiveInv, AttemptFact
<1>2. \A n \in Ordinals : request[a][n] = "none"
    BY <1>1 DEF SendFact, Ordinals
<1>3. created[a] = 0
    BY <1>1, <1>2 DEF BrokerFact, LiveInv, LiveTypeOK
<1>4. \A w \in Workers : ~(worker[w].att = a /\ worker[w].pc = "call")
    BY DEF LiveInv, WorkerFact, DriveFact
<1> QED
    BY <1>2, <1>3, <1>4 DEF Quiet

\* A worker that goes on towards the send marker.
LEMMA OnwardKeepsInv ==
    ASSUME LiveInv, NEW w \in Workers, UNCHANGED <<storeVars, brokerVars, cutSends>>,
           NEW pc \in {"pre_effect", "mark"}, NEW replay \in BOOLEAN,
           worker' = [worker EXCEPT ![w] = [@ EXCEPT !.pc = pc, !.replay = replay]],
           worker[w].pc \in {"recover", "pre_effect", "query"},
           replay => IsPlace(worker[w].att) /\ worker[w].att \in ReplayVerified,
           ~replay => ~worker[w].replay /\ worker[w].pc # "query"
    PROVE  LiveInv'
<1>1. worker \in [Workers -> WorkerRecord] /\ ShapeFact(w) /\ \A a \in Attempts : WorkerFact(w, a)
    BY DEF LiveInv, LiveTypeOK, WorkerRecord
<1>2. /\ worker'[w] \in WorkerRecord /\ worker'[w].pc = pc /\ worker'[w].replay = replay
      /\ worker'[w].att = worker[w].att /\ worker'[w].tok = worker[w].tok
  <2> DEFINE x == worker[w]
             y == [x EXCEPT !.pc = pc, !.replay = replay]
  <2>1. worker'[w] = y /\ x \in WorkerRecord /\ pc \in Pcs
    BY <1>1 DEF Pcs
  <2>2. /\ y \in WorkerRecord /\ y.pc = pc /\ y.replay = replay
        /\ y.att = x.att /\ y.tok = x.tok
    <3> HIDE DEF x
    <3> QED
      BY <2>1 DEF WorkerRecord
  <2> HIDE DEF y
  <2> QED
    BY <2>1, <2>2, Zenon
<1>3. worker' \in [Workers -> WorkerRecord] /\ \A v \in Workers \ {w} : worker'[v] = worker[v]
    BY <1>1, <1>2
<1>4. Thinks(w)
    BY <1>2, <1>3 DEF Thinks, Driving, Pcs
<1>5. ShapeFact(w)'
    BY <1>1, <1>2 DEF ShapeFact
<1>6. UNCHANGED <<state, token, sent, replays>>
    BY DEF storeVars, attemptVars
<1>7. ASSUME NEW a \in Attempts PROVE WorkerFact(w, a)'
  <2>1. DriveFact(w, a)'
    BY <1>1, <1>2, <1>6 DEF WorkerFact, DriveFact, Driving, Pcs, Fenced
  <2>2. PlanFact(w, a)' /\ ApplyFact(w, a)'
    BY <1>2 DEF PlanFact, ApplyFact
  <2> QED
    BY <2>1, <2>2 DEF WorkerFact
<1> QED
    BY <1>4, <1>5, <1>7, ThinkingKeepsInv

\* Goto and Plan of a worker record with its fields in sight.
LEMMA GotoIs ==
    ASSUME LiveTypeOK, NEW w \in Workers, NEW pc, Goto(w, pc)
    PROVE  worker' = [worker EXCEPT ![w] = [@ EXCEPT !.pc = pc, !.replay = worker[w].replay]]
<1>1. worker \in [Workers -> WorkerRecord]
    BY DEF LiveTypeOK, WorkerRecord
<1>2. worker' = [worker EXCEPT ![w] = [@ EXCEPT !.pc = pc]]
    BY <1>1 DEF Goto
<1>3. [worker[w] EXCEPT !.pc = pc] = [worker[w] EXCEPT !.pc = pc, !.replay = worker[w].replay]
  <2>1. worker[w] \in WorkerRecord
    BY <1>1
  <2> QED
    BY <2>1 DEF WorkerRecord
<1> QED
    BY <1>1, <1>2, <1>3

\* An unsent attempt may be refused, a replay only left unknown.
LEMMA RefusedKeepsInv ==
    ASSUME LiveInv, NEW w \in Workers, NEW a \in Attempts, worker[w].att = a, worker[w].pc \in Driving,
           UNCHANGED <<storeVars, brokerVars, cutSends>>,
           IsPlace(a) /\ ~worker[w].replay /\ Fenced(w, a) => QuietBut(w, a),
           \/ Plan(w, Refused(w))
           \/ Plan(w, Uncertain(NoAttempt))
           \/ IsPlace(a) /\ ~worker[w].replay /\ Plan(w, RejectedRefusal)
    PROVE  LiveInv'
<1>1. CASE Plan(w, Uncertain(NoAttempt))
    BY <1>1, SimpleResolutions, PlanKeepsInv
<1>2. CASE ~worker[w].replay /\ Plan(w, Refusal)
    BY <1>2, SimpleResolutions, PlanKeepsInv
<1>3. CASE IsPlace(a) /\ ~worker[w].replay /\ Plan(w, RejectedRefusal)
    BY <1>3, SimpleResolutions, PlanKeepsInv
<1> QED
    BY <1>1, <1>2, <1>3 DEF Refused

LEMMA RecoverUnsentKeepsInv ==
    ASSUME LiveInv, NEW w \in Workers, RecoverUnsent(w)
    PROVE  LiveInv'
<1> DEFINE a == worker[w].att
<1>1. worker[w].pc = "recover" /\ UNCHANGED <<storeVars, brokerVars, cutSends>>
    BY DEF RecoverUnsent
<1>2. a \in Attempts /\ IsPlace(a) /\ worker[w].replay = FALSE /\ WorkerFact(w, a) /\ LiveTypeOK
    BY <1>1, WorkerTyped DEF LiveInv, ShapeFact
<1>3. Fenced(w, a) => QuietBut(w, a)
    BY <1>1, <1>2, UnsentIsQuiet DEF WorkerFact, DriveFact, Quiet, QuietBut
<1>4. CASE Plan(w, RejectedRefusal)
    BY <1>1, <1>2, <1>3, <1>4, RefusedKeepsInv DEF Driving, Pcs
<1>5. CASE Goto(w, "pre_effect")
    BY <1>1, <1>2, <1>5, GotoIs, OnwardKeepsInv
<1> QED
    BY <1>4, <1>5 DEF RecoverUnsent

LEMMA PreEffectKeepsInv ==
    ASSUME LiveInv, NEW w \in Workers, PreEffect(w)
    PROVE  LiveInv'
<1> DEFINE a == worker[w].att
<1>1. worker[w].pc = "pre_effect" /\ UNCHANGED <<storeVars, brokerVars, cutSends>>
    BY DEF PreEffect
<1>2. /\ a \in Attempts /\ worker[w].replay \in BOOLEAN /\ WorkerFact(w, a) /\ LiveTypeOK
      /\ worker[w].replay => IsPlace(a) /\ a \in ReplayVerified
    BY <1>1, WorkerTyped DEF LiveInv, ShapeFact
<1>3. ~worker[w].replay /\ Fenced(w, a) => QuietBut(w, a)
    BY <1>1, <1>2, UnsentIsQuiet DEF WorkerFact, DriveFact, Quiet, QuietBut
<1>4. CASE Plan(w, Refused(w))
    BY <1>1, <1>2, <1>3, <1>4, RefusedKeepsInv DEF Driving, Pcs
<1>5. CASE Goto(w, "mark")
    BY <1>1, <1>2, <1>5, GotoIs, OnwardKeepsInv
<1> QED
    BY <1>4, <1>5 DEF PreEffect

LEMMA MarkRefusedKeepsInv ==
    ASSUME LiveInv, NEW w \in Workers, MarkRefused(w)
    PROVE  LiveInv'
<1> DEFINE a == worker[w].att
<1>1. worker[w].pc = "mark" /\ UNCHANGED <<storeVars, brokerVars, cutSends>>
    BY DEF MarkRefused
<1>2. a \in Attempts /\ worker[w].replay \in BOOLEAN /\ WorkerFact(w, a)
    BY <1>1, WorkerTyped DEF LiveInv, ShapeFact
<1>3. ~worker[w].replay /\ Fenced(w, a) => QuietBut(w, a)
    BY <1>1, <1>2, UnsentIsQuiet DEF WorkerFact, DriveFact, Quiet, QuietBut
<1>4. ASSUME \/ Plan(w, Refused(w))
             \/ Plan(w, Uncertain(NoAttempt))
             \/ IsPlace(a) /\ ~worker[w].replay /\ Plan(w, RejectedRefusal)
      PROVE  LiveInv'
    BY <1>1, <1>2, <1>3, <1>4, RefusedKeepsInv DEF Driving, Pcs
<1>5. CASE Done(w)
    BY <1>1, <1>5, IdleKeepsInv
<1> QED
    BY <1>4, <1>5 DEF MarkRefused, SendHalted, IsPlace

\* What may be resolved to the broker's order p: a cancel aimed at it, or a
\* placement it belongs to or is mistaken for.
LEMMA ReadKeepsInv ==
    ASSUME LiveInv, NEW w \in Workers, NEW a \in Attempts, worker[w].att = a, worker[w].pc \in Driving,
           NEW p \in Attempts, NEW c \in Attempts \cup {NoAttempt},
           UNCHANGED <<storeVars, brokerVars, cutSends>>,
           a \in Cancels => p = Target[a], a \notin Cancels => IsPlace(a) /\ (p = a \/ boundOrder[p] = p),
           created[p] > 0,
           \/ Plan(w, ResolutionForOrder(a, Read(p)))
           \/ Plan(w, [ResolutionForOrder(a, Read(p)) EXCEPT !.candidate = c])
    PROVE  LiveInv'
<1> DEFINE u == Read(p)
<1>1. u \in OrderUpdate /\ ProviderRead(u) /\ u.bid = p /\ p # NoAttempt
  <2>1. BrokerFact(p) /\ brokerOrder[p] \in [state : OrderStates, filled : 0..Qty]
    BY DEF LiveInv, AttemptFact, LiveTypeOK
  <2> QED
    BY <2>1, NoAttemptAssumption DEF BrokerFact, Read, OrderUpdate
<1>2. PICK r \in Resolutions(a) :
        /\ Plan(w, r) /\ r.update = (IF a \in Cancels THEN NoUpdate ELSE u)
        /\ a \in Cancels /\ r.state = "settled" => u.state \in Ended
  <2> DEFINE q == ResolutionForOrder(a, u)
  <2>1. /\ q \in ResolutionShape /\ q.update = (IF a \in Cancels THEN NoUpdate ELSE u)
        /\ a \in Cancels /\ q.state = "settled" => u.state \in Ended
    BY <1>1, OrderResolution
  <2>2. q \in Resolutions(a) /\ [q EXCEPT !.candidate = c] \in Resolutions(a)
    BY <1>1, OrderResolutionAdmitted
  <2>3. [q EXCEPT !.candidate = c].update = q.update /\ [q EXCEPT !.candidate = c].state = q.state
    <3> HIDE DEF q
    <3> QED
      BY <2>1 DEF ResolutionShape
  <2>4. Plan(w, q) \/ Plan(w, [q EXCEPT !.candidate = c])
    OBVIOUS
  <2> HIDE DEF q, u
  <2> QED
    BY <2>1, <2>2, <2>3, <2>4
<1>3. Past(u)
  <2>1. u.filled \in Nat /\ u.filled = brokerOrder[u.bid].filled
    BY <1>1, QtyAssumption DEF Read, OrderUpdate
  <2>2. Read(u.bid) = u
    BY <1>1
  <2> QED
    BY <2>1, <2>2 DEF Past
<1>4. a \in Cancels => r.update.bid = NoAttempt
    BY <1>2 DEF NoUpdate
<1>5. a \notin Cancels => r.update = u
    BY <1>2
<1>6. a \in Cancels => ~IsPlace(a) /\ u.state = brokerOrder[Target[a]].state
    BY <1>1 DEF Cancels, IsPlace, Read
<1> HIDE DEF u
<1> QED
    BY <1>1, <1>2, <1>3, <1>4, <1>5, <1>6, PlanKeepsInv

\* The target of a cancel that has a row is the broker's.
LEMMA TargetExists ==
    ASSUME LiveInv, NEW a \in Cancels, state[a] # "none"
    PROVE  Target[a] \in Attempts /\ created[Target[a]] > 0
<1>1. Target[a] \in Attempts /\ a \in Attempts
    BY TargetAssumption DEF Places, Cancels
<1>2. boundOrder[Target[a]] = Target[a]
    BY <1>1 DEF LiveInv, AttemptFact, CancelFact
<1> QED
    BY <1>1, <1>2 DEF LiveInv, AttemptFact, BookFact

LEMMA ProviderAnswerKeepsInv ==
    ASSUME LiveInv, NEW w \in Workers, ProviderAnswer(w)
    PROVE  LiveInv'
<1> DEFINE a == worker[w].att
           answer == request[a][Ordinal(w)]
           subject == IF a \in Cancels THEN Target[a] ELSE a
<1>1. worker[w].pc = "wait" /\ worker[w].pc \in Driving /\ UNCHANGED <<storeVars, brokerVars, cutSends>>
    BY DEF ProviderAnswer, Driving, Pcs
<1>2. a \in Attempts /\ worker[w].replay \in BOOLEAN /\ WorkerFact(w, a) /\ AttemptFact(a)
    BY <1>1, WorkerTyped DEF LiveInv, ShapeFact
<1>3. CASE answer = "done" /\ Plan(w, ResolutionForOrder(a, Read(subject)))
  <2>1. UsesGate(a) /\ state[a] # "none"
    BY <1>2, <1>3 DEF AttemptFact, SendFact, Ordinal
  <2>2. CASE a \in Cancels
    BY <1>1, <1>2, <1>3, <2>1, <2>2, TargetExists, ReadKeepsInv
  <2>3. CASE a \notin Cancels
    <3>1. IsPlace(a)
      BY <1>2, <2>1, <2>3, KindAssumption DEF UsesGate, IsPlace, Cancels, Kinds
    <3>2. created[a] > 0
      BY <1>2, <1>3, <3>1 DEF AttemptFact, BrokerFact, Ordinal, Ordinals
    <3> QED
      BY <1>1, <1>2, <1>3, <2>3, <3>1, <3>2, ReadKeepsInv
  <2> QED
    BY <2>2, <2>3
<1>4. CASE answer = "refused" /\ Plan(w, Refused(w))
  <2>1. ~worker[w].replay /\ Fenced(w, a) => QuietBut(w, a)
    <3> SUFFICES ASSUME ~worker[w].replay, Fenced(w, a) PROVE QuietBut(w, a)
      OBVIOUS
    <3>1. request[a][0] = "refused" /\ replays[a] = 0
      BY <1>1, <1>2, <1>4 DEF Ordinal, WorkerFact, DriveFact
    <3>2. request[a][1] = "none"
      BY <1>2, <3>1 DEF AttemptFact, SendFact
    <3>3. created[a] = 0
      BY <1>2, <3>1, <3>2 DEF AttemptFact, BrokerFact, Ordinals, LiveInv, LiveTypeOK
    <3>4. ASSUME NEW v \in Workers, worker[v].att = a, worker[v].pc = "call" PROVE FALSE
      <4>1. request[a][Ordinal(v)] = "none" /\ (worker[v].replay => replays[a] = 1)
        BY <1>2, <3>4 DEF LiveInv, WorkerFact, DriveFact
      <4> QED
        BY <3>1, <4>1 DEF Ordinal
    <3> QED
      BY <3>1, <3>2, <3>3, <3>4 DEF QuietBut, Ordinals
  <2> QED
    BY <1>1, <1>2, <1>4, <2>1, RefusedKeepsInv
<1>5. CASE Plan(w, Uncertain(NoAttempt))
    BY <1>1, <1>2, <1>5, SimpleResolutions, PlanKeepsInv
<1> QED
    BY <1>3, <1>4, <1>5 DEF ProviderAnswer

LEMMA QueryCandidatesKeepsInv ==
    ASSUME LiveInv, NEW w \in Workers, QueryCandidates(w)
    PROVE  LiveInv'
<1> DEFINE a == worker[w].att
<1>1. worker[w].pc = "query" /\ worker[w].pc \in Driving /\ UNCHANGED <<storeVars, brokerVars, cutSends>>
    BY DEF QueryCandidates, Driving, Pcs
<1>2. a \in Attempts /\ IsPlace(a) /\ near[a] \subseteq Attempts /\ worker \in [Workers -> WorkerRecord]
    BY <1>1 DEF LiveInv, ShapeFact, LiveTypeOK, WorkerRecord
<1>3. ASSUME NEW c \in Attempts \cup {NoAttempt}, Plan(w, Uncertain(c)) PROVE LiveInv'
    BY <1>1, <1>2, <1>3, SimpleResolutions, PlanKeepsInv
<1>4. ASSUME NEW c \in Candidates(a), Plan(w, Uncertain(c)) PROVE LiveInv'
    BY <1>2, <1>3, <1>4 DEF Candidates
<1>5. CASE a \in ReplayVerified /\ worker' = [worker EXCEPT ![w].pc = "pre_effect", ![w].replay = TRUE]
  <2>1. worker' = [worker EXCEPT ![w] = [@ EXCEPT !.pc = "pre_effect", !.replay = TRUE]]
    BY <1>2, <1>5 DEF WorkerRecord
  <2> QED
    BY <1>1, <1>2, <1>5, <2>1, OnwardKeepsInv
<1> QED
    BY <1>3, <1>4, <1>5 DEF QueryCandidates

\* A candidate is an order of the broker: the attempt's own, or one that is
\* bound to its own row already.
LEMMA AdoptCandidateKeepsInv ==
    ASSUME LiveInv, NEW w \in Workers, AdoptCandidate(w)
    PROVE  LiveInv'
<1> DEFINE a == worker[w].att
           c == candidate[a]
<1>1. worker[w].pc = "adopt" /\ worker[w].pc \in Driving /\ UNCHANGED <<storeVars, brokerVars, cutSends>>
    BY DEF AdoptCandidate, Driving, Pcs
<1>2. a \in Attempts /\ IsPlace(a) /\ a \notin Cancels /\ near[a] \subseteq Attempts /\ AttemptFact(a)
    BY <1>1 DEF LiveInv, ShapeFact, LiveTypeOK, IsPlace, Cancels
<1>3. CASE Plan(w, Uncertain(NoAttempt))
    BY <1>1, <1>2, <1>3, SimpleResolutions, PlanKeepsInv
<1>4. CASE Candidates(a) = {c} /\ Plan(w, [ResolutionForOrder(a, Read(c)) EXCEPT !.candidate = c])
  <2>1. c \in near[a] \/ (c = a /\ inWindow[a])
    BY <1>4 DEF Candidates
  <2>2. c \in Attempts /\ (c = a \/ boundOrder[c] = c)
    BY <1>2, <2>1 DEF AttemptFact, BookFact
  <2>3. created[c] > 0
    <3>1. CASE c = a /\ inWindow[a]
      BY <1>2, <3>1 DEF AttemptFact, BrokerFact
    <3>2. CASE boundOrder[c] = c
      BY <2>2, <3>2 DEF LiveInv, AttemptFact, BookFact
    <3> QED
      BY <1>2, <2>1, <3>1, <3>2 DEF AttemptFact, BookFact
  <2> QED
    BY <1>1, <1>2, <1>4, <2>2, <2>3, ReadKeepsInv
<1> QED
    BY <1>3, <1>4 DEF AdoptCandidate

LEMMA QueryTargetKeepsInv ==
    ASSUME LiveInv, NEW w \in Workers, QueryTarget(w)
    PROVE  LiveInv'
<1> DEFINE a == worker[w].att
<1>1. worker[w].pc = "target" /\ worker[w].pc \in Driving /\ UNCHANGED <<storeVars, brokerVars, cutSends>>
    BY DEF QueryTarget, Driving, Pcs
<1>2. a \in Attempts /\ a \in Cancels /\ WorkerFact(w, a)
    BY <1>1 DEF LiveInv, ShapeFact, Cancels
<1>3. state[a] # "none"
    BY <1>1, <1>2 DEF WorkerFact, DriveFact
<1>4. CASE Plan(w, Uncertain(NoAttempt))
    BY <1>1, <1>2, <1>4, SimpleResolutions, PlanKeepsInv
<1>5. CASE Plan(w, ResolutionForOrder(a, Read(Target[a])))
    BY <1>1, <1>2, <1>3, <1>5, TargetExists, ReadKeepsInv
<1> QED
    BY <1>4, <1>5 DEF QueryTarget

LEMMA ObserveOrderKeepsInv ==
    ASSUME LiveInv, NEW w \in Workers, NEW a \in Attempts, ObserveOrder(w, a)
    PROVE  LiveInv'
<1>1. /\ order[a] \in Working /\ boundOrder[a] # NoAttempt
      /\ UNCHANGED <<storeVars, brokerVars, cutSends>>
    BY DEF ObserveOrder
<1>2. boundOrder[a] = a /\ created[a] > 0
    BY <1>1 DEF LiveInv, AttemptFact, BookFact
<1>3. IsPlace(a) /\ a \notin Cancels
    BY <1>2 DEF LiveInv, AttemptFact, BrokerFact, IsPlace, Cancels
<1> DEFINE r == ResolutionForOrder(a, Read(a))
           x == [Idle EXCEPT !.pc = "apply", !.att = a, !.plan = r]
<1>4. /\ Read(a) \in OrderUpdate /\ ProviderRead(Read(a)) /\ Read(a).bid = a
      /\ Read(a).filled = brokerOrder[a].filled /\ brokerOrder[a].filled \in Nat
  <2>1. BrokerFact(a) /\ brokerOrder[a] \in [state : OrderStates, filled : 0..Qty]
    BY DEF LiveInv, AttemptFact, LiveTypeOK
  <2> QED
    BY <1>2, <2>1, QtyAssumption DEF BrokerFact, Read, OrderUpdate
<1>5. r \in Resolved /\ r.update = Read(a)
    BY <1>3, <1>4, OrderResolution, OrderResolutionAdmitted, ResolutionIsResolved
<1>6. worker' = [worker EXCEPT ![w] = x]
    BY <1>2 DEF ObserveOrder
<1>7. x \in WorkerRecord /\ x.pc = "apply" /\ x.att = a /\ x.replay = FALSE /\ x.plan = r
  <2>1. Idle \in WorkerRecord /\ Idle.replay = FALSE
    BY IdleTyped
  <2> HIDE DEF r
  <2> QED
    BY <1>5, <2>1 DEF WorkerRecord, Pcs
<1>8. worker \in [Workers -> WorkerRecord]
    BY DEF LiveInv, LiveTypeOK, WorkerRecord
<1>9. /\ worker'[w].pc = "apply" /\ worker'[w].att = a /\ worker'[w].replay = FALSE
      /\ worker'[w].plan.update = Read(a)
      /\ worker' \in [Workers -> WorkerRecord] /\ \A v \in Workers \ {w} : worker'[v] = worker[v]
  <2> HIDE DEF r, x
  <2> QED
    BY <1>5, <1>6, <1>7, <1>8
<1>10. Thinks(w)
    BY <1>1, <1>9 DEF Thinks, Driving
<1>11. ShapeFact(w)'
    BY <1>9 DEF ShapeFact
<1>12. ASSUME NEW b \in Attempts PROVE WorkerFact(w, b)'
  <2>1. DriveFact(w, b)' /\ PlanFact(w, b)'
    BY <1>9 DEF DriveFact, PlanFact, Driving
  <2>2. ApplyFact(w, b)'
    <3>1. UNCHANGED <<boundOrder, order, brokerOrder>>
      BY <1>1 DEF storeVars, bookVars, brokerVars
    <3>2. Read(a)' = Read(a)
      BY <3>1 DEF Read
    <3> HIDE DEF x, r
    <3>3. ASSUME b = a PROVE ApplyFact(w, a)'
      <4> DEFINE u == worker'[w].plan.update
      <4>1. u = Read(a) /\ u.bid = a
        BY <1>4, <1>9
      <4>2. Past(worker[w].plan.update)'
        BY <1>4, <1>9, <3>1, <3>2, <4>1 DEF Past
      <4>3. ProviderRead(worker[w].plan.update)'
        BY <1>4, <4>1 DEF ProviderRead
      <4> QED
        BY <1>1, <1>2, <3>1, <4>1, <4>2, <4>3 DEF ApplyFact, Working
    <3> QED
      BY <1>9, <3>3 DEF ApplyFact
  <2> QED
    BY <2>1, <2>2 DEF WorkerFact
<1> QED
    BY <1>10, <1>11, <1>12, ThinkingKeepsInv

LEMMA CrashKeepsInv ==
    ASSUME LiveInv, NEW w \in Workers, Crash(w)
    PROVE  LiveInv'
BY IdleKeepsInv DEF Crash

-----------------------------------------------------------------------------
(* Transactions that set no send marker                                    *)

\* A worker whose step has just begun or ended.
Fresh(w) ==
    /\ worker'[w].pc # "call"
    /\ ShapeFact(w)' /\ \A a \in Attempts : WorkerFact(w, a)'
    /\ \A v \in Workers \ {w} :
         /\ worker'[v] = worker[v]
         /\ worker'[w].pc \in Driving /\ worker[v].pc \in Driving /\ worker[v].att = worker'[w].att =>
              worker[v].tok # worker'[w].tok

\* The cut that a halt records stands until the next one.
CutStands ==
    \/ RecordCut
    \/ UNCHANGED cutSends /\ halted' \in {halted, "no"}

LEMMA CutKept ==
    ASSUME LiveInv, UNCHANGED <<sent, replays>>, CutStands
    PROVE  /\ cutSends' \in [Attempts -> 0..2]
           /\ \A a \in Attempts : halted' # "no" /\ Kind[a] = "open" => cutSends'[a] = Sends(a)'
<1>1. \A a \in Attempts : Sends(a)' = Sends(a) /\ Sends(a) \in 0..2
    BY DEF Sends, LiveInv, LiveTypeOK, StoreTypeOK
<1>2. \A a \in Attempts : halted # "no" /\ Kind[a] = "open" => cutSends[a] = Sends(a)
    BY DEF LiveInv, AttemptFact, SendFact
<1>3. cutSends \in [Attempts -> 0..2]
    BY DEF LiveInv, LiveTypeOK
<1> QED
    BY <1>1, <1>2, <1>3 DEF CutStands, RecordCut

LEMMA QuietKept ==
    ASSUME NEW a \in Attempts, Quiet(a), UNCHANGED <<created, request>>,
           \A v \in Workers : worker'[v] = worker[v] \/ worker'[v].pc # "call"
    PROVE  Quiet(a)'
BY DEF Quiet

\* The rows of an attempt that no order update touches.
LEMMA BookKept ==
    ASSUME NEW a \in Attempts, BookFact(a), UNCHANGED brokerVars, near[a] \subseteq Attempts,
           \A c \in Attempts : StoreForward(c),
           order'[a] = order[a], boundOrder'[a] = boundOrder[a], filled'[a] = filled[a],
           boundOrder[a] = a => reserved'[a] = reserved[a],
           Quiet(a) => Quiet(a)',
           IsPlace(a) /\ state'[a] \notin {"claimed", "unknown"} =>
              state[a] \notin {"claimed", "unknown"} \/ Quiet(a)
    PROVE  BookFact(a)'
<1>1. UNCHANGED <<created, brokerOrder, near>>
    BY DEF brokerVars
<1>2. Entitled(a) /\ boundOrder[a] = a => Entitled(a)'
    BY DEF Entitled
<1>3. \A c \in near[a] : boundOrder'[c] = c
    BY NoAttemptAssumption DEF BookFact, StoreForward
<1>4. IsPlace(a) /\ state'[a] \notin {"claimed", "unknown"} => Quiet(a)' \/ boundOrder'[a] = a
    BY DEF BookFact
<1> QED
    BY <1>1, <1>2, <1>3, <1>4 DEF BookFact

LEMMA CancelKept ==
    ASSUME NEW a \in Attempts, CancelFact(a), \A c \in Attempts : StoreForward(c) /\ BrokerForward(c),
           state'[a] # "none" => state[a] # "none" \/ (a \in Cancels => boundOrder[Target[a]] = Target[a]),
           state'[a] = "settled" => state[a] = "settled" \/ (a \in Cancels => brokerOrder[Target[a]].state \in Ended)
    PROVE  CancelFact(a)'
<1> SUFFICES ASSUME a \in Cancels PROVE CancelFact(a)'
    BY DEF CancelFact
<1>1. Target[a] \in Attempts /\ Target[a] # NoAttempt
    BY TargetAssumption, NoAttemptAssumption DEF Places
<1>2. boundOrder[Target[a]] = Target[a] => boundOrder'[Target[a]] = Target[a]
    BY <1>1 DEF StoreForward
<1>3. brokerOrder[Target[a]].state \in Ended => brokerOrder'[Target[a]].state \in Ended
    BY <1>1 DEF BrokerForward
<1> QED
    BY <1>2, <1>3 DEF CancelFact

\* A transaction on unmarked rows keeps what it does not touch; what it does to
\* the books and to the worker that ran it is left to show.
LEMMA TransactionKeepsInv ==
    ASSUME LiveInv, [StoreNext]_storeVars, UNCHANGED <<brokerVars, sent, replays>>, CutStands,
           worker' \in [Workers -> WorkerRecord],
           \A v \in Workers : worker'[v] = worker[v] \/ Fresh(v),
           \A a \in Attempts : BookFact(a)' /\ CancelFact(a)'
    PROVE  LiveInv'
<1>1. StoreTypeOK' /\ GateExclusive' /\ Entitlements'
    BY StoreStepTyped, StoreStepKeepsGate, StoreStepKeepsEntitlements DEF LiveInv, LiveTypeOK
<1>2. LiveTypeOK'
    BY <1>1, CutKept DEF LiveInv, LiveTypeOK, brokerVars, WorkerRecord
<1>3. ASSUME NEW a \in Attempts PROVE StoreForward(a) /\ BrokerForward(a)
  <2>1. StoreForward(a)
    BY StoreStepForward DEF LiveInv, LiveTypeOK
  <2>2. created[a] \in Nat /\ brokerOrder[a].filled \in Nat
    BY QtyAssumption DEF LiveInv, LiveTypeOK
  <2> QED
    BY <2>1, <2>2 DEF BrokerForward, brokerVars
<1>4. UNCHANGED <<request, created, brokerOrder, inWindow>>
    BY DEF brokerVars
<1>5. ASSUME NEW a \in Attempts PROVE Quiet(a) => Quiet(a)'
    BY <1>4, QuietKept DEF Fresh
<1>6. ASSUME NEW a \in Attempts PROVE AttemptFact(a)'
  <2>0. BrokerFact(a) /\ SendFact(a) /\ StoreForward(a)
    BY <1>3 DEF LiveInv, AttemptFact
  <2>1. BrokerFact(a)'
    BY <1>4, <2>0 DEF BrokerFact, Read
  <2>2. SendFact(a)'
    <3>1. sent[a] => UsesGate(a) /\ state'[a] \notin {"none", "pending"}
      BY <2>0 DEF SendFact, StoreForward
    <3>2. ASSUME sent[a], state'[a] \in {"claimed", "unknown"} PROVE a \in {active', unknown'}
      <4>1. state[a] \in {"claimed", "unknown"}
        BY <2>0, <3>2 DEF SendFact, StoreForward, LiveInv, LiveTypeOK, StoreTypeOK, AttemptStates
      <4>2. a \in {active, unknown} /\ Unresolved(a)'
        BY <2>0, <3>2, <4>1 DEF SendFact, Unresolved, UsesGate
      <4> QED
        BY <4>2, LatchKept DEF LiveInv, LiveTypeOK
    <3>3. halted' # "no" /\ Kind[a] = "open" => cutSends'[a] = Sends(a)'
      BY CutKept
    <3> QED
      BY <1>4, <2>0, <3>1, <3>2, <3>3 DEF SendFact, UsesGate
  <2> QED
    BY <2>1, <2>2 DEF AttemptFact
<1>7. ASSUME NEW v \in Workers PROVE ShapeFact(v)'
    BY DEF LiveInv, ShapeFact, Fresh
<1>8. ASSUME NEW v \in Workers, NEW a \in Attempts PROVE WorkerFact(v, a)'
  <2>1. CASE Fresh(v)
    BY <2>1 DEF Fresh
  <2>2. CASE worker'[v] = worker[v]
    <3>1. WorkerFact(v, a) /\ LiveTypeOK
      BY DEF LiveInv
    <3> QED
      BY <1>2, <1>3, <1>4, <1>5, <2>2, <3>1, WorkerKept
  <2> QED
    BY <2>1, <2>2
<1>9. ASSUME NEW u \in Workers, NEW v \in Workers, NEW a \in Attempts PROVE PairFact(u, v, a)'
  <2>1. CASE worker'[u] = worker[u] /\ worker'[v] = worker[v]
    BY <2>1 DEF LiveInv, PairFact
  <2>2. CASE Fresh(u) \/ Fresh(v)
    BY <2>2 DEF PairFact, Fresh
  <2> QED
    BY <2>1, <2>2
<1> QED
    BY <1>1, <1>2, <1>6, <1>7, <1>8, <1>9 DEF LiveInv

-----------------------------------------------------------------------------
(* Admission, leases, the halt switch and claims                           *)

LEMMA AdmissionKeepsInv ==
    ASSUME LiveInv, NEW a \in Attempts, Propose(a) \/ FailPending(a) \/ LeaseExpiry(a)
    PROVE  LiveInv'
<1>1. /\ StageAttempt(a) \/ FailPendingAttempt(a) \/ LeaseExpires(a)
      /\ UNCHANGED <<worker, brokerVars, cutSends>>
    BY DEF Propose, FailPending, LeaseExpiry
<1>2. StoreNext
    BY <1>1 DEF StoreNext
<1>3. UNCHANGED <<sent, replays, halted, boundOrder, filled>>
    BY <1>1 DEF StageAttempt, FailPendingAttempt, LeaseExpires, bookVars
<1>4. ASSUME NEW b \in Attempts PROVE StoreForward(b) /\ BrokerForward(b)
  <2>1. StoreForward(b)
    BY <1>2, StoreStepForward DEF LiveInv, LiveTypeOK
  <2>2. created[b] \in Nat /\ brokerOrder[b].filled \in Nat
    BY QtyAssumption DEF LiveInv, LiveTypeOK
  <2> QED
    BY <1>1, <2>1, <2>2 DEF BrokerForward, brokerVars
<1>5. \/ state[a] = "none" /\ state' = [state EXCEPT ![a] = "pending"]
      \/ state[a] = "pending" /\ state' = [state EXCEPT ![a] = "failed"]
      \/ UNCHANGED state
    BY <1>1 DEF StageAttempt, FailPendingAttempt, LeaseExpires
<1>6. ASSUME NEW b \in Attempts PROVE CancelFact(b)'
  <2>1. state'[b] # "none" => state[b] # "none" \/ (b \in Cancels => boundOrder[Target[b]] = Target[b])
    <3>1. CASE Propose(a)
      BY <3>1 DEF Propose, StageAttempt, Cancels, LiveInv, LiveTypeOK, StoreTypeOK
    <3>2. CASE FailPending(a) \/ LeaseExpiry(a)
      BY <3>2 DEF FailPending, FailPendingAttempt, LeaseExpiry, LeaseExpires, LiveInv, LiveTypeOK, StoreTypeOK
    <3> QED
      BY <3>1, <3>2
  <2>2. state'[b] = "settled" => state[b] = "settled"
    BY <1>5 DEF LiveInv, LiveTypeOK, StoreTypeOK
  <2> QED
    BY <1>4, <2>1, <2>2, CancelKept DEF LiveInv, AttemptFact
<1>7. ASSUME NEW b \in Attempts PROVE BookFact(b)'
  <2>0. BookFact(b) /\ near[b] \subseteq Attempts
    BY DEF LiveInv, AttemptFact, LiveTypeOK
  <2>1. Quiet(b) => Quiet(b)'
    BY <1>1, QuietKept DEF brokerVars
  <2>2. state'[b] \notin {"claimed", "unknown"} => state[b] \notin {"claimed", "unknown"}
    BY <1>5 DEF LiveInv, LiveTypeOK, StoreTypeOK
  <2>3. CASE order'[b] = order[b] /\ reserved'[b] = reserved[b]
    BY <1>1, <1>3, <1>4, <2>0, <2>1, <2>2, <2>3, BookKept
  <2>4. CASE ~(order'[b] = order[b] /\ reserved'[b] = reserved[b])
    <3>1. b = a /\ state[a] \in {"none", "pending"}
      BY <1>1, <2>4 DEF StageAttempt, FailPendingAttempt, LeaseExpires, bookVars,
                        LiveInv, LiveTypeOK, StoreTypeOK
    <3>2. HasOrder(a) \/ state[a] = "none" => boundOrder[a] = NoAttempt
      BY <3>1 DEF LiveInv, Entitlements, EntitledOne, Claimable
    <3>3. ~HasOrder(a) => boundOrder[a] # a
      BY DEF LiveInv, AttemptFact, BookFact, BrokerFact, HasOrder, IsPlace
    <3>4. boundOrder[b] = NoAttempt
      BY <2>0, <3>1, <3>2, <3>3 DEF BookFact
    <3> QED
      BY <1>1, <1>3, <2>0, <2>1, <2>2, <3>4, NoAttemptAssumption DEF BookFact, brokerVars
  <2> QED
    BY <2>3, <2>4
<1>8. worker \in [Workers -> WorkerRecord]
    BY DEF LiveInv, LiveTypeOK, WorkerRecord
<1> QED
    BY <1>1, <1>2, <1>3, <1>6, <1>7, <1>8, TransactionKeepsInv DEF CutStands

LEMMA HaltKeepsInv ==
    ASSUME LiveInv, Halt \/ Resume
    PROVE  LiveInv'
<1>1. ActivateGlobalHalt \/ ResumeGlobalHalt
    BY DEF Halt, Resume
<1>2. UNCHANGED <<attemptVars, gateVars, bookVars, worker, brokerVars>> /\ StoreNext
    BY <1>1 DEF Halt, Resume, ActivateGlobalHalt, ResumeGlobalHalt, StoreNext
<1>3. CutStands
    BY DEF Halt, Resume, ResumeGlobalHalt, CutStands
<1>4. ASSUME NEW b \in Attempts PROVE BookFact(b)' /\ CancelFact(b)'
  <2>1. Quiet(b) => Quiet(b)'
    BY <1>2, QuietKept DEF brokerVars
  <2>2. BookFact(b) /\ CancelFact(b)
    BY DEF LiveInv, AttemptFact
  <2> QED
    BY <1>2, <2>1, <2>2 DEF BookFact, CancelFact, Entitled, attemptVars, bookVars, brokerVars
<1>5. worker \in [Workers -> WorkerRecord]
    BY DEF LiveInv, LiveTypeOK, WorkerRecord
<1> QED
    BY <1>2, <1>3, <1>4, <1>5, TransactionKeepsInv DEF attemptVars

\* A claim takes a token that no worker has held, and hands the attempt to the
\* path its send marker calls for.
LEMMA ClaimKeepsInv ==
    ASSUME LiveInv, NEW w \in Workers, NEW a \in Attempts, NEW pc \in Driving \ {"call", "wait", "resolve"},
           NEW expected \in {"pending", "claimed", "unknown"}, NEW tok \in 0..MaxToken,
           ClaimAttempt(a, expected, tok), Claimed(w, a, pc), UNCHANGED <<brokerVars, cutSends>>,
           pc \in {"recover", "pre_effect", "mark"} => ~sent[a],
           pc \in {"recover", "query", "adopt"} => IsPlace(a),
           pc = "target" => a \in Cancels
    PROVE  LiveInv'
<1>1. StoreNext
    BY DEF StoreNext
<1>2. /\ UNCHANGED <<sent, replays, halted, bookVars>> /\ state[a] = expected
      /\ state' = [state EXCEPT ![a] = "claimed"] /\ token' = [token EXCEPT ![a] = @ + 1]
      /\ token[a] < MaxToken
    BY DEF ClaimAttempt
<1>3. worker \in [Workers -> WorkerRecord] /\ token \in [Attempts -> 0..MaxToken] /\ token[a] \in Nat
    BY MaxTokenAssumption DEF LiveInv, LiveTypeOK, WorkerRecord, StoreTypeOK
<1>4. token'[a] = token[a] + 1 /\ token'[a] \in 0..MaxToken
    BY <1>2, <1>3, MaxTokenAssumption
<1> DEFINE x == [pc |-> pc, att |-> a, tok |-> token'[a], replay |-> FALSE, plan |-> NoPlan]
<1>5. x \in WorkerRecord /\ x.pc = pc /\ x.att = a /\ x.tok = token'[a] /\ x.replay = FALSE
  <2>1. NoPlan \in Resolved
    BY IdleTyped DEF Idle, WorkerRecord
  <2>2. pc \in Pcs
    BY DEF Driving
  <2> QED
    BY <1>4, <2>1, <2>2 DEF WorkerRecord
<1>6. /\ worker' = [worker EXCEPT ![w] = x] /\ worker' \in [Workers -> WorkerRecord]
      /\ \A v \in Workers \ {w} : worker'[v] = worker[v]
      /\ worker'[w].pc = pc /\ worker'[w].att = a /\ worker'[w].tok = token'[a] /\ worker'[w].replay = FALSE
    BY <1>3, <1>5 DEF Claimed
<1>7. Fresh(w)
  <2>1. ShapeFact(w)'
    BY <1>6 DEF ShapeFact
  <2>2. ASSUME NEW b \in Attempts PROVE WorkerFact(w, b)'
    <3>1. DriveFact(w, b)'
      <4>1. ASSUME b = a PROVE DriveFact(w, a)'
        BY <1>2, <1>4, <1>6 DEF DriveFact, LiveInv, LiveTypeOK, StoreTypeOK
      <4> QED
        BY <1>6, <4>1 DEF DriveFact
    <3>2. PlanFact(w, b)' /\ ApplyFact(w, b)'
      BY <1>6 DEF PlanFact, ApplyFact, Driving
    <3> QED
      BY <3>1, <3>2 DEF WorkerFact
  <2>3. ASSUME NEW v \in Workers \ {w}, worker[v].pc \in Driving, worker[v].att = a
        PROVE  worker[v].tok # worker'[w].tok
    <3>1. worker[v].tok <= token[a]
      BY <2>3 DEF LiveInv, WorkerFact, DriveFact
    <3>2. worker[v].tok \in Nat
      BY <1>3, MaxTokenAssumption DEF WorkerRecord
    <3> QED
      BY <1>3, <1>4, <1>6, <3>1, <3>2
  <2> QED
    BY <1>6, <2>1, <2>2, <2>3 DEF Fresh
<1>8. ASSUME NEW b \in Attempts PROVE StoreForward(b) /\ BrokerForward(b)
  <2>1. StoreForward(b)
    BY <1>1, StoreStepForward DEF LiveInv, LiveTypeOK
  <2>2. created[b] \in Nat /\ brokerOrder[b].filled \in Nat
    BY QtyAssumption DEF LiveInv, LiveTypeOK
  <2> QED
    BY <2>1, <2>2 DEF BrokerForward, brokerVars
<1>9. ASSUME NEW b \in Attempts PROVE BookFact(b)' /\ CancelFact(b)'
  <2>0. BookFact(b) /\ CancelFact(b) /\ near[b] \subseteq Attempts
    BY DEF LiveInv, AttemptFact, LiveTypeOK
  <2>1. Quiet(b) => Quiet(b)'
    BY <1>6, <1>7, QuietKept DEF brokerVars, Fresh
  <2>2. state'[b] = state[b] \/ (state'[b] = "claimed" /\ state[b] \in {"pending", "claimed", "unknown"})
    BY <1>2 DEF LiveInv, LiveTypeOK, StoreTypeOK
  <2>3. BookFact(b)'
    BY <1>2, <1>8, <2>0, <2>1, <2>2, BookKept DEF bookVars
  <2>4. CancelFact(b)'
    BY <1>8, <2>0, <2>2, CancelKept
  <2> QED
    BY <2>3, <2>4
<1> QED
    BY <1>1, <1>2, <1>6, <1>7, <1>9, TransactionKeepsInv DEF CutStands

LEMMA ClaimsKeepInv ==
    ASSUME LiveInv, NEW w \in Workers, NEW a \in Attempts,
           ClaimPending(w, a) \/ ClaimUncertain(w, a) \/ ClaimCandidate(w, a)
    PROVE  LiveInv'
<1>0. token[a] \in 0..MaxToken /\ 0 \in 0..MaxToken /\ SendFact(a) /\ sent[a] \in BOOLEAN
    BY MaxTokenAssumption DEF LiveInv, LiveTypeOK, StoreTypeOK, AttemptFact
<1> USE DEF Driving, Pcs
<1>1. CASE ClaimPending(w, a)
  <2>1. ClaimAttempt(a, "pending", 0) /\ Claimed(w, a, "pre_effect") /\ UNCHANGED <<brokerVars, cutSends>>
    BY <1>1 DEF ClaimPending
  <2>2. ~sent[a]
    BY <1>0, <2>1 DEF SendFact, ClaimAttempt
  <2> QED
    BY <1>0, <2>1, <2>2, ClaimKeepsInv
<1>2. CASE ClaimUncertain(w, a)
  <2>1. /\ state[a] \in {"claimed", "unknown"} /\ ClaimAttempt(a, state[a], token[a])
        /\ UNCHANGED <<brokerVars, cutSends>>
    BY <1>2 DEF ClaimUncertain
  <2>2. CASE sent[a] /\ IsPlace(a)
    <3>1. Claimed(w, a, "query")
      BY <1>2, <2>2 DEF ClaimUncertain
    <3> QED
      BY <1>0, <2>1, <2>2, <3>1, ClaimKeepsInv
  <2>3. CASE sent[a] /\ ~IsPlace(a)
    <3>1. Claimed(w, a, "target")
      BY <1>2, <2>3 DEF ClaimUncertain
    <3>2. a \in Cancels
      BY <1>0, <2>3, KindAssumption DEF SendFact, UsesGate, IsPlace, Cancels, Kinds
    <3> QED
      BY <1>0, <2>1, <3>1, <3>2, ClaimKeepsInv
  <2>4. CASE ~sent[a] /\ IsPlace(a)
    <3>1. Claimed(w, a, "recover")
      BY <1>2, <2>4 DEF ClaimUncertain
    <3> QED
      BY <1>0, <2>1, <2>4, <3>1, ClaimKeepsInv
  <2>5. CASE ~sent[a] /\ ~IsPlace(a)
    <3>1. Claimed(w, a, "pre_effect")
      BY <1>2, <2>5 DEF ClaimUncertain
    <3> QED
      BY <1>0, <2>1, <2>5, <3>1, ClaimKeepsInv
  <2> QED
    BY <2>2, <2>3, <2>4, <2>5
<1>3. CASE ClaimCandidate(w, a)
  <2>1. /\ IsPlace(a) /\ ClaimAttempt(a, "unknown", token[a]) /\ Claimed(w, a, "adopt")
        /\ UNCHANGED <<brokerVars, cutSends>>
    BY <1>3 DEF ClaimCandidate
  <2> QED
    BY <1>0, <2>1, ClaimKeepsInv
<1> QED
    BY <1>1, <1>2, <1>3

-----------------------------------------------------------------------------
(* Resolutions and order updates                                           *)

LEMMA DoneIsFresh ==
    ASSUME LiveTypeOK, NEW w \in Workers, Done(w)
    PROVE  /\ worker' \in [Workers -> WorkerRecord]
           /\ \A v \in Workers : worker'[v] = worker[v] \/ Fresh(v)
           /\ \A v \in Workers : worker'[v] = worker[v] \/ worker'[v].pc # "call"
<1>1. Idle \in WorkerRecord /\ Idle.pc = "idle" /\ Idle.replay = FALSE
    BY IdleTyped
<1>2. worker \in [Workers -> WorkerRecord]
    BY DEF LiveTypeOK, WorkerRecord
<1>3. /\ worker' \in [Workers -> WorkerRecord] /\ worker'[w] = Idle
      /\ \A v \in Workers \ {w} : worker'[v] = worker[v]
    BY <1>1, <1>2 DEF Done
<1>4. ShapeFact(w)' /\ \A a \in Attempts : WorkerFact(w, a)'
    BY <1>1, <1>3 DEF ShapeFact, WorkerFact, DriveFact, PlanFact, ApplyFact, Driving
<1>5. Fresh(w)
    BY <1>1, <1>3, <1>4 DEF Fresh, Driving
<1> QED
    BY <1>1, <1>3, <1>5

\* A transaction that rolls back, or writes the halt and nothing else.
LEMMA RolledBackKeepsInv ==
    ASSUME LiveInv, NEW w \in Workers, Done(w), UNCHANGED <<attemptVars, gateVars, bookVars, brokerVars>>,
           RecordCut, [StoreNext]_storeVars
    PROVE  LiveInv'
<1>1. ASSUME NEW b \in Attempts PROVE BookFact(b)' /\ CancelFact(b)'
  <2>1. Quiet(b) => Quiet(b)'
    BY DoneIsFresh, QuietKept DEF brokerVars, LiveInv
  <2>2. BookFact(b) /\ CancelFact(b)
    BY DEF LiveInv, AttemptFact
  <2> QED
    BY <2>1, <2>2 DEF BookFact, CancelFact, Entitled, attemptVars, bookVars, brokerVars
<1>2. UNCHANGED <<sent, replays>> /\ CutStands /\ LiveTypeOK
    BY DEF attemptVars, CutStands, LiveInv
<1> QED
    BY <1>1, <1>2, DoneIsFresh, TransactionKeepsInv

\* The reservation stands where the order does after an update with what the
\* provider said.
LEMMA UpdateKeepsEntitled ==
    ASSUME StoreTypeOK, NEW a \in Attempts, NEW u \in OrderUpdate, ProviderRead(u),
           UpdateAccepted(a, u), order'[a] = u.state,
           \/ reserved'[a] = ReservationAfter(a, u)
           \/ u.state \in TerminalUnfilled /\ ReservationAfter(a, u) = "held" /\ reserved'[a] = "released"
    PROVE  Entitled(a)'
<1>1. LegalTransition(order[a], u.state) /\ Entitled(a)
    BY DEF UpdateAccepted, UpdateContradicts
<1>2. u.filled \in Nat /\ Qty \in Nat /\ Qty # 0
    BY QtyAssumption DEF OrderUpdate
<1>3. (u.filled = Qty) <=> (u.state = "filled")
    BY <1>2 DEF ProviderRead
<1>4. u.state \in TerminalUnfilled => ReservationAfter(a, u) # "held"
    BY <1>3 DEF ReservationAfter, TerminalUnfilled
<1>5. reserved'[a] = ReservationAfter(a, u)
    BY <1>4
<1>6. CASE reserved[a] = "held"
    BY <1>3, <1>5, <1>6 DEF ReservationAfter, Entitled, TerminalUnfilled
<1>7. CASE reserved[a] # "held"
  <2>1. order[a] \in TerminalUnfilled \cup {"filled"}
    BY <1>1, <1>7 DEF Entitled, TerminalUnfilled
  <2>2. u.state = order[a]
    BY <1>1, <2>1 DEF LegalTransition, Advances, TerminalUnfilled
  <2> QED
    BY <1>1, <1>5, <1>7, <2>2 DEF ReservationAfter, Entitled
<1> QED
    BY <1>6, <1>7

LEMMA ResolveKeepsInv ==
    ASSUME LiveInv, NEW w \in Workers, NEW a \in Attempts, NEW tok, NEW r \in Resolutions(a),
           NEW u \in OrderUpdate, u = r.update,
           worker[w].pc = "resolve", worker[w].att = a, worker[w].tok = tok, worker[w].plan = r,
           ResolveAttempt(a, tok, r), Done(w), RecordCut, UNCHANGED brokerVars, [StoreNext]_storeVars
    PROVE  LiveInv'
<1>0. LiveTypeOK /\ StoreTypeOK
    BY DEF LiveInv, LiveTypeOK
<1>facts. AttemptFact(a) /\ PlanFact(w, a)
    BY DEF LiveInv, WorkerFact
<1>1. state[a] = "claimed" /\ Fenced(w, a) /\ UNCHANGED <<sent, replays, halted>>
  BY DEF ResolveAttempt, ResolveFenceHeld, Fenced
<1>2. state' = [state EXCEPT ![a] = r.state]
  BY DEF ResolveAttempt
<1>3. \A b \in Attempts \ {a} :
        /\ state'[b] = state[b] /\ order'[b] = order[b] /\ reserved'[b] = reserved[b]
        /\ filled'[b] = filled[b] /\ boundOrder'[b] = boundOrder[b]
  <2>1. \A b \in Attempts \ {a} : state'[b] = state[b] /\ reserved'[b] = reserved[b]
    BY <1>0, <1>facts DEF ResolveAttempt, StoreTypeOK
  <2>2. \A b \in Attempts \ {a} :
          order'[b] = order[b] /\ filled'[b] = filled[b] /\ boundOrder'[b] = boundOrder[b]
    BY <1>0, <1>facts DEF ResolveAttempt, OrderUpdated, StoreTypeOK
  <2> QED
    BY <2>1, <2>2
<1>4. ASSUME NEW b \in Attempts PROVE StoreForward(b) /\ BrokerForward(b)
  <2>1. StoreForward(b)
    BY <1>0, StoreStepForward DEF LiveInv
  <2>2. created[b] \in Nat /\ brokerOrder[b].filled \in Nat
    BY <1>0, QtyAssumption DEF LiveTypeOK
  <2> QED
    BY <2>1, <2>2 DEF BrokerForward, brokerVars
<1>5. ASSUME NEW b \in Attempts PROVE Quiet(b) => Quiet(b)'
  BY <1>0, DoneIsFresh, QuietKept DEF brokerVars
<1>6. boundOrder[a] = NoAttempt
  <2>1. HasOrder(a) => boundOrder[a] = NoAttempt
    BY <1>facts, <1>1 DEF LiveInv, Entitlements, EntitledOne, Claimable
  <2>2. ~HasOrder(a) => boundOrder[a] # a
    BY <1>facts DEF AttemptFact, BookFact, BrokerFact, HasOrder, IsPlace
  <2> QED
    BY <1>facts, <2>1, <2>2 DEF AttemptFact, BookFact
<1>7. \A c \in near'[a] : c # a /\ boundOrder'[c] = c
  <2>1. near' = near /\ near[a] \subseteq Attempts
    BY <1>0, <1>facts DEF brokerVars, LiveTypeOK
  <2> QED
    BY <1>facts, <1>4, <2>1, NoAttemptAssumption DEF AttemptFact, BookFact, StoreForward
<1>8. BookFact(a)'
  <2>1. CASE u.bid = NoAttempt
    <3>1. boundOrder'[a] = NoAttempt /\ filled'[a] = 0
      <4>1. CASE u = NoUpdate
        BY <1>facts, <1>6, <4>1 DEF ResolveAttempt, AttemptFact, BookFact
      <4>2. CASE u # NoUpdate
        <5>1. UpdateAccepted(a, u) /\ OrderUpdated(a, u)
          BY <4>2 DEF ResolveAttempt
        <5>2. u.filled = 0
          BY <1>facts, <2>1, ResolutionParts
        <5> QED
          BY <1>0, <1>facts, <1>6, <2>1, <5>1, <5>2, UpdateForward
      <4> QED
        BY <4>1, <4>2
    <3>2. IsPlace(a) /\ state'[a] \notin {"claimed", "unknown"} => Quiet(a)'
      BY <1>0, <1>facts, <1>1, <1>2, <1>5, <2>1 DEF PlanFact, StoreTypeOK
    <3> QED
      BY <1>facts, <1>7, <3>1, <3>2, NoAttemptAssumption DEF BookFact
  <2>2. CASE u.bid # NoAttempt
    <3>1. UpdateAccepted(a, u) /\ OrderUpdated(a, u) /\ u # NoUpdate
      BY <2>2 DEF ResolveAttempt, NoUpdate
    <3>2. /\ IsPlace(a) /\ Past(u) /\ created[u.bid] > 0
          /\ u.bid = a \/ boundOrder[u.bid] = u.bid
      BY <1>facts, <2>2 DEF PlanFact
    <3>3. u.bid = a
      BY <1>facts, <2>2, <3>1, <3>2 DEF UpdateAccepted, OwnedElsewhere, OrderUpdate
    <3>4. ProviderRead(u) /\ (r.release => u.state \in TerminalUnfilled)
      BY <1>facts, <2>2, ResolutionParts
    <3>5. order'[a] = u.state /\ filled'[a] = u.filled /\ boundOrder'[a] = a
      BY <1>0, <1>facts, <2>2, <3>1, <3>3, UpdateForward
    <3>6. Entitled(a)'
      <4>1. reserved'[a] = IF r.release /\ ReservationAfter(a, u) = "held"
                             THEN "released" ELSE ReservationAfter(a, u)
        BY <1>0, <1>facts, <3>1 DEF ResolveAttempt, StoreTypeOK
      <4> QED
        BY <1>0, <1>facts, <3>1, <3>4, <3>5, <4>1, UpdateKeepsEntitled
    <3>7. /\ created'[a] > 0 /\ filled'[a] <= brokerOrder'[a].filled
          /\ order'[a] \in Ended => order'[a] = brokerOrder'[a].state /\ filled'[a] = brokerOrder'[a].filled
      <4>1. created' = created /\ brokerOrder' = brokerOrder
        BY DEF brokerVars
      <4>2. /\ u.filled <= brokerOrder[a].filled
            /\ u.state \in Ended => u.state = Read(a).state /\ u.filled = Read(a).filled
        BY <3>2, <3>3 DEF Past
      <4> QED
        BY <3>2, <3>3, <3>5, <4>1, <4>2 DEF Read
    <3> QED
      BY <1>facts, <1>7, <3>5, <3>6, <3>7, NoAttemptAssumption DEF BookFact
  <2> QED
    BY <2>1, <2>2
<1>9. ASSUME NEW b \in Attempts PROVE BookFact(b)'
  <2>1. CASE b # a
    <3>1. BookFact(b) /\ near[b] \subseteq Attempts
      BY <1>0 DEF LiveInv, AttemptFact, LiveTypeOK
    <3> QED
      BY <1>3, <1>4, <1>5, <2>1, <3>1, BookKept
  <2> QED
    BY <1>8, <2>1
<1>10. ASSUME NEW b \in Attempts PROVE CancelFact(b)'
  <2>1. CancelFact(b)
    BY DEF LiveInv, AttemptFact
  <2>2. state'[b] # "none" => state[b] # "none"
    BY <1>1, <1>3
  <2>3. state'[b] = "settled" => state[b] = "settled" \/ (b \in Cancels => brokerOrder[Target[b]].state \in Ended)
    BY <1>0, <1>facts, <1>2, <1>3 DEF PlanFact, StoreTypeOK
  <2> QED
    BY <1>4, <2>1, <2>2, <2>3, CancelKept
<1> QED
  BY <1>0, <1>1, <1>9, <1>10, DoneIsFresh, TransactionKeepsInv DEF CutStands

LEMMA StoreResolutionKeepsInv ==
    ASSUME LiveInv, NEW w \in Workers, StoreResolution(w)
    PROVE  LiveInv'
<1> DEFINE a == worker[w].att
           tok == worker[w].tok
           r == worker[w].plan
           u == worker[w].plan.update
<1>0. LiveTypeOK /\ StoreTypeOK
    BY DEF LiveInv, LiveTypeOK
<1>1. /\ worker[w].pc = "resolve" /\ Done(w) /\ RecordCut /\ UNCHANGED brokerVars
      /\ ResolveAttempt(a, tok, r) \/ ResolveIntegrityFailure(a, tok, r) \/ UNCHANGED storeVars
    BY DEF StoreResolution
<1>2. a \in Attempts /\ tok \in 0..MaxToken /\ u \in OrderUpdate /\ AttemptFact(a) /\ PlanFact(w, a)
    BY <1>0, <1>1, WorkerTyped DEF LiveInv, ShapeFact, WorkerFact
<1>3. r \in Resolutions(a)
    BY <1>1, <1>2 DEF PlanFact
<1>4. [StoreNext]_storeVars
  <2>1. Next
    BY DEF Next, Running, WorkerStep
  <2> QED
    BY <2>1, NextIsStoreStep
<1>5. CASE ResolveIntegrityFailure(a, tok, r) \/ UNCHANGED storeVars
  <2>1. UNCHANGED <<attemptVars, gateVars, bookVars>>
    BY <1>5 DEF ResolveIntegrityFailure, IntegrityHalt, storeVars
  <2> QED
    BY <1>1, <1>4, <2>1, RolledBackKeepsInv
<1>6. CASE ResolveAttempt(a, tok, r)
    BY <1>1, <1>2, <1>3, <1>4, <1>6, ResolveKeepsInv
<1> QED
    BY <1>1, <1>5, <1>6

LEMMA ApplyKeepsInv ==
    ASSUME LiveInv, NEW w \in Workers, NEW a \in Attempts, NEW u \in OrderUpdate,
           worker[w].pc = "apply", worker[w].att = a, worker[w].plan.update = u,
           ApplyOrderUpdate(a, u), Done(w), RecordCut, UNCHANGED brokerVars, [StoreNext]_storeVars
    PROVE  LiveInv'
<1>0. LiveTypeOK /\ StoreTypeOK
    BY DEF LiveInv, LiveTypeOK
<1>facts. AttemptFact(a) /\ ApplyFact(w, a)
    BY DEF LiveInv, WorkerFact
<1>read. ProviderRead(u) /\ u.bid = a /\ boundOrder[a] = a /\ Past(u)
    BY <1>facts DEF ApplyFact
<1>1. UNCHANGED <<sent, replays, halted>> /\ UpdateAccepted(a, u) /\ OrderUpdated(a, u)
  BY DEF ApplyOrderUpdate
<1>2. IsPlace(a) /\ a \notin Cancels
  BY <1>facts, <1>read DEF AttemptFact, BookFact, BrokerFact, IsPlace, Cancels
<1>3. \A b \in Attempts \ {a} :
        /\ state'[b] = state[b] /\ order'[b] = order[b] /\ reserved'[b] = reserved[b]
        /\ filled'[b] = filled[b] /\ boundOrder'[b] = boundOrder[b]
  BY <1>0, <1>facts DEF ApplyOrderUpdate, OrderUpdated, StoreTypeOK
<1>4. ASSUME NEW b \in Attempts PROVE StoreForward(b) /\ BrokerForward(b)
  <2>1. StoreForward(b)
    BY <1>0, StoreStepForward DEF LiveInv
  <2>2. created[b] \in Nat /\ brokerOrder[b].filled \in Nat
    BY <1>0, QtyAssumption DEF LiveTypeOK
  <2> QED
    BY <2>1, <2>2 DEF BrokerForward, brokerVars
<1>5. ASSUME NEW b \in Attempts PROVE Quiet(b) => Quiet(b)'
  BY <1>0, DoneIsFresh, QuietKept DEF brokerVars
<1>6. BookFact(a)'
  <2>1. order'[a] = u.state /\ filled'[a] = u.filled /\ boundOrder'[a] = a
    BY <1>0, <1>facts, <1>read, <1>1, NoAttemptAssumption, UpdateForward
  <2>2. reserved'[a] = ReservationAfter(a, u)
    BY <1>0, <1>facts DEF ApplyOrderUpdate, StoreTypeOK
  <2>3. Entitled(a)'
    BY <1>0, <1>facts, <1>read, <1>1, <2>1, <2>2, UpdateKeepsEntitled
  <2>4. \A c \in near'[a] : c # a /\ boundOrder'[c] = c
    <3>1. near' = near /\ near[a] \subseteq Attempts
      BY <1>0, <1>facts DEF brokerVars, LiveTypeOK
    <3> QED
      BY <1>facts, <1>4, <3>1, NoAttemptAssumption DEF AttemptFact, BookFact, StoreForward
  <2>5. /\ created'[a] > 0 /\ filled'[a] <= brokerOrder'[a].filled
        /\ order'[a] \in Ended => order'[a] = brokerOrder'[a].state /\ filled'[a] = brokerOrder'[a].filled
    <3>1. created' = created /\ brokerOrder' = brokerOrder /\ created[a] > 0
      BY <1>facts, <1>read DEF brokerVars, AttemptFact, BookFact
    <3>2. /\ u.filled <= brokerOrder[a].filled
          /\ u.state \in Ended => u.state = Read(a).state /\ u.filled = Read(a).filled
      BY <1>read DEF Past
    <3> QED
      BY <2>1, <3>1, <3>2 DEF Read
  <2> QED
    BY <1>facts, <2>1, <2>3, <2>4, <2>5, NoAttemptAssumption DEF BookFact
<1>7. ASSUME NEW b \in Attempts PROVE BookFact(b)'
  <2>1. CASE b # a
    <3>1. BookFact(b) /\ near[b] \subseteq Attempts
      BY <1>0 DEF LiveInv, AttemptFact, LiveTypeOK
    <3> QED
      BY <1>3, <1>4, <1>5, <2>1, <3>1, BookKept
  <2> QED
    BY <1>6, <2>1
<1>8. ASSUME NEW b \in Attempts PROVE CancelFact(b)'
  <2>1. CancelFact(b)
    BY DEF LiveInv, AttemptFact
  <2>2. b \in Cancels => state'[b] = state[b]
    BY <1>2, <1>3
  <2> QED
    BY <1>4, <2>1, <2>2, CancelKept
<1> QED
  BY <1>0, <1>1, <1>7, <1>8, DoneIsFresh, TransactionKeepsInv DEF CutStands

LEMMA ApplyObservationKeepsInv ==
    ASSUME LiveInv, NEW w \in Workers, ApplyObservation(w)
    PROVE  LiveInv'
<1> DEFINE a == worker[w].att
           u == worker[w].plan.update
<1>0. LiveTypeOK /\ StoreTypeOK
    BY DEF LiveInv, LiveTypeOK
<1>1. /\ worker[w].pc = "apply" /\ Done(w) /\ RecordCut /\ UNCHANGED brokerVars
      /\ ApplyOrderUpdate(a, u) \/ ApplyIntegrityFailure(a, u) \/ UNCHANGED storeVars
    BY DEF ApplyObservation
<1>2. a \in Attempts /\ u \in OrderUpdate /\ AttemptFact(a) /\ ApplyFact(w, a)
    BY <1>0, <1>1, WorkerTyped DEF LiveInv, ShapeFact, WorkerFact
<1>3. ProviderRead(u) /\ u.bid = a /\ boundOrder[a] = a /\ Past(u)
    BY <1>1, <1>2 DEF ApplyFact
<1>4. [StoreNext]_storeVars
  <2>1. Next
    BY DEF Next, Running, WorkerStep
  <2> QED
    BY <2>1, NextIsStoreStep
<1>5. CASE ApplyIntegrityFailure(a, u) \/ UNCHANGED storeVars
  <2>1. UNCHANGED <<attemptVars, gateVars, bookVars>>
    BY <1>5 DEF ApplyIntegrityFailure, IntegrityHalt, storeVars
  <2> QED
    BY <1>1, <1>4, <2>1, RolledBackKeepsInv
<1>6. CASE ApplyOrderUpdate(a, u)
    BY <1>1, <1>2, <1>4, <1>6, ApplyKeepsInv
<1> QED
    BY <1>1, <1>5, <1>6

-----------------------------------------------------------------------------
(* The send markers and the provider call                                  *)

\* A marker is set by the one worker whose fence holds.
LEMMA MarkKeepsInv ==
    ASSUME LiveInv, NEW w \in Workers, NEW a \in Attempts,
           worker[w].pc = "mark", worker[w].att = a, Fenced(w, a), Goto(w, "call"), [StoreNext]_storeVars,
           UNCHANGED <<state, token, gateVars, halted, bookVars>>,
           UNCHANGED <<request, created, brokerOrder, inWindow, cutSends>>,
           \A b \in Attempts \ {a} : sent'[b] = sent[b] /\ replays'[b] = replays[b],
           windowOpen' \in [Attempts -> BOOLEAN], near' \in [Attempts -> SUBSET Attempts],
           \A b \in Attempts, c \in Attempts : c \in near'[b] => c # b /\ boundOrder[c] = c,
           SendFact(a)', sent'[a], request[a][Ordinal(w)] = "none",
           IF worker[w].replay THEN replays'[a] = 1 ELSE replays'[a] = 0,
           \A v \in Workers : worker[v].att = a /\ worker[v].pc = "call" => worker[v].replay # worker[w].replay
    PROVE  LiveInv'
<1>0. LiveTypeOK /\ StoreTypeOK /\ worker \in [Workers -> WorkerRecord] /\ ShapeFact(w)
    BY DEF LiveInv, LiveTypeOK, WorkerRecord
<1>1. StoreTypeOK' /\ GateExclusive' /\ Entitlements'
    BY <1>0, StoreStepTyped, StoreStepKeepsGate, StoreStepKeepsEntitlements DEF LiveInv
<1>2. worker' = [worker EXCEPT ![w] = [@ EXCEPT !.pc = "call"]]
    BY <1>0 DEF Goto, WorkerRecord
<1>3. /\ worker'[w] \in WorkerRecord /\ worker'[w].pc = "call" /\ worker'[w].att = a
      /\ worker'[w].tok = worker[w].tok /\ worker'[w].replay = worker[w].replay
  <2>1. worker'[w] = [worker[w] EXCEPT !.pc = "call"] /\ worker[w] \in WorkerRecord
    BY <1>0, <1>2
  <2> QED
    BY <2>1 DEF WorkerRecord, Pcs
<1>4. worker' \in [Workers -> WorkerRecord] /\ \A v \in Workers \ {w} : worker'[v] = worker[v]
    BY <1>0, <1>2, <1>3
<1>5. LiveTypeOK'
    BY <1>0, <1>1, <1>4 DEF LiveTypeOK, WorkerRecord
<1>6. ASSUME NEW b \in Attempts PROVE StoreForward(b) /\ BrokerForward(b)
  <2>1. StoreForward(b)
    BY <1>0, StoreStepForward DEF LiveInv
  <2>2. created[b] \in Nat /\ brokerOrder[b].filled \in Nat
    BY <1>0, QtyAssumption DEF LiveTypeOK
  <2> QED
    BY <2>1, <2>2 DEF BrokerForward
<1>7. ASSUME NEW b \in Attempts, b # a PROVE Quiet(b) => Quiet(b)'
    BY <1>3, <1>4, <1>7 DEF Quiet
<1>8. ASSUME NEW b \in Attempts PROVE AttemptFact(b)'
  <2>0. BrokerFact(b) /\ SendFact(b) /\ BookFact(b) /\ CancelFact(b)
    BY DEF LiveInv, AttemptFact
  <2>1. BrokerFact(b)'
    BY <2>0 DEF BrokerFact, Read
  <2>2. SendFact(b)'
    BY <2>0 DEF SendFact, Sends, gateVars
  <2>3. BookFact(b)'
    <3>1. \A c \in near'[b] : c # b /\ boundOrder'[c] = c
      BY DEF bookVars
    <3>2. Entitled(b) => Entitled(b)'
      BY DEF Entitled, bookVars
    <3>3. IsPlace(b) /\ state'[b] \notin {"claimed", "unknown"} => Quiet(b)' \/ boundOrder'[b] = b
      <4>1. state[a] = "claimed"
        BY DEF Fenced
      <4> QED
        BY <1>7, <2>0, <4>1 DEF BookFact, bookVars
    <3> QED
      BY <2>0, <3>1, <3>2, <3>3 DEF BookFact, bookVars
  <2>4. CancelFact(b)'
    BY <2>0 DEF CancelFact, bookVars
  <2> QED
    BY <2>1, <2>2, <2>3, <2>4 DEF AttemptFact
<1>9. ASSUME NEW v \in Workers PROVE ShapeFact(v)'
    BY <1>0, <1>3, <1>4 DEF LiveInv, ShapeFact
<1>10. ASSUME NEW v \in Workers, NEW b \in Attempts PROVE WorkerFact(v, b)'
  <2>1. CASE v = w
    <3>1. ASSUME b = a PROVE DriveFact(w, a)'
      <4>1. worker[w].tok <= token[a] /\ state[a] \notin {"none", "pending"}
        BY DEF LiveInv, WorkerFact, DriveFact, Driving, Pcs
      <4>2. Ordinal(w)' = Ordinal(w)
        BY <1>3 DEF Ordinal
      <4> QED
        BY <1>3, <4>1, <4>2 DEF DriveFact
    <3>2. DriveFact(w, b)' /\ PlanFact(w, b)' /\ ApplyFact(w, b)'
      BY <1>3, <3>1 DEF DriveFact, PlanFact, ApplyFact
    <3> QED
      BY <2>1, <3>2 DEF WorkerFact
  <2>2. CASE v # w
    <3>1. worker'[v] = worker[v] /\ WorkerFact(v, b)
      BY <1>4, <2>2 DEF LiveInv
    <3>2. worker[v].att = b /\ worker[v].pc \in Driving /\ Fenced(v, b) => b # a
      BY <2>2 DEF LiveInv, PairFact, Fenced, Driving, Pcs
    <3> QED
      BY <1>0, <1>5, <1>6, <1>7, <3>1, <3>2, WorkerKept
  <2> QED
    BY <2>1, <2>2
<1>11. ASSUME NEW u \in Workers, NEW v \in Workers, NEW b \in Attempts PROVE PairFact(u, v, b)'
  <2>1. PairFact(u, v, b)
    BY DEF LiveInv
  <2> QED
    BY <1>3, <1>4, <2>1 DEF PairFact, Driving, Pcs
<1> QED
    BY <1>1, <1>5, <1>8, <1>9, <1>10, <1>11 DEF LiveInv

\* The gate's own attempt is the only unresolved one, so every other order of the
\* broker is bound already: those are the orders a candidate query may mistake.
LEMMA OthersAreBound ==
    ASSUME LiveInv, NEW a \in Attempts, a \in {active, unknown}, NEW c \in Attempts, c # a, created[c] > 0
    PROVE  boundOrder[c] = c
<1>1. BrokerFact(c) /\ BookFact(c) /\ GateExclusive
    BY DEF LiveInv, AttemptFact
<1>2. IsPlace(c) /\ ~Quiet(c)
    BY <1>1 DEF BrokerFact, Quiet
<1>3. state[c] \notin {"claimed", "unknown"}
    BY <1>1, <1>2, NoAttemptAssumption DEF GateExclusive, Unresolved, UsesGate, IsPlace
<1> QED
    BY <1>1, <1>2, <1>3 DEF BookFact

LEMMA MarkSentKeepsInv ==
    ASSUME LiveInv, NEW w \in Workers, MarkSent(w)
    PROVE  LiveInv'
<1>1. PICK a \in Attempts : worker[w].att = a
    BY DEF LiveInv, ShapeFact, MarkSent
<1>2. worker[w].pc = "mark" /\ worker[w].replay = FALSE /\ Goto(w, "call")
    BY WorkerTyped DEF MarkSent, LiveInv
<1>3. MarkAttemptSent(a, worker[w].tok)
    BY <1>1 DEF MarkSent
<1>4. /\ Fenced(w, a) /\ active = a /\ ~sent[a] /\ sent' = [sent EXCEPT ![a] = TRUE]
      /\ Kind[a] = "open" => halted = "no"
      /\ UNCHANGED <<state, token, replays, gateVars, halted, bookVars>>
    BY <1>1, <1>3 DEF MarkAttemptSent, SendFenceHeld, SendHalted, Fenced
<1>5. /\ UNCHANGED <<request, created, brokerOrder, inWindow, cutSends>>
      /\ windowOpen' = [windowOpen EXCEPT ![a] = TRUE]
    BY <1>1 DEF MarkSent
<1>6. PICK seen \in SUBSET {b \in Places : <<a, b>> \in Alike /\ created[b] > 0} :
         near' = [near EXCEPT ![a] = seen]
    BY <1>1 DEF MarkSent
<1>7. [StoreNext]_storeVars
  <2>1. Next
    BY DEF Next, Running, WorkerStep
  <2> QED
    BY <2>1, NextIsStoreStep
<1>8. LiveTypeOK /\ StoreTypeOK /\ AttemptFact(a) /\ GateExclusive
    BY DEF LiveInv, LiveTypeOK
<1>9. sent'[a] /\ \A b \in Attempts \ {a} : sent'[b] = sent[b] /\ replays'[b] = replays[b]
    BY <1>4, <1>8 DEF StoreTypeOK
<1>10. windowOpen' \in [Attempts -> BOOLEAN] /\ near' \in [Attempts -> SUBSET Attempts]
    BY <1>5, <1>6, <1>8 DEF LiveTypeOK, Places
<1>11. created[a] = 0
    BY <1>4, UnsentIsQuiet DEF Quiet
<1>12. ASSUME NEW b \in Attempts, NEW c \in Attempts, c \in near'[b] PROVE c # b /\ boundOrder[c] = c
  <2>1. CASE b # a
    BY <1>6, <1>8, <1>12, <2>1 DEF LiveInv, AttemptFact, BookFact, LiveTypeOK
  <2>2. CASE b = a
    <3>1. c \in seen
      BY <1>6, <1>8, <1>12, <2>2 DEF LiveTypeOK
    <3>2. created[c] > 0
      BY <3>1
    <3>3. c # a
      BY <1>11, <3>2
    <3> QED
      BY <1>4, <2>2, <3>2, <3>3, OthersAreBound
  <2> QED
    BY <2>1, <2>2
<1>13. replays[a] = 0 /\ request[a][0] = "none"
    BY <1>4, <1>8 DEF AttemptFact, SendFact, StoreTypeOK
<1>14. SendFact(a)'
  <2>1. Unresolved(a)
    BY <1>4, <1>8, NoAttemptAssumption DEF GateExclusive
  <2>2. UsesGate(a) /\ state[a] = "claimed" /\ a \in {active, unknown}
    BY <1>4, <2>1 DEF Unresolved, Fenced
  <2> QED
    BY <1>4, <1>5, <1>8, <1>9, <1>13, <2>2 DEF AttemptFact, SendFact, UsesGate, gateVars
<1>15. Ordinal(w) = 0
    BY <1>2 DEF Ordinal
<1>16. \A v \in Workers : worker[v].att = a /\ worker[v].pc = "call" => worker[v].replay # worker[w].replay
    BY <1>4, UnsentIsQuiet DEF Quiet
<1>17. IF worker[w].replay THEN replays'[a] = 1 ELSE replays'[a] = 0
    BY <1>2, <1>4, <1>13
<1>18. request[a][Ordinal(w)] = "none"
    BY <1>13, <1>15
<1> QED
    BY ZenonT(60), <1>1, <1>2, <1>4, <1>5, <1>7, <1>9, <1>10, <1>12, <1>14, <1>16, <1>17, <1>18, MarkKeepsInv

LEMMA MarkReplayedKeepsInv ==
    ASSUME LiveInv, NEW w \in Workers, MarkReplayed(w)
    PROVE  LiveInv'
<1>1. PICK a \in Attempts : worker[w].att = a
    BY DEF LiveInv, ShapeFact, MarkReplayed
<1>2. worker[w].pc = "mark" /\ worker[w].replay = TRUE /\ Goto(w, "call") /\ UNCHANGED <<brokerVars, cutSends>>
    BY WorkerTyped DEF MarkReplayed, LiveInv
<1>3. MarkAttemptReplayed(a, worker[w].tok)
    BY <1>1 DEF MarkReplayed
<1>4. /\ Fenced(w, a) /\ sent[a] /\ replays[a] = 0 /\ replays' = [replays EXCEPT ![a] = 1] /\ halted = "no"
      /\ UNCHANGED <<state, token, sent, gateVars, halted, bookVars>>
    BY <1>1, <1>3 DEF MarkAttemptReplayed, SendFenceHeld, SendHalted, Fenced
<1>5. UNCHANGED <<request, created, brokerOrder, inWindow, windowOpen, near, cutSends>>
    BY <1>2 DEF brokerVars
<1>6. [StoreNext]_storeVars
  <2>1. Next
    BY DEF Next, Running, WorkerStep
  <2> QED
    BY <2>1, NextIsStoreStep
<1>7. LiveTypeOK /\ StoreTypeOK /\ AttemptFact(a) /\ a \in ReplayVerified
    BY <1>1, <1>2 DEF LiveInv, LiveTypeOK, ShapeFact
<1>8. replays'[a] = 1 /\ \A b \in Attempts \ {a} : sent'[b] = sent[b] /\ replays'[b] = replays[b]
    BY <1>4, <1>7 DEF StoreTypeOK
<1>9. windowOpen' \in [Attempts -> BOOLEAN] /\ near' \in [Attempts -> SUBSET Attempts]
    BY <1>5, <1>7 DEF LiveTypeOK
<1>10. \A b \in Attempts, c \in Attempts : c \in near'[b] => c # b /\ boundOrder[c] = c
    BY <1>5 DEF LiveInv, AttemptFact, BookFact
<1>11. request[a][1] = "none"
    BY <1>4, <1>7 DEF AttemptFact, SendFact
<1>12. SendFact(a)'
    BY <1>4, <1>5, <1>7, <1>8 DEF AttemptFact, SendFact, UsesGate, gateVars
<1>13. Ordinal(w) = 1
    BY <1>2 DEF Ordinal
<1>14. \A v \in Workers : worker[v].att = a /\ worker[v].pc = "call" => worker[v].replay # worker[w].replay
    BY <1>2, <1>4 DEF LiveInv, WorkerFact, DriveFact
<1> QED
    BY <1>1, <1>2, <1>4, <1>5, <1>6, <1>8, <1>9, <1>10, <1>11, <1>12, <1>13, <1>14, MarkKeepsInv

\* The request leaves: its marker stands, and no other request of its kind does.
LEMMA CallLeavesKeepsInv ==
    ASSUME LiveInv, NEW w \in Workers, NEW a \in Attempts, NEW n \in Ordinals,
           worker[w].pc = "call", worker[w].att = a, n = Ordinal(w), Goto(w, "wait"),
           request' = [request EXCEPT ![a][n] = "flying"],
           UNCHANGED <<storeVars, created, brokerOrder, inWindow, windowOpen, near, cutSends>>
    PROVE  LiveInv'
<1>0. LiveTypeOK /\ StoreTypeOK /\ worker \in [Workers -> WorkerRecord] /\ ShapeFact(w)
    BY DEF LiveInv, LiveTypeOK, WorkerRecord
<1>1. StoreTypeOK' /\ GateExclusive' /\ Entitlements'
    BY <1>0, StoreStepTyped, StoreStepKeepsGate, StoreStepKeepsEntitlements DEF LiveInv
<1>2. worker' = [worker EXCEPT ![w] = [@ EXCEPT !.pc = "wait"]]
    BY <1>0 DEF Goto, WorkerRecord
<1>3. /\ worker'[w] \in WorkerRecord /\ worker'[w].pc = "wait" /\ worker'[w].att = a
      /\ worker'[w].tok = worker[w].tok /\ worker'[w].replay = worker[w].replay
  <2>1. worker'[w] = [worker[w] EXCEPT !.pc = "wait"] /\ worker[w] \in WorkerRecord
    BY <1>0, <1>2
  <2> QED
    BY <2>1 DEF WorkerRecord, Pcs
<1>4. worker' \in [Workers -> WorkerRecord] /\ \A v \in Workers \ {w} : worker'[v] = worker[v]
    BY <1>0, <1>2, <1>3
<1>5. /\ request' \in [Attempts -> [Ordinals -> {"none", "flying", "done", "refused"}]]
      /\ request'[a][n] = "flying" /\ \A m \in Ordinals \ {n} : request'[a][m] = request[a][m]
      /\ \A b \in Attempts \ {a} : request'[b] = request[b]
    BY <1>0 DEF LiveTypeOK
<1>6. LiveTypeOK'
    BY <1>0, <1>1, <1>4, <1>5 DEF LiveTypeOK, WorkerRecord
<1>7. ASSUME NEW b \in Attempts PROVE StoreForward(b) /\ BrokerForward(b)
  <2>1. StoreForward(b)
    BY <1>0, StoreStepForward DEF LiveInv
  <2>2. created[b] \in Nat /\ brokerOrder[b].filled \in Nat
    BY <1>0, QtyAssumption DEF LiveTypeOK
  <2> QED
    BY <2>1, <2>2 DEF BrokerForward
<1>8. ASSUME NEW b \in Attempts, b # a PROVE Quiet(b) => Quiet(b)'
    BY <1>3, <1>4, <1>5, <1>8 DEF Quiet
<1>9. ~Quiet(a)
    BY DEF Quiet
<1>10. /\ request[a][n] = "none" /\ sent[a] /\ (worker[w].replay => replays[a] = 1)
       /\ worker[w].tok <= token[a] /\ state[a] \notin {"none", "pending"}
       /\ ~worker[w].replay /\ Fenced(w, a) => replays[a] = 0
    BY DEF LiveInv, WorkerFact, DriveFact, Driving, Pcs
<1>11. UNCHANGED <<state, token, sent, replays, active, unknown, halted, order, boundOrder, filled, reserved>>
    BY DEF storeVars, attemptVars, gateVars, bookVars
<1>12. ASSUME NEW b \in Attempts PROVE AttemptFact(b)'
  <2>0. BrokerFact(b) /\ SendFact(b) /\ BookFact(b) /\ CancelFact(b)
    BY DEF LiveInv, AttemptFact
  <2>1. BrokerFact(b)'
    <3>1. CASE b = a
      <4>1. \A m \in Ordinals : (request'[a][m] = "done") <=> (request[a][m] = "done")
        BY <1>5, <1>10
      <4> QED
        BY <2>0, <3>1, <4>1 DEF BrokerFact, Read
    <3>2. CASE b # a
      BY <1>5, <2>0, <3>2 DEF BrokerFact, Read
    <3> QED
      BY <3>1, <3>2
  <2>2. SendFact(b)'
    <3>1. CASE b = a
      <4>1. (request'[a][0] # "none" => sent[a]) /\ (request'[a][1] # "none" => replays[a] = 1)
        BY <1>5, <1>10, <2>0, <3>1 DEF SendFact, Ordinal, Ordinals
      <4> QED
        BY <1>11, <2>0, <3>1, <4>1 DEF SendFact, Sends, UsesGate
    <3>2. CASE b # a
      BY <1>5, <1>11, <2>0, <3>2 DEF SendFact, Sends, UsesGate
    <3> QED
      BY <3>1, <3>2
  <2>3. BookFact(b)'
    BY <1>8, <1>9, <1>11, <2>0 DEF BookFact, Entitled
  <2>4. CancelFact(b)'
    BY <1>11, <2>0 DEF CancelFact
  <2> QED
    BY <2>1, <2>2, <2>3, <2>4 DEF AttemptFact
<1>13. ASSUME NEW v \in Workers PROVE ShapeFact(v)'
    BY <1>0, <1>3, <1>4 DEF LiveInv, ShapeFact
<1>14. ASSUME NEW v \in Workers, NEW b \in Attempts PROVE WorkerFact(v, b)'
  <2>1. CASE v = w
    <3>1. ASSUME b = a PROVE DriveFact(w, a)'
      BY <1>3, <1>10, <1>11 DEF DriveFact, Fenced
    <3>2. DriveFact(w, b)' /\ PlanFact(w, b)' /\ ApplyFact(w, b)'
      BY <1>3, <3>1 DEF DriveFact, PlanFact, ApplyFact
    <3> QED
      BY <2>1, <3>2 DEF WorkerFact
  <2>2. CASE v # w
    <3>1. worker'[v] = worker[v] /\ WorkerFact(v, b) /\ worker[v].replay \in BOOLEAN /\ worker[w].replay \in BOOLEAN
      BY <1>0, <1>4, <2>2, WorkerTyped DEF LiveInv
    <3>2. worker[v].att = b /\ worker[v].pc = "call" => request'[b][Ordinal(v)] = request[b][Ordinal(v)]
      <4>1. CASE b # a
        BY <1>5, <4>1
      <4>2. CASE b = a
        <5>1. worker[v].att = a /\ worker[v].pc = "call" => Ordinal(v) # n /\ Ordinal(v) \in Ordinals
          BY <2>2, <3>1 DEF LiveInv, PairFact, Ordinal, Ordinals
        <5> QED
          BY <1>5, <4>2, <5>1
      <4> QED
        BY <4>1, <4>2
    <3> QED
      BY <1>0, <1>6, <1>7, <1>8, <1>9, <1>11, <3>1, <3>2, WorkerKept
  <2> QED
    BY <2>1, <2>2
<1>15. ASSUME NEW u \in Workers, NEW v \in Workers, NEW b \in Attempts PROVE PairFact(u, v, b)'
  <2>1. PairFact(u, v, b)
    BY DEF LiveInv
  <2> QED
    BY <1>3, <1>4, <2>1 DEF PairFact, Driving, Pcs
<1> QED
    BY <1>1, <1>6, <1>12, <1>13, <1>14, <1>15 DEF LiveInv

LEMMA CallProviderKeepsInv ==
    ASSUME LiveInv, NEW w \in Workers, CallProvider(w)
    PROVE  LiveInv'
<1>1. PICK a \in Attempts : worker[w].att = a
    BY DEF LiveInv, ShapeFact, CallProvider
<1>2. worker[w].pc = "call" /\ worker[w].pc \in Driving /\ WorkerFact(w, a) /\ AttemptFact(a)
    BY <1>1 DEF CallProvider, Driving, Pcs, LiveInv
<1>3. CASE Plan(w, Refused(w)) /\ UNCHANGED request
  <2>1. UNCHANGED <<storeVars, brokerVars, cutSends>>
    BY <1>3 DEF CallProvider, brokerVars
  <2>2. ~worker[w].replay /\ Fenced(w, a) => QuietBut(w, a)
    <3> SUFFICES ASSUME ~worker[w].replay, Fenced(w, a) PROVE QuietBut(w, a)
      OBVIOUS
    <3>1. request[a][0] = "none" /\ replays[a] = 0
      BY <1>1, <1>2 DEF Ordinal, WorkerFact, DriveFact
    <3>2. request[a][1] = "none"
      BY <1>2, <3>1 DEF AttemptFact, SendFact
    <3>3. created[a] = 0
      BY <1>2, <3>1, <3>2 DEF AttemptFact, BrokerFact, Ordinals, LiveInv, LiveTypeOK
    <3>4. ASSUME NEW v \in Workers \ {w}, worker[v].att = a, worker[v].pc = "call" PROVE FALSE
      <4>1. worker[v].replay => replays[a] = 1
        BY <3>4 DEF LiveInv, WorkerFact, DriveFact
      <4>2. worker[v].replay # worker[w].replay
        BY <1>1, <1>2, <3>4 DEF LiveInv, PairFact
      <4>3. worker[v].replay \in BOOLEAN /\ worker[w].replay \in BOOLEAN
        BY WorkerTyped DEF LiveInv
      <4> QED
        BY <3>1, <4>1, <4>2, <4>3
    <3> QED
      BY <3>1, <3>2, <3>3, <3>4 DEF QuietBut, Ordinals
  <2> QED
    BY <1>1, <1>2, <1>3, <2>1, <2>2, RefusedKeepsInv
<1>4. CASE request' = [request EXCEPT ![a][Ordinal(w)] = "flying"] /\ Goto(w, "wait")
  <2>1. UNCHANGED <<storeVars, created, brokerOrder, inWindow, windowOpen, near, cutSends>>
    BY DEF CallProvider
  <2>2. Ordinal(w) \in Ordinals
    BY DEF Ordinal, Ordinals
  <2> QED
    BY <1>1, <1>2, <1>4, <2>1, <2>2, CallLeavesKeepsInv
<1>5. CASE a \in Cancels /\ Plan(w, ResolutionForOrder(a, Read(Target[a]))) /\ UNCHANGED request
  <2>1. UNCHANGED <<storeVars, brokerVars, cutSends>>
    BY <1>5 DEF CallProvider, brokerVars
  <2>2. state[a] # "none"
    BY <1>1, <1>2 DEF WorkerFact, DriveFact
  <2> QED
    BY <1>1, <1>2, <1>5, <2>1, <2>2, TargetExists, ReadKeepsInv
<1> QED
    BY <1>1, <1>3, <1>4, <1>5 DEF CallProvider

-----------------------------------------------------------------------------
(* The broker                                                              *)

\* A step of the broker alone that only moves its orders forward.
LEMMA BrokerKeepsInv ==
    ASSUME LiveInv, UNCHANGED <<storeVars, worker, cutSends, near>>,
           request' \in [Attempts -> [Ordinals -> {"none", "flying", "done", "refused"}]],
           created' \in [Attempts -> Nat],
           brokerOrder' \in [Attempts -> [state : OrderStates, filled : 0..Qty]],
           inWindow' \in [Attempts -> BOOLEAN], windowOpen' \in [Attempts -> BOOLEAN],
           \A b \in Attempts : BrokerForward(b) /\ BrokerFact(b)',
           \A b \in Attempts, n \in Ordinals : (request'[b][n] = "none") <=> (request[b][n] = "none"),
           \A b \in Attempts : Quiet(b) => created'[b] = 0 /\ request'[b] = request[b]
    PROVE  LiveInv'
<1>0. LiveTypeOK /\ StoreTypeOK
    BY DEF LiveInv, LiveTypeOK
<1>1. StoreTypeOK' /\ GateExclusive' /\ Entitlements'
    BY <1>0, StoreStepTyped, StoreStepKeepsGate, StoreStepKeepsEntitlements DEF LiveInv
<1>2. LiveTypeOK'
    BY <1>0, <1>1 DEF LiveTypeOK
<1>3. ASSUME NEW b \in Attempts PROVE StoreForward(b)
    BY <1>0, StoreStepForward DEF LiveInv
<1>4. ASSUME NEW b \in Attempts PROVE Quiet(b) => Quiet(b)'
    BY DEF Quiet
<1>5. UNCHANGED <<state, token, sent, replays, active, unknown, halted, order, boundOrder, filled, reserved>>
    BY DEF storeVars, attemptVars, gateVars, bookVars
<1>6. ASSUME NEW b \in Attempts PROVE AttemptFact(b)'
  <2>0. SendFact(b) /\ BookFact(b) /\ CancelFact(b)
    BY DEF LiveInv, AttemptFact
  <2>1. SendFact(b)'
    BY <1>5, <2>0 DEF SendFact, Sends, UsesGate, Ordinals
  <2>2. BookFact(b)'
    <3>1. /\ created[b] \in Nat /\ created'[b] \in Nat /\ filled[b] \in Nat
          /\ brokerOrder[b].filled \in Nat /\ brokerOrder'[b].filled \in Nat
      BY <1>0, <1>2, QtyAssumption DEF LiveTypeOK, StoreTypeOK
    <3>2. boundOrder[b] = b => created'[b] > 0 /\ filled[b] <= brokerOrder'[b].filled
      BY <2>0, <3>1 DEF BookFact, BrokerForward
    <3>3. boundOrder[b] = b /\ order[b] \in Ended => brokerOrder'[b] = brokerOrder[b]
      BY <2>0 DEF BookFact, BrokerForward
    <3> QED
      BY <1>4, <1>5, <2>0, <3>2, <3>3 DEF BookFact, Entitled
  <2>3. CancelFact(b)'
    BY <1>3, <1>5, <2>0, CancelKept
  <2> QED
    BY <2>1, <2>2, <2>3 DEF AttemptFact
<1>7. ASSUME NEW v \in Workers, NEW b \in Attempts PROVE WorkerFact(v, b)'
  <2>1. WorkerFact(v, b) /\ worker'[v] = worker[v]
    BY DEF LiveInv
  <2>2. worker[v].att = b /\ worker[v].pc = "call" => request'[b][Ordinal(v)] = request[b][Ordinal(v)]
    BY <2>1 DEF WorkerFact, DriveFact, Ordinal, Ordinals
  <2> QED
    BY <1>0, <1>2, <1>3, <1>4, <1>5, <2>1, <2>2, WorkerKept
<1>8. ASSUME NEW v \in Workers PROVE ShapeFact(v)'
    BY DEF LiveInv, ShapeFact
<1>9. ASSUME NEW u \in Workers, NEW v \in Workers, NEW b \in Attempts PROVE PairFact(u, v, b)'
    BY DEF LiveInv, PairFact
<1> QED
    BY <1>1, <1>2, <1>6, <1>7, <1>8, <1>9 DEF LiveInv

\* A working order exists and has room for a fill.
LEMMA WorkingHasRoom ==
    ASSUME LiveInv, NEW a \in Attempts, brokerOrder[a].state \in Working
    PROVE  /\ created[a] > 0 /\ IsPlace(a) /\ brokerOrder[a].state \notin Ended
           /\ brokerOrder[a].filled \in Nat /\ brokerOrder[a].filled < Qty
<1>1. BrokerFact(a) /\ created[a] \in Nat /\ brokerOrder[a].filled \in 0..Qty
    BY DEF LiveInv, AttemptFact, LiveTypeOK
<1>2. created[a] > 0
    BY <1>1 DEF BrokerFact, Working
<1>3. brokerOrder[a].filled < Qty
  <2>1. ProviderRead(Read(a))
    BY <1>1, <1>2 DEF BrokerFact
  <2>2. \/ brokerOrder[a].filled = 0
        \/ brokerOrder[a].filled \in 1..(Qty - 1)
    BY <2>1 DEF ProviderRead, Read, Working
  <2> QED
    BY <2>2, QtyAssumption
<1> QED
    BY <1>1, <1>2, <1>3, QtyAssumption DEF BrokerFact, Working, Ended, TerminalUnfilled

\* One order changes at the broker, and no request does.
LEMMA OrderMovesKeepsInv ==
    ASSUME LiveInv, UNCHANGED <<storeVars, worker, cutSends, near, created, inWindow, windowOpen>>,
           NEW t \in Attempts, brokerOrder[t].state \in Working,
           NEW st, NEW f \in 0..Qty, f >= brokerOrder[t].filled,
           \/ st = "partially_filled" /\ f \in 1..(Qty - 1)
           \/ st = "filled" /\ f = Qty
           \/ st \in {"cancelled", "expired"} /\ f < Qty,
           brokerOrder' \in [Attempts -> [state : OrderStates, filled : 0..Qty]],
           brokerOrder'[t].state = st, brokerOrder'[t].filled = f,
           \A b \in Attempts \ {t} : brokerOrder'[b] = brokerOrder[b],
           \/ UNCHANGED request
           \/ \E c \in Cancels, answer \in {"done", "refused"} :
                 request[c][0] = "flying" /\ request' = [request EXCEPT ![c][0] = answer]
    PROVE  LiveInv'
<1>0. LiveTypeOK
    BY DEF LiveInv
<1>1. /\ created[t] > 0 /\ IsPlace(t) /\ brokerOrder[t].state \notin Ended
      /\ brokerOrder[t].filled \in Nat /\ brokerOrder[t].filled < Qty
    BY WorkingHasRoom
<1>2. /\ request' \in [Attempts -> [Ordinals -> {"none", "flying", "done", "refused"}]]
      /\ \A b \in Attempts : request'[b] = request[b] \/ (b \in Cancels /\ request[b][0] = "flying")
      /\ \A b \in Attempts, n \in Ordinals : (request'[b][n] = "none") <=> (request[b][n] = "none")
  <2>1. CASE UNCHANGED request
    BY <1>0, <2>1 DEF LiveTypeOK
  <2>2. ASSUME NEW c \in Cancels, NEW answer \in {"done", "refused"},
               request[c][0] = "flying", request' = [request EXCEPT ![c][0] = answer]
        PROVE  /\ request' \in [Attempts -> [Ordinals -> {"none", "flying", "done", "refused"}]]
               /\ \A b \in Attempts : request'[b] = request[b] \/ (b \in Cancels /\ request[b][0] = "flying")
               /\ \A b \in Attempts, n \in Ordinals : (request'[b][n] = "none") <=> (request[b][n] = "none")
    <3>1. c \in Attempts /\ request \in [Attempts -> [Ordinals -> {"none", "flying", "done", "refused"}]]
      BY <1>0 DEF Cancels, LiveTypeOK
    <3>2. /\ request'[c][0] = answer /\ request'[c][1] = request[c][1]
          /\ \A b \in Attempts \ {c} : request'[b] = request[b]
      BY <2>2, <3>1 DEF Ordinals
    <3>3. request' \in [Attempts -> [Ordinals -> {"none", "flying", "done", "refused"}]]
      BY <2>2, <3>1 DEF Ordinals
    <3> QED
      BY <2>2, <3>1, <3>2, <3>3 DEF Ordinals
  <2> QED
    BY <2>1, <2>2
<1>3. ASSUME NEW b \in Attempts PROVE BrokerForward(b)
  <2>1. created[b] \in Nat /\ brokerOrder[b].filled \in Nat
    BY <1>0, QtyAssumption DEF LiveTypeOK
  <2> QED
    BY <1>1, <2>1 DEF BrokerForward
<1>4. ASSUME NEW b \in Attempts PROVE BrokerFact(b)'
  <2>0. BrokerFact(b) /\ created[b] \in Nat
    BY <1>0 DEF LiveInv, AttemptFact, LiveTypeOK
  <2>1. CASE b \in Cancels
    <3>1. ~IsPlace(b) /\ created[b] = 0 /\ b # t
      BY <1>1, <2>0, <2>1 DEF BrokerFact, Cancels, IsPlace
    <3> QED
      BY <2>0, <3>1 DEF BrokerFact
  <2>2. CASE b \notin Cancels /\ b # t
    BY <1>2, <2>0, <2>2 DEF BrokerFact, Read
  <2>3. CASE b \notin Cancels /\ b = t
    <3>1. ProviderRead(Read(t))'
      BY NoAttemptAssumption DEF ProviderRead, Read
    <3> QED
      BY <1>1, <1>2, <2>0, <2>3, <3>1 DEF BrokerFact
  <2> QED
    BY <2>1, <2>2, <2>3
<1>5. \A b \in Attempts : Quiet(b) => created'[b] = 0 /\ request'[b] = request[b]
    BY <1>2 DEF Quiet, Ordinals
<1>6. /\ created' \in [Attempts -> Nat] /\ inWindow' \in [Attempts -> BOOLEAN]
      /\ windowOpen' \in [Attempts -> BOOLEAN]
    BY <1>0 DEF LiveTypeOK
<1> QED
    BY <1>2, <1>3, <1>4, <1>5, <1>6, BrokerKeepsInv

\* A request arrives and moves no order, or makes the attempt's first one.
LEMMA RequestArrivesKeepsInv ==
    ASSUME LiveInv, UNCHANGED <<storeVars, worker, cutSends, near, windowOpen>>,
           NEW a \in Attempts, NEW n \in Ordinals, NEW answer \in {"done", "refused"},
           request[a][n] = "flying", request' = [request EXCEPT ![a][n] = answer],
           \/ /\ UNCHANGED <<created, brokerOrder, inWindow>>
              /\ IsPlace(a) => (answer = "done" /\ created[a] > 0) \/ (answer = "refused" /\ created[a] = 0)
           \/ /\ IsPlace(a) /\ answer = "done" /\ created[a] = 0
              /\ created' = [created EXCEPT ![a] = @ + 1]
              /\ \E st \in {"submitted", "rejected"} :
                    brokerOrder' = [brokerOrder EXCEPT ![a] = [state |-> st, filled |-> 0]]
              /\ inWindow' = [inWindow EXCEPT ![a] = windowOpen[a]]
    PROVE  LiveInv'
<1>0. LiveTypeOK /\ \A b \in Attempts : BrokerFact(b)
    BY DEF LiveInv, AttemptFact
<1>1. /\ request' \in [Attempts -> [Ordinals -> {"none", "flying", "done", "refused"}]]
      /\ request'[a][n] = answer /\ \A m \in Ordinals \ {n} : request'[a][m] = request[a][m]
      /\ \A b \in Attempts \ {a} : request'[b] = request[b]
    BY <1>0 DEF LiveTypeOK
<1>2. \A b \in Attempts, m \in Ordinals : (request'[b][m] = "none") <=> (request[b][m] = "none")
    BY <1>1
<1>3. ~Quiet(a)
    BY DEF Quiet
<1>4. created[a] \in Nat /\ windowOpen[a] \in BOOLEAN /\ 0 \in 0..Qty
    BY <1>0, QtyAssumption DEF LiveTypeOK
<1>5. CASE /\ UNCHANGED <<created, brokerOrder, inWindow>>
           /\ IsPlace(a) => (answer = "done" /\ created[a] > 0) \/ (answer = "refused" /\ created[a] = 0)
  <2>1. ASSUME NEW b \in Attempts PROVE BrokerForward(b)
    <3>1. created[b] \in Nat /\ brokerOrder[b].filled \in Nat
      BY <1>0, QtyAssumption DEF LiveTypeOK
    <3> QED
      BY <1>5, <3>1 DEF BrokerForward
  <2>2. ASSUME NEW b \in Attempts PROVE BrokerFact(b)'
    <3>1. CASE b # a
      BY <1>0, <1>1, <1>5, <3>1 DEF BrokerFact, Read
    <3>2. CASE b = a
      <4>1. \A m \in Ordinals : request[a][m] = "done" => request'[a][m] = "done"
        BY <1>1
      <4>2. IsPlace(a) => \A m \in Ordinals : request'[a][m] = "done" => created[a] > 0
        BY <1>0, <1>1, <1>5 DEF BrokerFact
      <4> QED
        BY <1>0, <1>5, <3>2, <4>1, <4>2 DEF BrokerFact, Read
    <3> QED
      BY <3>1, <3>2
  <2>3. \A b \in Attempts : Quiet(b) => created'[b] = 0 /\ request'[b] = request[b]
    BY <1>1, <1>3, <1>5 DEF Quiet
  <2>4. /\ created' \in [Attempts -> Nat] /\ inWindow' \in [Attempts -> BOOLEAN]
        /\ windowOpen' \in [Attempts -> BOOLEAN]
        /\ brokerOrder' \in [Attempts -> [state : OrderStates, filled : 0..Qty]]
    BY <1>0, <1>5 DEF LiveTypeOK
  <2> QED
    BY <1>1, <1>2, <2>1, <2>2, <2>3, <2>4, BrokerKeepsInv
<1>6. ASSUME IsPlace(a), answer = "done", created[a] = 0, created' = [created EXCEPT ![a] = @ + 1],
             NEW st \in {"submitted", "rejected"},
             brokerOrder' = [brokerOrder EXCEPT ![a] = [state |-> st, filled |-> 0]],
             inWindow' = [inWindow EXCEPT ![a] = windowOpen[a]]
      PROVE  LiveInv'
  <2>1. /\ created' \in [Attempts -> Nat] /\ created'[a] = 1
        /\ \A b \in Attempts \ {a} : created'[b] = created[b]
    BY <1>0, <1>6 DEF LiveTypeOK
  <2>2. /\ brokerOrder' \in [Attempts -> [state : OrderStates, filled : 0..Qty]]
        /\ brokerOrder'[a].state = st /\ brokerOrder'[a].filled = 0
        /\ \A b \in Attempts \ {a} : brokerOrder'[b] = brokerOrder[b]
    BY <1>0, <1>4, <1>6 DEF LiveTypeOK, OrderStates
  <2>3. /\ inWindow' \in [Attempts -> BOOLEAN] /\ windowOpen' \in [Attempts -> BOOLEAN]
        /\ \A b \in Attempts \ {a} : inWindow'[b] = inWindow[b]
    BY <1>0, <1>4, <1>6 DEF LiveTypeOK
  <2>4. ASSUME NEW b \in Attempts PROVE BrokerForward(b)
    <3>1. created[b] \in Nat /\ brokerOrder[b].filled \in Nat
      BY <1>0, QtyAssumption DEF LiveTypeOK
    <3>2. CASE b # a
      BY <2>1, <2>2, <3>1, <3>2 DEF BrokerForward
    <3>3. CASE b = a
      <4>1. brokerOrder[a].state = "none" /\ brokerOrder[a].filled = 0
        BY <1>0, <1>6 DEF BrokerFact
      <4> QED
        BY <1>6, <2>1, <2>2, <3>3, <4>1 DEF BrokerForward, Ended, TerminalUnfilled
    <3> QED
      BY <3>2, <3>3
  <2>5. ASSUME NEW b \in Attempts PROVE BrokerFact(b)'
    <3>1. CASE b # a
      BY <1>0, <1>1, <2>1, <2>2, <2>3, <3>1 DEF BrokerFact, Read
    <3>2. CASE b = a
      <4>1. ProviderRead(Read(a))'
        BY <2>2, NoAttemptAssumption DEF ProviderRead, Read
      <4> QED
        BY <1>1, <1>6, <2>1, <3>2, <4>1 DEF BrokerFact
    <3> QED
      BY <3>1, <3>2
  <2>6. \A b \in Attempts : Quiet(b) => created'[b] = 0 /\ request'[b] = request[b]
    BY <1>1, <1>3, <2>1 DEF Quiet
  <2> QED
    BY <1>1, <1>2, <2>1, <2>2, <2>3, <2>4, <2>5, <2>6, BrokerKeepsInv
<1> QED
    BY <1>5, <1>6

LEMMA DeliverPlaceKeepsInv ==
    ASSUME LiveInv, NEW a \in Attempts, NEW n \in Ordinals, DeliverPlace(a, n),
           UNCHANGED <<storeVars, worker, cutSends>>
    PROVE  LiveInv'
<1>1. IsPlace(a) /\ request[a][n] = "flying" /\ UNCHANGED <<windowOpen, near>>
    BY DEF DeliverPlace, Places
\* without proof that the broker deduplicates there is no second request
<1>2. a \notin ReplayVerified => created[a] = 0
  <2>1. BrokerFact(a) /\ SendFact(a) /\ created[a] \in Nat
    BY DEF LiveInv, AttemptFact, LiveTypeOK
  <2>2. a \notin ReplayVerified => request[a][1] = "none"
    BY <2>1 DEF SendFact
  <2>3. a \notin ReplayVerified => request[a][0] = "flying"
    BY <1>1, <2>2 DEF Ordinals
  <2> QED
    BY <2>1, <2>2, <2>3 DEF BrokerFact, Ordinals
<1>3. CASE /\ created[a] > 0 /\ request' = [request EXCEPT ![a][n] = "done"]
           /\ UNCHANGED <<created, brokerOrder, inWindow>>
    BY <1>1, <1>3, RequestArrivesKeepsInv
<1>4. CASE /\ created[a] = 0 /\ request' = [request EXCEPT ![a][n] = "refused"]
           /\ UNCHANGED <<created, brokerOrder, inWindow>>
    BY <1>1, <1>4, RequestArrivesKeepsInv
<1>5. CASE /\ created[a] = 0 /\ request' = [request EXCEPT ![a][n] = "done"]
           /\ created' = [created EXCEPT ![a] = @ + 1]
           /\ \E st \in {"submitted", "rejected"} :
                 brokerOrder' = [brokerOrder EXCEPT ![a] = [state |-> st, filled |-> 0]]
           /\ inWindow' = [inWindow EXCEPT ![a] = windowOpen[a]]
    BY <1>1, <1>5, RequestArrivesKeepsInv
<1> QED
    BY <1>2, <1>3, <1>4, <1>5 DEF DeliverPlace

LEMMA BrokerStepKeepsInv ==
    ASSUME LiveInv, BrokerStep
    PROVE  LiveInv'
<1>0. UNCHANGED <<storeVars, worker, cutSends>> /\ LiveTypeOK
    BY DEF BrokerStep, LiveInv
<1>1. ASSUME NEW a \in Attempts, NEW n \in Ordinals, DeliverPlace(a, n) PROVE LiveInv'
    BY <1>0, <1>1, DeliverPlaceKeepsInv
<1>2. ASSUME NEW a \in Attempts, DeliverCancel(a) PROVE LiveInv'
  <2>1. /\ a \in Cancels /\ request[a][0] = "flying" /\ UNCHANGED <<created, inWindow, windowOpen, near>>
        /\ Target[a] \in Attempts /\ ~IsPlace(a)
    BY <1>2, TargetAssumption DEF DeliverCancel, Places, Cancels, IsPlace
  <2>2. ASSUME NEW answer \in {"done", "refused"}, request' = [request EXCEPT ![a][0] = answer],
               UNCHANGED brokerOrder
        PROVE  LiveInv'
    BY <1>0, <2>1, <2>2, RequestArrivesKeepsInv DEF Ordinals
  <2>3. CASE /\ brokerOrder[Target[a]].state \in Working
             /\ brokerOrder' = [brokerOrder EXCEPT ![Target[a]].state = "cancelled"]
             /\ request' = [request EXCEPT ![a][0] = "done"]
    <3> DEFINE t == Target[a]
               f == brokerOrder[t].filled
    <3>1. f \in 0..Qty /\ f >= f /\ f < Qty
      BY <2>1, <2>3, WorkingHasRoom, QtyAssumption
    <3>2. /\ brokerOrder' \in [Attempts -> [state : OrderStates, filled : 0..Qty]]
          /\ brokerOrder'[t].state = "cancelled" /\ brokerOrder'[t].filled = f
          /\ \A b \in Attempts \ {t} : brokerOrder'[b] = brokerOrder[b]
      BY <1>0, <2>1, <2>3 DEF LiveTypeOK, OrderStates
    <3> HIDE DEF f
    <3>3. f >= brokerOrder[t].filled
      BY <3>1 DEF f
    <3> QED
      BY <1>0, <2>1, <2>3, <3>1, <3>2, <3>3, OrderMovesKeepsInv
  <2> QED
    BY <1>2, <2>2, <2>3 DEF DeliverCancel
<1>3. ASSUME NEW a \in Attempts, BrokerFill(a) PROVE LiveInv'
  <2> DEFINE f == brokerOrder[a].filled + 1
             st == IF f = Qty THEN "filled" ELSE "partially_filled"
  <2>1. /\ brokerOrder[a].state \in Working /\ UNCHANGED <<request, created, inWindow, windowOpen, near>>
        /\ brokerOrder' = [brokerOrder EXCEPT ![a] = [state |-> st, filled |-> f]]
    BY <1>3 DEF BrokerFill
  <2>2. /\ f \in 0..Qty /\ f >= brokerOrder[a].filled
        /\ (st = "partially_filled" /\ f \in 1..(Qty - 1)) \/ (st = "filled" /\ f = Qty)
    BY <2>1, WorkingHasRoom, QtyAssumption
  <2> HIDE DEF f, st
  <2>3. /\ brokerOrder' \in [Attempts -> [state : OrderStates, filled : 0..Qty]]
        /\ brokerOrder'[a].state = st /\ brokerOrder'[a].filled = f
        /\ \A b \in Attempts \ {a} : brokerOrder'[b] = brokerOrder[b]
    BY <1>0, <2>1, <2>2 DEF LiveTypeOK, OrderStates
  <2> QED
    BY <1>0, <2>1, <2>2, <2>3, OrderMovesKeepsInv
<1>4. ASSUME NEW a \in Attempts, BrokerEnds(a) PROVE LiveInv'
  <2> DEFINE f == brokerOrder[a].filled
  <2>1. /\ brokerOrder[a].state \in Working /\ UNCHANGED <<request, created, inWindow, windowOpen, near>>
        /\ brokerOrder' = [brokerOrder EXCEPT ![a].state = "expired"]
    BY <1>4 DEF BrokerEnds
  <2>2. f \in 0..Qty /\ f >= f /\ f < Qty
    BY <2>1, WorkingHasRoom, QtyAssumption
  <2>3. /\ brokerOrder' \in [Attempts -> [state : OrderStates, filled : 0..Qty]]
        /\ brokerOrder'[a].state = "expired" /\ brokerOrder'[a].filled = f
        /\ \A b \in Attempts \ {a} : brokerOrder'[b] = brokerOrder[b]
    BY <1>0, <2>1 DEF LiveTypeOK, OrderStates
  <2> HIDE DEF f
  <2>4. f >= brokerOrder[a].filled
    BY <2>2 DEF f
  <2> QED
    BY <1>0, <2>1, <2>2, <2>3, <2>4, OrderMovesKeepsInv
<1>5. ASSUME NEW a \in Attempts, WindowEnds(a) PROVE LiveInv'
  <2>1. /\ UNCHANGED <<request, created, brokerOrder, inWindow, near>>
        /\ windowOpen' \in [Attempts -> BOOLEAN]
    BY <1>0, <1>5 DEF WindowEnds, LiveTypeOK
  <2>2. ASSUME NEW b \in Attempts PROVE BrokerForward(b) /\ BrokerFact(b)'
    <3>1. created[b] \in Nat /\ brokerOrder[b].filled \in Nat /\ BrokerFact(b)
      BY <1>0, QtyAssumption DEF LiveTypeOK, LiveInv, AttemptFact
    <3> QED
      BY <2>1, <3>1 DEF BrokerForward, BrokerFact, Read
  <2> QED
    BY <1>0, <2>1, <2>2, BrokerKeepsInv DEF LiveTypeOK, Quiet
<1> QED
    BY <1>1, <1>2, <1>3, <1>4, <1>5 DEF BrokerStep

-----------------------------------------------------------------------------
(* The invariant holds                                                     *)

LEMMA InitEstablishesInv == Init => LiveInv
<1> SUFFICES ASSUME Init PROVE LiveInv
    OBVIOUS
<1>1. /\ StoreInit
      /\ worker = [w \in Workers |-> Idle]
      /\ request = [a \in Attempts |-> [n \in Ordinals |-> "none"]]
      /\ created = [a \in Attempts |-> 0]
      /\ brokerOrder = [a \in Attempts |-> [state |-> "none", filled |-> 0]]
      /\ inWindow = [a \in Attempts |-> FALSE]
      /\ windowOpen = [a \in Attempts |-> FALSE]
      /\ near = [a \in Attempts |-> {}]
      /\ cutSends = [a \in Attempts |-> 0]
    BY DEF Init
<1>2. Idle \in WorkerRecord /\ Idle.pc = "idle" /\ Idle.replay = FALSE
    BY IdleTyped
<1>3. LiveTypeOK
  <2>1. StoreTypeOK
    BY <1>1, StoreInitTyped
  <2>2. worker \in [Workers -> WorkerRecord]
    BY <1>1, <1>2
  <2>3. 0 \in 0..Qty /\ "none" \in OrderStates
    BY QtyAssumption DEF OrderStates
  <2>4. brokerOrder \in [Attempts -> [state : OrderStates, filled : 0..Qty]]
    BY <1>1, <2>3
  <2>5. request \in [Attempts -> [Ordinals -> {"none", "flying", "done", "refused"}]]
    BY <1>1
  <2> QED
    BY <1>1, <2>1, <2>2, <2>4, <2>5 DEF LiveTypeOK, WorkerRecord
<1>4. GateExclusive
    BY <1>1, NoAttemptAssumption DEF StoreInit, GateExclusive, GateEmpty, Unresolved
<1>5. Entitlements
    BY <1>1, StoreInitEntitled
<1>6. ASSUME NEW w \in Workers PROVE worker[w].pc = "idle" /\ worker[w].replay = FALSE
    BY <1>1, <1>2
<1>7. ASSUME NEW a \in Attempts PROVE AttemptFact(a)
  <2>1. /\ created[a] = 0 /\ brokerOrder[a] = [state |-> "none", filled |-> 0] /\ ~inWindow[a]
        /\ \A n \in Ordinals : request[a][n] = "none"
        /\ near[a] = {}
    BY <1>1
  <2>2. /\ sent[a] = FALSE /\ replays[a] = 0 /\ halted = "no" /\ boundOrder[a] = NoAttempt
        /\ filled[a] = 0 /\ state[a] \in {"none", "claimed", "unknown"}
        /\ state[a] # "none" => Kind[a] \in {"open", "close"}
    BY <1>1, LegacyAssumption DEF StoreInit
  <2>3. Quiet(a)
    BY <1>6, <2>1 DEF Quiet
  <2>4. BrokerFact(a)
    BY <2>1 DEF BrokerFact
  <2>5. SendFact(a)
    BY <2>1, <2>2 DEF SendFact, Ordinals
  <2>6. BookFact(a)
    BY <2>1, <2>2, <2>3, NoAttemptAssumption DEF BookFact
  <2>7. CancelFact(a)
    BY <2>2 DEF CancelFact, Cancels
  <2> QED
    BY <2>4, <2>5, <2>6, <2>7 DEF AttemptFact
<1>8. ASSUME NEW w \in Workers PROVE ShapeFact(w)
    BY <1>6 DEF ShapeFact
<1>9. ASSUME NEW w \in Workers, NEW a \in Attempts PROVE WorkerFact(w, a)
    BY <1>6 DEF WorkerFact, DriveFact, PlanFact, ApplyFact, Driving
<1>10. ASSUME NEW v \in Workers, NEW w \in Workers, NEW a \in Attempts PROVE PairFact(v, w, a)
    BY <1>6 DEF PairFact, Driving
<1> QED
    BY <1>3, <1>4, <1>5, <1>7, <1>8, <1>9, <1>10 DEF LiveInv

LEMMA StutterKeepsInv == LiveInv /\ UNCHANGED vars => LiveInv'
<1> SUFFICES ASSUME LiveInv, UNCHANGED vars PROVE LiveInv'
    OBVIOUS
<1>1. /\ UNCHANGED <<state, token, leased, sent, replays, candidate, active, unknown, halted,
                    order, boundOrder, filled, reserved, status>>
      /\ UNCHANGED <<worker, request, created, brokerOrder, inWindow, windowOpen, near, cutSends>>
    BY DEF vars, storeVars, attemptVars, gateVars, bookVars, brokerVars
<1>2. LiveTypeOK' /\ GateExclusive' /\ Entitlements'
    BY <1>1 DEF LiveInv, LiveTypeOK, StoreTypeOK, GateExclusive, GateEmpty, Unresolved,
                Entitlements, EntitledOne, Claimable
<1>3. ASSUME NEW a \in Attempts PROVE AttemptFact(a)'
    BY <1>1 DEF LiveInv, AttemptFact, BrokerFact, ProviderRead, Read, SendFact, Sends, BookFact,
                Quiet, Entitled, CancelFact
<1>4. ASSUME NEW w \in Workers PROVE ShapeFact(w)'
    BY <1>1 DEF LiveInv, ShapeFact
<1>5. ASSUME NEW w \in Workers, NEW a \in Attempts PROVE WorkerFact(w, a)'
  <2>1. WorkerFact(w, a)
    BY DEF LiveInv
  <2>2. DriveFact(w, a)'
    BY <1>1, <2>1 DEF WorkerFact, DriveFact, Fenced, Ordinal
  <2>3. Quiet(a)' = Quiet(a)
    BY <1>1 DEF Quiet
  <2>4. \A u : Past(u)' <=> Past(u)
    BY <1>1 DEF Past, Read
  <2>5. PlanFact(w, a)'
    BY <1>1, <2>1, <2>3, <2>4 DEF WorkerFact, PlanFact, Fenced
  <2>6. ApplyFact(w, a)'
    BY <1>1, <2>1, <2>4 DEF WorkerFact, ApplyFact
  <2> QED
    BY <2>2, <2>5, <2>6 DEF WorkerFact
<1>6. ASSUME NEW v \in Workers, NEW w \in Workers, NEW a \in Attempts PROVE PairFact(v, w, a)'
    BY <1>1 DEF LiveInv, PairFact
<1> QED
    BY <1>2, <1>3, <1>4, <1>5, <1>6 DEF LiveInv

LEMMA NextKeepsInv == LiveInv /\ [Next]_vars => LiveInv'
<1> SUFFICES ASSUME LiveInv, [Next]_vars PROVE LiveInv'
    OBVIOUS
<1>1. CASE UNCHANGED vars
    BY <1>1, StutterKeepsInv
<1>2. CASE Halt \/ Resume
    BY <1>2, HaltKeepsInv
<1>3. ASSUME NEW a \in Attempts, Propose(a) \/ FailPending(a) \/ LeaseExpiry(a) PROVE LiveInv'
    BY <1>3, AdmissionKeepsInv
<1>4. ASSUME NEW w \in Workers, NEW a \in Attempts,
             ClaimPending(w, a) \/ ClaimUncertain(w, a) \/ ClaimCandidate(w, a)
      PROVE  LiveInv'
    BY <1>4, ClaimsKeepInv
<1>5. ASSUME NEW w \in Workers, NEW a \in Attempts, ObserveOrder(w, a) PROVE LiveInv'
    BY <1>5, ObserveOrderKeepsInv
<1>6. ASSUME NEW w \in Workers, WorkerStep(w) PROVE LiveInv'
  <2>1. CASE RecoverUnsent(w) \/ PreEffect(w)
    BY <2>1, RecoverUnsentKeepsInv, PreEffectKeepsInv
  <2>2. CASE MarkSent(w) \/ MarkReplayed(w) \/ MarkRefused(w)
    BY <2>2, MarkSentKeepsInv, MarkReplayedKeepsInv, MarkRefusedKeepsInv
  <2>3. CASE CallProvider(w) \/ ProviderAnswer(w)
    BY <2>3, CallProviderKeepsInv, ProviderAnswerKeepsInv
  <2>4. CASE QueryCandidates(w) \/ AdoptCandidate(w) \/ QueryTarget(w)
    BY <2>4, QueryCandidatesKeepsInv, AdoptCandidateKeepsInv, QueryTargetKeepsInv
  <2>5. CASE StoreResolution(w) \/ ApplyObservation(w)
    BY <2>5, StoreResolutionKeepsInv, ApplyObservationKeepsInv
  <2> QED
    BY <1>6, <2>1, <2>2, <2>3, <2>4, <2>5 DEF WorkerStep
<1>7. CASE BrokerStep
    BY <1>7, BrokerStepKeepsInv
<1>8. ASSUME NEW w \in Workers, Crash(w) PROVE LiveInv'
    BY <1>8, CrashKeepsInv
<1> QED
    BY <1>1, <1>2, <1>3, <1>4, <1>5, <1>6, <1>7, <1>8 DEF Next, Running

\* Rows, gate, requests, orders and what every worker remembers fit together
\* after any interleaving of claims, crashes, lost leases, stale reads, late
\* requests and halts.
THEOREM LiveInvariant == Spec => []LiveInv
BY InitEstablishesInv, NextKeepsInv, PTL DEF Spec

-----------------------------------------------------------------------------
(* What the invariant says                                                 *)

LEMMA RequestIsSent ==
    ASSUME LiveInv, NEW a \in Attempts, NEW n \in Ordinals, request[a][n] # "none"
    PROVE  sent[a]
BY DEF LiveInv, AttemptFact, SendFact, Ordinals

\* What is not settled at the broker and not bound in the books holds the gate.
LEMMA UnboundHoldsGate ==
    ASSUME LiveInv, NEW a \in Places, sent[a], ~Quiet(a), boundOrder[a] # a
    PROVE  a \in {active, unknown} /\ reserved[a] = "held"
<1>1. a \in Attempts /\ IsPlace(a) /\ BookFact(a) /\ SendFact(a) /\ EntitledOne(a)
    BY DEF Places, LiveInv, AttemptFact, Entitlements
<1>2. state[a] \in {"claimed", "unknown"}
    BY <1>1 DEF BookFact
<1> QED
    BY <1>1, <1>2 DEF SendFact, EntitledOne, Claimable, IsPlace, HasOrder

LEMMA OutstandingHoldsGate ==
    ASSUME LiveInv, NEW a \in Attempts, Outstanding(a)
    PROVE  a \in {active, unknown} /\ reserved[a] = "held"
<1>1. a \in Places /\ BookFact(a) /\ created[a] = 0
    BY DEF Outstanding, Places, LiveInv, AttemptFact
<1>2. boundOrder[a] # a
    BY <1>1 DEF BookFact
<1>3. CASE \E n \in Ordinals : request[a][n] = "flying"
    BY <1>1, <1>2, <1>3, RequestIsSent, UnboundHoldsGate DEF Quiet
<1>4. ASSUME NEW w \in Workers, worker[w].att = a, worker[w].pc = "call"
      PROVE  a \in {active, unknown} /\ reserved[a] = "held"
  <2>1. sent[a] /\ ~Quiet(a)
    BY <1>4 DEF LiveInv, WorkerFact, DriveFact, Quiet
  <2> QED
    BY <1>1, <1>2, <2>1, UnboundHoldsGate
<1> QED
    BY <1>3, <1>4 DEF Outstanding

LEMMA InvBacksEffects == LiveInv => EffectsBacked
<1> SUFFICES ASSUME LiveInv, NEW a \in Places, Outstanding(a) \/ brokerOrder[a].state \in Working
             PROVE  reserved[a] = "held" /\ (a \in {active, unknown} \/ boundOrder[a] = a)
    BY DEF EffectsBacked
<1>1. a \in Attempts /\ BrokerFact(a) /\ BookFact(a)
    BY DEF Places, LiveInv, AttemptFact
<1>2. CASE Outstanding(a)
    BY <1>1, <1>2, OutstandingHoldsGate
<1>3. CASE brokerOrder[a].state \in Working
  <2>1. PICK n \in Ordinals : request[a][n] = "done"
    BY <1>1, <1>3, WorkingHasRoom DEF BrokerFact
  <2>2. sent[a] /\ ~Quiet(a)
    BY <1>1, <2>1, RequestIsSent DEF Quiet
  <2>3. CASE boundOrder[a] # a
    BY <2>2, <2>3, UnboundHoldsGate
  <2>4. CASE boundOrder[a] = a
    \* an order that works at the broker has not ended in the books either
    <3>1. Entitled(a) /\ order[a] \notin Ended
      BY <1>1, <1>3, <2>4, WorkingHasRoom DEF BookFact
    <3> QED
      BY <2>4, <3>1 DEF Entitled, Ended
  <2> QED
    BY <2>3, <2>4
<1> QED
    BY <1>2, <1>3

LEMMA InvMatchesBooks == LiveInv => BooksMatchBroker
<1> SUFFICES ASSUME LiveInv, NEW a \in Places
             PROVE  /\ filled[a] <= brokerOrder[a].filled
                    /\ boundOrder[a] = a /\ order[a] \in Ended =>
                         order[a] = brokerOrder[a].state /\ filled[a] = brokerOrder[a].filled
    BY DEF BooksMatchBroker, Ended
<1>1. a \in Attempts /\ BookFact(a) /\ brokerOrder[a].filled \in 0..Qty
    BY DEF Places, LiveInv, AttemptFact, LiveTypeOK
<1>2. brokerOrder[a].filled >= 0
    BY <1>1, QtyAssumption
<1> QED
    BY <1>1, <1>2 DEF BookFact

LEMMA IssuedCount ==
    ASSUME NEW a \in Attempts
    PROVE  Issued(a) = (IF request[a][0] # "none" THEN 1 ELSE 0)
                         + (IF request[a][1] # "none" THEN 1 ELSE 0)
<1> DEFINE S == {n \in Ordinals : request[a][n] # "none"}
<1>0. Cardinality({}) = 0 /\ IsFiniteSet({})
    BY FS_EmptySet
<1>1. /\ Cardinality({0}) = 1 /\ Cardinality({1}) = 1 /\ IsFiniteSet({0})
    BY FS_Singleton
<1>2. Cardinality({0, 1}) = 2
  <2>1. Cardinality({0} \cup {1}) = 2
    BY <1>1, FS_AddElement
  <2> QED
    BY <2>1
<1>3. CASE request[a][0] = "none" /\ request[a][1] = "none"
  <2>1. S = {}
    BY <1>3 DEF Ordinals
  <2> QED
    BY <1>0, <1>3, <2>1 DEF Issued
<1>4. CASE request[a][0] # "none" /\ request[a][1] = "none"
  <2>1. S = {0}
    BY <1>4 DEF Ordinals
  <2> QED
    BY <1>1, <1>4, <2>1 DEF Issued
<1>5. CASE request[a][0] = "none" /\ request[a][1] # "none"
  <2>1. S = {1}
    BY <1>5 DEF Ordinals
  <2> QED
    BY <1>1, <1>5, <2>1 DEF Issued
<1>6. CASE request[a][0] # "none" /\ request[a][1] # "none"
  <2>1. S = {0, 1}
    BY <1>6 DEF Ordinals
  <2> QED
    BY <1>2, <1>6, <2>1 DEF Issued
<1> QED
    BY <1>3, <1>4, <1>5, <1>6

LEMMA InvCutsAtHalt == LiveInv => HaltCut
<1> SUFFICES ASSUME LiveInv, NEW a \in Attempts
             PROVE  /\ Issued(a) <= Sends(a)
                    /\ halted # "no" /\ Kind[a] = "open" => Issued(a) <= cutSends[a]
    BY DEF HaltCut
<1>1. SendFact(a) /\ sent[a] \in BOOLEAN /\ replays[a] \in 0..1
    BY DEF LiveInv, AttemptFact, LiveTypeOK, StoreTypeOK
<1>2. Issued(a) <= Sends(a)
    BY <1>1, IssuedCount DEF SendFact, Sends
<1> QED
    BY <1>1, <1>2 DEF SendFact

LEMMA InvKeepsOrdersApart == LiveInv => OrderIsItsOwn
BY DEF LiveInv, AttemptFact, BrokerFact, BookFact, OrderIsItsOwn, AtMostOneOrder, NoMisattribution

LEMMA InvSettlesCancels == LiveInv => CancelSettled
<1>1. Ended \cap Working = {}
    BY DEF Ended, Working, TerminalUnfilled
<1> QED
    BY <1>1 DEF LiveInv, AttemptFact, CancelFact, CancelSettled, Cancels

-----------------------------------------------------------------------------
(* Theorems                                                                *)

\* What the transactions promise one another is what the workers rely on: no
\* worker ever calls the store outside of the protocol that ExecutionStore
\* allows its callers, so every behaviour of LiveExecution is one of the store.
THEOREM LiveImplementsStore == Spec => StoreSpec
<1>1. Init => StoreInit
    BY DEF Init
<1> QED
    BY <1>1, LiveInvariant, NextIsStoreStep, PTL DEF Spec, StoreSpec

\* So the store's invariants and the durability of its rows hold of the workers.
THEOREM WorkersKeepStoreSafe == Spec => []StoreSafe /\ DurableHistory
BY LiveImplementsStore, StoreIsSafe, HistoryIsDurable, PTL

\* An order that works at the broker, or may still appear there, keeps its
\* reservation, and its row or the gate keeps track of it (ResolveAttempt).
THEOREM EffectsStayBacked == Spec => []EffectsBacked
BY LiveInvariant, InvBacksEffects, PTL

\* No stale read, however late it is applied, takes the books past the broker or
\* ends an order in another way than the broker did (reconcileWorkingOrders).
THEOREM BooksStayBehindBroker == Spec => []BooksMatchBroker
BY LiveInvariant, InvMatchesBooks, PTL

\* Every request has its own durable marker, and a halt cuts opening requests off
\* at the markers it found (markAttemptSent, ActivateGlobalHalt).
THEOREM HaltCutsOpenings == Spec => []HaltCut
BY LiveInvariant, InvCutsAtHalt, PTL

\* An attempt makes one order at most, and no other order is taken for it.
THEOREM OrdersAreTheirOwn == Spec => []OrderIsItsOwn
BY LiveInvariant, InvKeepsOrdersApart, PTL

\* A cancel is reported done only when its target has ended (confirmCancelState).
THEOREM SettledCancelsAreDone == Spec => []CancelSettled
BY LiveInvariant, InvSettlesCancels, PTL

\* Of the store's transactions only a resume lifts a halt, and only over an empty gate.
LEMMA ResumeNeedsEmptyGate ==
    ASSUME [StoreNext]_storeVars, halted # "no", halted' = "no"
    PROVE  GateEmpty
<1>1. ASSUME NEW a \in Attempts, NEW expected, NEW tok,
             \/ StageAttempt(a) \/ FailPendingAttempt(a) \/ LeaseExpires(a)
             \/ ClaimAttempt(a, expected, tok)
             \/ MarkAttemptSent(a, tok) \/ MarkAttemptReplayed(a, tok)
      PROVE  UNCHANGED halted
    BY <1>1 DEF StageAttempt, FailPendingAttempt, LeaseExpires, ClaimAttempt, MarkAttemptSent,
                MarkAttemptReplayed
<1>2. ASSUME NEW a \in Attempts, NEW r \in Resolutions(a), NEW tok,
             ResolveAttempt(a, tok, r) \/ ResolveIntegrityFailure(a, tok, r)
      PROVE  halted' \in {halted, "integrity"}
    BY <1>2 DEF ResolveAttempt, ResolveIntegrityFailure, IntegrityHalt
<1>3. ASSUME NEW a \in Attempts, NEW u \in OrderUpdate,
             ApplyOrderUpdate(a, u) \/ ApplyIntegrityFailure(a, u)
      PROVE  halted' \in {halted, "integrity"}
    BY <1>3 DEF ApplyOrderUpdate, ApplyIntegrityFailure, IntegrityHalt
<1> QED
    BY <1>1, <1>2, <1>3 DEF StoreNext, ActivateGlobalHalt, ResumeGlobalHalt, storeVars

\* Trading resumes only when no earlier placement can still reach the broker.
THEOREM ResumeIsSettled == Spec => ResumeSettled
<1>1. ASSUME LiveInv, [Next]_vars, halted # "no", halted' = "no", NEW a \in Attempts
      PROVE  ~Outstanding(a)
  <2>1. GateEmpty
    BY <1>1, NextIsStoreStep, ResumeNeedsEmptyGate
  <2> QED
    BY <1>1, <2>1, OutstandingHoldsGate, NoAttemptAssumption DEF GateEmpty
<1>2. LiveInv /\ [Next]_vars
        => [halted # "no" /\ halted' = "no" => \A a \in Attempts : ~Outstanding(a)]_vars
    BY <1>1
<1> QED
    BY <1>2, LiveInvariant, PTL DEF Spec, ResumeSettled
=============================================================================
