--------------------------- MODULE AdmissionProofs ---------------------------
(***************************************************************************)
(* Proofs about Admission, for any number of keys, connections, policies   *)
(* and authorities: whatever transactions run at once, a decision is final,*)
(* an operation is bound to the policy in force, a grant fits the canary   *)
(* revision in force and the day's cap, a widening without override is     *)
(* earned, and nothing is promised that the venue's buying power does not  *)
(* cover.                                                                  *)
(***************************************************************************)
EXTENDS Admission, SumTheorems

-----------------------------------------------------------------------------
(* The inductive invariant                                                 *)

Statuses == {"absent", "pending_review", "rejected", "expired", "auto_approved", "approved"}
OperationRecords ==
  [status : Statuses, request : Requests \union {NoOperation.request}, policy : Nat, fresh : BOOLEAN,
   grantDay : Nat, revision : Nat,
   attempt : {"none", "pending", "active", "working", "filled", "failed", "settled"}]
Revisions ==
  [authority : Authorities, day : Nat, change : {"initial", "tighten", "override", "widen"}]

ProposeSteps == {"key", "policy", "ledger", "account", "decide", "halt", "gate", "commit"}
ApproveSteps == {"row", "policy", "expiry", "ledger", "account", "decide", "halt", "gate", "commit"}
GovernSteps == {"ledger", "decide", "policy", "gate", "commit"}

\* a transaction about an operation
About(kind, steps) ==
  [kind : {kind}, pc : steps, key : Keys, request : Requests, quote : Quotes, halted : BOOLEAN,
   buyingPower : Nat, window : Nat, policy : Nat]
Deciding == About("propose", ProposeSteps) \union About("approve", ApproveSteps)
              \union About("reject", {"row", "commit"})
Revising == [kind : {"revise"}, pc : GovernSteps, authority : Authorities, override : BOOLEAN, expected : Nat]
Attesting == [kind : {"attest"}, pc : GovernSteps, day : MarketDays, expected : Nat]
Governing == [kind : {"policy"}, pc : {"policy", "commit"}, value : Policies, expected : Nat]
Reconciling == [kind : {"reconcile"}, pc : {"gate", "idle?", "ledger", "commit"}]
TxRecords == Deciding \union Revising \union Attesting \union Governing \union Reconciling \union {Quiet}

BooksTyped ==
  /\ operation \in [Keys -> OperationRecords]
  /\ \A k \in Keys : IF operation[k].status = "absent" THEN operation[k].grantDay = 0
                     ELSE operation[k].request \in Requests
  /\ buyingPower \in Nat /\ haltActive \in BOOLEAN /\ marketDay \in Nat \ {0}
  /\ canary \in Seq(Revisions) /\ Len(canary) > 0
  /\ policies \in Seq(Policies) /\ Len(policies) > 0
  /\ IsFiniteSet(attested) /\ \A a \in attested : a.day \in MarketDays

\* A day is attested once.
OneAttestationADay == \A a, b \in attested : a.day = b.day => a = b

\* Locks are held by transactions, and shared only in share mode.
LocksExclude ==
  /\ \A h \in held : h.tx \in Transactions /\ h.mode \in {"S", "X"}
  /\ \A g, h \in held : g.lock = h.lock /\ g.tx # h.tx => g.mode = "S" /\ h.mode = "S"

Has(t, lock, mode) == [tx |-> t, lock |-> lock, mode |-> mode] \in held
HasLedger(t) == Has(t, <<"ledger", "one">>, "X")

Asks(t) == tx[t].kind \in {"propose", "approve"}
Reviews(t) == tx[t].kind \in {"approve", "reject"}

\* the locks a transaction has taken where it is
LockFact(t) ==
  /\ tx[t].kind = "propose" /\ tx[t].pc # "key" => Has(t, <<"key", tx[t].key>>, "X")
  /\ tx[t].kind = "propose" /\ tx[t].pc \notin {"key", "policy"} => Has(t, <<"policy", "one">>, "S")
  /\ Reviews(t) /\ tx[t].pc # "row" => Has(t, <<"row", tx[t].key>>, "X")
  /\ Asks(t) /\ tx[t].pc \in {"account", "decide", "halt", "gate", "commit"} => HasLedger(t)
  /\ tx[t].kind \in {"revise", "attest"} /\ tx[t].pc # "ledger" => HasLedger(t)
  /\ tx[t].kind = "policy" /\ tx[t].pc = "commit" => Has(t, <<"policy", "one">>, "X")

\* what a transaction read under its locks still holds
ReadFact(t) ==
  /\ tx[t].kind = "propose" =>
       /\ tx[t].key = tx[t].request.key
       /\ tx[t].pc \in {"decide", "halt", "gate", "commit"} =>
            operation[tx[t].key].status = "absent" /\ tx[t].policy = Len(policies)
  /\ Reviews(t) =>
       /\ operation[tx[t].key].status # "absent" /\ operation[tx[t].key].request = tx[t].request
       /\ tx[t].pc # "row" => operation[tx[t].key].status = "pending_review"
  /\ Asks(t) /\ tx[t].pc \in {"halt", "gate", "commit"} =>
       /\ tx[t].request.risk <= ActiveCanary.authority.cap
       /\ TradesForDay(tx[t].window) = 0 => tx[t].request.unit
  /\ tx[t].kind = "attest" /\ tx[t].pc \notin {"ledger", "decide"} => \A a \in attested : a.day # tx[t].day

AdmissionInv ==
  /\ BooksTyped /\ OneAttestationADay /\ LocksExclude
  /\ tx \in [Transactions -> TxRecords]
  /\ \A t \in Transactions : LockFact(t) /\ ReadFact(t)

-----------------------------------------------------------------------------
(* Frames: what a step of one transaction leaves to the others             *)

\* A grant of this day under the revision in force, as the canary agreed to it.
Fits(o) ==
  /\ o.grantDay = marketDay /\ o.revision = Len(canary)
  /\ o.request.risk <= ActiveCanary.authority.cap
  /\ TradesForDay(marketDay) = 0 => o.request.unit

\* What a step may write: an operation only under its key or its row, grants,
\* canary and attestations only under the ledger, policies only under the policy;
\* and only what the guards have agreed to.  w is the transaction that steps.
Writes(w) ==
  /\ \A k \in Keys :
       \/ operation'[k].status = operation[k].status /\ operation'[k].request = operation[k].request
       \/ /\ operation[k].status = "absent" /\ Has(w, <<"key", k>>, "X")
          /\ operation'[k].policy = Len(policies)
       \/ /\ operation[k].status = "pending_review" /\ Has(w, <<"row", k>>, "X")
          /\ operation'[k].request = operation[k].request /\ operation'[k].status # "absent"
  /\ \A k \in Keys : operation'[k].grantDay = operation[k].grantDay \/ (HasLedger(w) /\ Fits(operation'[k]))
  /\ policies' = policies \/ Has(w, <<"policy", "one">>, "X")
  /\ (canary' = canary /\ attested' = attested) \/ HasLedger(w)
  /\ canary' # canary /\ canary'[Len(canary')].change = "widen" => \E a \in Authorities : Eligible(a)

\* A step keeps the invariant and writes no more than it may.
Kept == AdmissionInv' /\ \E w : Writes(w)

\* Two transactions do not hold one lock, unless both share it.
LEMMA Excluded ==
  ASSUME LocksExclude, NEW t, NEW u, t # u, NEW lock, NEW mode, Has(t, lock, mode), Has(u, lock, "X")
  PROVE  FALSE
  BY DEF LocksExclude, Has

LEMMA LocksStay ==
  ASSUME NEW u, LockFact(u), tx'[u] = tx[u], \A h \in held : h.tx = u => h \in held'
  PROVE  LockFact(u)'
  BY DEF LockFact, Has, HasLedger, Asks, Reviews

LEMMA ReadsStay ==
  ASSUME AdmissionInv, NEW w, NEW u \in Transactions, u # w, Writes(w), tx'[u] = tx[u]
  PROVE  ReadFact(u)'
  <1>1. LocksExclude /\ LockFact(u) /\ ReadFact(u) /\ tx[u] \in TxRecords
    BY DEF AdmissionInv
  <1>2. tx[u].kind = "propose" => tx[u].key \in Keys
    BY <1>1 DEF TxRecords, Deciding, About, Revising, Attesting, Governing, Reconciling, Quiet
  <1>3. Reviews(u) => tx[u].key \in Keys
    BY <1>1 DEF Reviews, TxRecords, Deciding, About, Revising, Attesting, Governing, Reconciling, Quiet
  <1>4. tx[u].kind = "propose" =>
          /\ tx[u].key = tx[u].request.key
          /\ tx[u].pc \in {"decide", "halt", "gate", "commit"} =>
               operation'[tx[u].key].status = "absent" /\ tx[u].policy = Len(policies')
    <2> SUFFICES ASSUME tx[u].kind = "propose", tx[u].pc \in {"decide", "halt", "gate", "commit"}
                 PROVE  operation'[tx[u].key].status = "absent" /\ tx[u].policy = Len(policies')
      BY <1>1 DEF ReadFact
    <2>1. Has(u, <<"key", tx[u].key>>, "X") /\ Has(u, <<"policy", "one">>, "S")
      BY <1>1 DEF LockFact
    <2>2. operation[tx[u].key].status = "absent" /\ tx[u].policy = Len(policies)
      BY <1>1 DEF ReadFact
    <2>3. policies' = policies
      BY <1>1, <2>1, Excluded DEF Writes
    <2>4. ~Has(w, <<"key", tx[u].key>>, "X")
      BY <1>1, <2>1, Excluded
    <2>5. operation'[tx[u].key].status = "absent"
      BY <1>2, <2>2, <2>4 DEF Writes
    <2> QED
      BY <2>2, <2>3, <2>5
  <1>5. Reviews(u) =>
          /\ operation'[tx[u].key].status # "absent" /\ operation'[tx[u].key].request = tx[u].request
          /\ tx[u].pc # "row" => operation'[tx[u].key].status = "pending_review"
    <2> SUFFICES ASSUME Reviews(u)
                 PROVE  /\ operation'[tx[u].key].status # "absent" /\ operation'[tx[u].key].request = tx[u].request
                        /\ tx[u].pc # "row" => operation'[tx[u].key].status = "pending_review"
      OBVIOUS
    <2>1. PICK k \in Keys : k = tx[u].key
      BY <1>3
    <2>2. /\ operation[k].status # "absent" /\ operation[k].request = tx[u].request
          /\ tx[u].pc # "row" => operation[k].status = "pending_review" /\ Has(u, <<"row", k>>, "X")
      BY <1>1, <2>1 DEF ReadFact, LockFact
    <2>3. CASE operation'[k].status = operation[k].status /\ operation'[k].request = operation[k].request
      BY <2>1, <2>2, <2>3
    <2>4. CASE /\ operation[k].status = "pending_review" /\ Has(w, <<"row", k>>, "X")
               /\ operation'[k].request = operation[k].request /\ operation'[k].status # "absent"
      <3>1. tx[u].pc = "row"
        BY <1>1, <2>2, <2>4, Excluded
      <3> QED
        BY <2>1, <2>2, <2>4, <3>1
    <2> QED
      BY <2>2, <2>3, <2>4 DEF Writes
  <1>6. Asks(u) /\ tx[u].pc \in {"halt", "gate", "commit"} =>
          /\ tx[u].request.risk <= ActiveCanary'.authority.cap
          /\ TradesForDay(tx[u].window)' = 0 => tx[u].request.unit
    <2> SUFFICES ASSUME Asks(u), tx[u].pc \in {"halt", "gate", "commit"}
                 PROVE  /\ tx[u].request.risk <= ActiveCanary'.authority.cap
                        /\ TradesForDay(tx[u].window)' = 0 => tx[u].request.unit
      OBVIOUS
    <2>1. HasLedger(u)
      BY <1>1 DEF LockFact
    <2>2. ~HasLedger(w)
      BY <1>1, <2>1, Excluded DEF HasLedger
    <2>3. canary' = canary /\ \A k \in Keys : operation'[k].grantDay = operation[k].grantDay
      BY <2>2 DEF Writes
    <2>4. ActiveCanary' = ActiveCanary
      BY <2>3 DEF ActiveCanary
    <2>5. TradesForDay(tx[u].window)' = TradesForDay(tx[u].window)
      <3>1. {k \in Keys : operation'[k].grantDay = tx[u].window} = {k \in Keys : operation[k].grantDay = tx[u].window}
        BY <2>3
      <3> QED
        BY <3>1 DEF TradesForDay
    <2> QED
      BY <1>1, <2>4, <2>5 DEF ReadFact
  <1>7. tx[u].kind = "attest" /\ tx[u].pc \notin {"ledger", "decide"} => \A a \in attested' : a.day # tx[u].day
    <2> SUFFICES ASSUME tx[u].kind = "attest", tx[u].pc \notin {"ledger", "decide"}
                 PROVE  \A a \in attested' : a.day # tx[u].day
      OBVIOUS
    <2>1. HasLedger(u)
      BY <1>1 DEF LockFact
    <2>2. attested' = attested
      BY <1>1, <2>1, Excluded DEF HasLedger, Writes
    <2> QED
      BY <1>1, <2>2 DEF ReadFact
  <1> QED
    BY <1>4, <1>5, <1>6, <1>7 DEF ReadFact, Asks, Reviews

\* A step of transaction t, or of nobody, that keeps the books in their types
\* and leaves t's own facts true.
LEMMA StepOfOne ==
  ASSUME AdmissionInv, NEW t \in Transactions, NEW r \in TxRecords, tx' = [tx EXCEPT ![t] = r],
         Writes(t), BooksTyped', OneAttestationADay', LocksExclude',
         \A h \in held : h.tx # t => h \in held',
         LockFact(t)', ReadFact(t)'
  PROVE  Kept
  <1>1. tx' \in [Transactions -> TxRecords]
    BY DEF AdmissionInv
  <1>2. ASSUME NEW u \in Transactions PROVE LockFact(u)' /\ ReadFact(u)'
    <2>1. CASE u = t
      BY <2>1
    <2>2. CASE u # t
      <3>1. tx'[u] = tx[u]
        BY <2>2 DEF AdmissionInv
      <3>2. \A h \in held : h.tx = u => h \in held'
        BY <2>2
      <3>3. LockFact(u)
        BY DEF AdmissionInv
      <3> QED
        BY <2>2, <3>1, <3>2, <3>3, LocksStay, ReadsStay
    <2> QED
      BY <2>1, <2>2
  <1> QED
    BY <1>1, <1>2 DEF AdmissionInv, Kept

\* A transaction that ends holds nothing and remembers nothing.
LEMMA EndKeepsInv ==
  ASSUME AdmissionInv, NEW t \in Transactions, Ends(t), Writes(t), BooksTyped', OneAttestationADay'
  PROVE  Kept
  <1>1. tx' = [tx EXCEPT ![t] = Quiet] /\ held' = {h \in held : h.tx # t}
    BY DEF Ends
  <1>2. Quiet \in TxRecords /\ tx'[t] = Quiet
    BY <1>1 DEF TxRecords, AdmissionInv
  <1>3. LocksExclude' /\ \A h \in held : h.tx # t => h \in held'
    BY <1>1 DEF AdmissionInv, LocksExclude
  <1>4. LockFact(t)' /\ ReadFact(t)'
    BY <1>2 DEF LockFact, ReadFact, Asks, Reviews, Quiet
  <1> QED
    BY <1>1, <1>2, <1>3, <1>4, StepOfOne

LEMMA NothingWritten ==
  ASSUME UNCHANGED <<operation, canary, attested, policies>>, NEW t
  PROVE  Writes(t)
  BY DEF Writes

LEMMA BooksStayTyped ==
  ASSUME AdmissionInv, UNCHANGED books
  PROVE  BooksTyped' /\ OneAttestationADay'
  BY DEF AdmissionInv, BooksTyped, OneAttestationADay, books

-----------------------------------------------------------------------------
(* Beginnings, locks and roll-backs                                        *)

LEMMA TxTyped ==
  ASSUME AdmissionInv, NEW t \in Transactions
  PROVE  tx[t] \in TxRecords /\ LockFact(t) /\ ReadFact(t)
  BY DEF AdmissionInv

\* Which record a transaction has follows from its kind.
LEMMA KindOf ==
  ASSUME NEW r \in TxRecords
  PROVE  /\ r.kind = "propose" => r \in About("propose", ProposeSteps)
         /\ r.kind = "approve" => r \in About("approve", ApproveSteps)
         /\ r.kind = "reject" => r \in About("reject", {"row", "commit"})
         /\ r.kind = "revise" => r \in Revising
         /\ r.kind = "attest" => r \in Attesting
         /\ r.kind = "policy" => r \in Governing
         /\ r.kind = "reconcile" => r \in Reconciling
         /\ r.kind \in {"propose", "approve", "reject", "revise", "attest", "policy", "reconcile"} \/ r = Quiet
  BY DEF TxRecords, Deciding, About, Revising, Attesting, Governing, Reconciling, Quiet

LEMMA IsRecord ==
  ASSUME NEW r,
         \/ r \in About("propose", ProposeSteps) \/ r \in About("approve", ApproveSteps)
         \/ r \in About("reject", {"row", "commit"}) \/ r \in Revising \/ r \in Attesting
         \/ r \in Governing \/ r \in Reconciling
  PROVE  r \in TxRecords
  BY DEF TxRecords, Deciding

\* A transaction that has just begun.
LEMMA BeginKeepsInv ==
  ASSUME AdmissionInv, NEW t \in Transactions, NEW r \in TxRecords, tx' = [tx EXCEPT ![t] = r],
         UNCHANGED <<books, held>>,
         r.kind = "propose" => r.pc = "key" /\ r.key = r.request.key,
         r.kind \in {"approve", "reject"} =>
           r.pc = "row" /\ operation[r.key].status # "absent" /\ operation[r.key].request = r.request,
         r.kind \in {"revise", "attest"} => r.pc = "ledger",
         r.kind = "policy" => r.pc = "policy"
  PROVE  Kept
  <1>1. Writes(t) /\ BooksTyped' /\ OneAttestationADay'
    BY NothingWritten, BooksStayTyped DEF books
  <1>2. LocksExclude' /\ \A h \in held : h.tx # t => h \in held'
    BY DEF AdmissionInv, LocksExclude
  <1>3. tx'[t] = r /\ operation' = operation
    BY DEF AdmissionInv, books
  <1>4. LockFact(t)' /\ ReadFact(t)'
    BY <1>3 DEF LockFact, ReadFact, Asks, Reviews
  <1> QED
    BY <1>1, <1>2, <1>4, StepOfOne

LEMMA KeptByBegin ==
  ASSUME AdmissionInv, NEW t \in Transactions, Begin(t)
  PROVE  Kept
  <1>1. BooksTyped
    BY DEF AdmissionInv
  <1>2. ASSUME NEW request \in Requests, NEW quote \in Quotes, BeginPropose(t, request, quote) PROVE Kept
    <2>1. PICK r : r = [kind |-> "propose", pc |-> "key", key |-> request.key,
                        request |-> request, quote |-> quote, halted |-> haltActive,
                        buyingPower |-> 0, window |-> 0, policy |-> 0]
      OBVIOUS
    <2>2. r \in About("propose", ProposeSteps)
      BY <1>1, <2>1, AdmissionConstants DEF About, ProposeSteps, BooksTyped
    <2>3. tx' = [tx EXCEPT ![t] = r] /\ UNCHANGED <<books, held>>
      BY <1>2, <2>1 DEF BeginPropose
    <2> QED
      BY <2>1, <2>2, <2>3, IsRecord, BeginKeepsInv
  <1>3. ASSUME NEW k \in Keys, NEW v \in {"approve", "reject"}, NEW quote \in Quotes, BeginReview(t, k, v, quote)
        PROVE  Kept
    <2>1. PICK r : r = [kind |-> v, pc |-> "row", key |-> k,
                        request |-> operation[k].request, quote |-> quote, halted |-> haltActive,
                        buyingPower |-> 0, window |-> 0, policy |-> operation[k].policy]
      OBVIOUS
    <2>2. operation[k].status = "pending_review" /\ operation[k].request \in Requests /\ operation[k].policy \in Nat
      BY <1>1, <1>3 DEF BeginReview, BooksTyped, OperationRecords
    <2>3. r \in About("approve", ApproveSteps) \/ r \in About("reject", {"row", "commit"})
      BY <1>1, <2>1, <2>2 DEF About, ApproveSteps, BooksTyped
    <2>4. tx' = [tx EXCEPT ![t] = r] /\ UNCHANGED <<books, held>>
      BY <1>3, <2>1 DEF BeginReview
    <2> QED
      BY <2>1, <2>2, <2>3, <2>4, IsRecord, BeginKeepsInv
  <1>4. ASSUME NEW a \in Authorities, NEW o \in BOOLEAN, BeginRevision(t, a, o) PROVE Kept
    <2>1. PICK r : r = [kind |-> "revise", pc |-> "ledger", authority |-> a, override |-> o, expected |-> Len(canary)]
      OBVIOUS
    <2>2. r \in Revising
      BY <1>1, <2>1 DEF Revising, GovernSteps, BooksTyped
    <2>3. tx' = [tx EXCEPT ![t] = r] /\ UNCHANGED <<books, held>>
      BY <1>4, <2>1 DEF BeginRevision
    <2> QED
      BY <2>1, <2>2, <2>3, IsRecord, BeginKeepsInv
  <1>5. ASSUME NEW d \in MarketDays, BeginAttestation(t, d) PROVE Kept
    <2>1. PICK r : r = [kind |-> "attest", pc |-> "ledger", day |-> d, expected |-> Len(canary)]
      OBVIOUS
    <2>2. r \in Attesting
      BY <1>1, <2>1 DEF Attesting, GovernSteps, BooksTyped
    <2>3. tx' = [tx EXCEPT ![t] = r] /\ UNCHANGED <<books, held>>
      BY <1>5, <2>1 DEF BeginAttestation
    <2> QED
      BY <2>1, <2>2, <2>3, IsRecord, BeginKeepsInv
  <1>6. ASSUME NEW p \in Policies, BeginPolicy(t, p) PROVE Kept
    <2>1. PICK r : r = [kind |-> "policy", pc |-> "policy", value |-> p, expected |-> Len(policies)]
      OBVIOUS
    <2>2. r \in Governing
      BY <1>1, <2>1 DEF Governing, BooksTyped
    <2>3. tx' = [tx EXCEPT ![t] = r] /\ UNCHANGED <<books, held>>
      BY <1>6, <2>1 DEF BeginPolicy
    <2> QED
      BY <2>1, <2>2, <2>3, IsRecord, BeginKeepsInv
  <1>7. ASSUME BeginReconcile(t) PROVE Kept
    <2>1. PICK r : r = [kind |-> "reconcile", pc |-> "gate"]
      OBVIOUS
    <2>2. r \in Reconciling
      BY <2>1 DEF Reconciling
    <2>3. tx' = [tx EXCEPT ![t] = r] /\ UNCHANGED <<books, held>>
      BY <1>7, <2>1 DEF BeginReconcile
    <2> QED
      BY <2>1, <2>2, <2>3, IsRecord, BeginKeepsInv
  <1> QED
    BY <1>2, <1>3, <1>4, <1>5, <1>6, <1>7 DEF Begin

LEMMA KeptByRollback ==
  ASSUME AdmissionInv, NEW t \in Transactions, Rollback(t)
  PROVE  Kept
  <1>1. Ends(t) /\ UNCHANGED books
    BY DEF Rollback
  <1> QED
    BY <1>1, EndKeepsInv, NothingWritten, BooksStayTyped DEF books

\* Only the step of a transaction changes: its own facts must hold there.
LEMMA WalkKeepsInv ==
  ASSUME AdmissionInv, NEW t \in Transactions, NEW pc, To(t, pc),
         NEW r, r = [tx[t] EXCEPT !.pc = pc], r \in TxRecords,
         Writes(t), BooksTyped', OneAttestationADay', LocksExclude',
         \A h \in held : h.tx # t => h \in held',
         LockFact(t)', ReadFact(t)'
  PROVE  Kept
  <1>1. tx' = [tx EXCEPT ![t] = r]
    BY DEF To
  <1> QED
    BY <1>1, StepOfOne

\* A lock is granted beside shared locks of its name only.
LEMMA GrantExcludes ==
  ASSUME LocksExclude, NEW t \in Transactions, tx[t].pc \in Locking,
         \A u \in Transactions : ~Blocks(u, t),
         held' = held \union {[tx |-> t, lock |-> LockName(t), mode |-> LockMode(t)]}
  PROVE  LocksExclude'
  <1>1. PICK new : new = [tx |-> t, lock |-> LockName(t), mode |-> LockMode(t)]
    OBVIOUS
  <1>2. new.tx = t /\ new.lock = LockName(t) /\ new.mode = LockMode(t) /\ new.mode \in {"S", "X"}
    BY <1>1 DEF LockMode
  <1>3. ASSUME NEW h \in held, h.lock = new.lock, h.tx # t PROVE h.mode = "S" /\ new.mode = "S"
    <2>1. h.tx \in Transactions /\ h.mode \in {"S", "X"}
      BY DEF LocksExclude
    <2>2. ~Blocks(h.tx, t)
      BY <2>1
    <2>3. "X" \notin {h.mode, LockMode(t)}
      BY <1>2, <1>3, <2>2 DEF Blocks
    <2> QED
      BY <1>2, <2>1, <2>3
  <1>4. held' = held \union {new}
    BY <1>1
  <1> QED
    BY <1>2, <1>3, <1>4 DEF LocksExclude

LEMMA KeptByAcquire ==
  ASSUME AdmissionInv, NEW t \in Transactions, Acquire(t)
  PROVE  Kept
  <1>1. tx[t].pc \in Locking /\ (\A u \in Transactions : ~Blocks(u, t)) /\ UNCHANGED books
    BY DEF Acquire
  <1>2. Writes(t) /\ BooksTyped' /\ OneAttestationADay'
    BY <1>1, NothingWritten, BooksStayTyped DEF books
  <1>3. CASE tx[t].pc = "row" /\ operation[tx[t].key].status # "pending_review"
    <2>1. Ends(t)
      BY <1>3 DEF Acquire
    <2> QED
      BY <1>2, <2>1, EndKeepsInv
  <1>4. CASE ~(tx[t].pc = "row" /\ operation[tx[t].key].status # "pending_review")
    <2>1. PICK r0 \in TxRecords : r0 = tx[t]
      BY TxTyped
    <2>2. PICK pc : pc = AfterLock(t)
      OBVIOUS
    <2>3. PICK r : r = [r0 EXCEPT !.pc = pc]
      OBVIOUS
    <2>4. PICK new : new = [tx |-> t, lock |-> LockName(t), mode |-> LockMode(t)]
      OBVIOUS
    <2>5. held' = held \union {new} /\ To(t, pc)
      BY <1>4, <2>2, <2>4 DEF Acquire
    <2>6. LocksExclude'
      BY <1>1, <2>4, <2>5, GrantExcludes DEF AdmissionInv
    <2>7. tx'[t] = r
      BY <2>1, <2>3, <2>5 DEF To, AdmissionInv
    <2>8. LockFact(t) /\ ReadFact(t)
      BY TxTyped
    <2>9. operation' = operation /\ policies' = policies /\ canary' = canary /\ attested' = attested
      BY <1>1 DEF books
    <2>10. TradesForDay(r0.window)' = TradesForDay(r0.window) /\ ActiveCanary' = ActiveCanary
      BY <2>9 DEF TradesForDay, ActiveCanary
    <2>11. CASE r0.kind = "propose"
      <3>1. r0 \in About("propose", ProposeSteps)
        BY <2>11, KindOf
      <3>2. /\ r0.pc = "key" => pc = "policy"
            /\ r0.pc = "policy" => pc = "ledger"
            /\ r0.pc = "ledger" => pc = "account"
            /\ r0.pc = "halt" => pc = "gate"
            /\ r0.pc = "gate" => pc = "commit"
            /\ r0.pc \in {"key", "policy", "ledger", "halt", "gate"}
        BY <1>1, <2>1, <2>2, <2>11, <3>1 DEF AfterLock, Locking, About, ProposeSteps
      <3>3. r \in About("propose", ProposeSteps) /\ r.key = r0.key /\ r.request = r0.request
            /\ r.kind = "propose" /\ r.pc = pc /\ r.policy = r0.policy /\ r.window = r0.window
        BY <2>3, <3>1, <3>2 DEF About, ProposeSteps
      <3>4. /\ r0.pc = "key" => new = [tx |-> t, lock |-> <<"key", r0.key>>, mode |-> "X"]
            /\ r0.pc = "policy" => new = [tx |-> t, lock |-> <<"policy", "one">>, mode |-> "S"]
            /\ r0.pc = "ledger" => new = [tx |-> t, lock |-> <<"ledger", "one">>, mode |-> "X"]
        BY <2>1, <2>4, <2>11 DEF LockName, LockMode
      <3>5. LockFact(t)'
        BY <2>1, <2>5, <2>7, <2>8, <2>11, <3>2, <3>3, <3>4 DEF LockFact, Has, HasLedger, Asks, Reviews
      <3>6. ReadFact(t)'
        BY <2>1, <2>7, <2>8, <2>9, <2>10, <2>11, <3>2, <3>3 DEF ReadFact, Asks, Reviews
      <3> QED
        BY <1>2, <2>1, <2>3, <2>5, <2>6, <3>3, <3>5, <3>6, IsRecord, WalkKeepsInv
    <2>12. CASE r0.kind = "approve"
      <3>1. r0 \in About("approve", ApproveSteps)
        BY <2>12, KindOf
      <3>2. /\ r0.pc = "row" => pc = "policy" /\ operation[r0.key].status = "pending_review"
            /\ r0.pc = "policy" => pc = "expiry"
            /\ r0.pc = "ledger" => pc = "account"
            /\ r0.pc = "halt" => pc = "gate"
            /\ r0.pc = "gate" => pc = "commit"
            /\ r0.pc \in {"row", "policy", "ledger", "halt", "gate"}
        BY <1>1, <1>4, <2>1, <2>2, <2>12, <3>1 DEF AfterLock, Locking, About, ApproveSteps
      <3>3. r \in About("approve", ApproveSteps) /\ r.key = r0.key /\ r.request = r0.request
            /\ r.kind = "approve" /\ r.pc = pc /\ r.policy = r0.policy /\ r.window = r0.window
        BY <2>3, <3>1, <3>2 DEF About, ApproveSteps
      <3>4. /\ r0.pc = "row" => new = [tx |-> t, lock |-> <<"row", r0.key>>, mode |-> "X"]
            /\ r0.pc = "ledger" => new = [tx |-> t, lock |-> <<"ledger", "one">>, mode |-> "X"]
        BY <2>1, <2>4, <2>12 DEF LockName, LockMode
      <3>5. LockFact(t)'
        BY <2>1, <2>5, <2>7, <2>8, <2>12, <3>2, <3>3, <3>4 DEF LockFact, Has, HasLedger, Asks, Reviews
      <3>6. ReadFact(t)'
        BY <2>1, <2>7, <2>8, <2>9, <2>10, <2>12, <3>2, <3>3 DEF ReadFact, Asks, Reviews
      <3> QED
        BY <1>2, <2>1, <2>3, <2>5, <2>6, <3>3, <3>5, <3>6, IsRecord, WalkKeepsInv
    <2>13. CASE r0.kind = "reject"
      <3>1. r0 \in About("reject", {"row", "commit"})
        BY <2>13, KindOf
      <3>2. r0.pc = "row" /\ pc = "commit" /\ operation[r0.key].status = "pending_review"
        BY <1>1, <1>4, <2>1, <2>2, <2>13, <3>1 DEF AfterLock, Locking, About
      <3>3. r \in About("reject", {"row", "commit"}) /\ r.key = r0.key /\ r.request = r0.request
            /\ r.kind = "reject" /\ r.pc = pc
        BY <2>3, <3>1, <3>2 DEF About
      <3>4. new = [tx |-> t, lock |-> <<"row", r0.key>>, mode |-> "X"]
        BY <2>1, <2>4, <2>13, <3>2 DEF LockName, LockMode
      <3>5. LockFact(t)'
        BY <2>5, <2>7, <3>2, <3>3, <3>4 DEF LockFact, Has, HasLedger, Asks, Reviews
      <3>6. ReadFact(t)'
        BY <2>1, <2>7, <2>8, <2>9, <2>13, <3>2, <3>3 DEF ReadFact, Asks, Reviews
      <3> QED
        BY <1>2, <2>1, <2>3, <2>5, <2>6, <3>3, <3>5, <3>6, IsRecord, WalkKeepsInv
    <2>14. CASE r0.kind \in {"revise", "attest"}
      <3>1. r0 \in Revising \/ r0 \in Attesting
        BY <2>14, KindOf
      <3>2. /\ r0.pc = "ledger" => pc = "decide"
            /\ r0.pc = "policy" => pc = "gate"
            /\ r0.pc = "gate" => pc = "commit"
            /\ r0.pc \in {"ledger", "policy", "gate"}
        BY <1>1, <2>1, <2>2, <2>14, <3>1 DEF AfterLock, Locking, Revising, Attesting, GovernSteps
      <3>3. /\ r \in Revising \/ r \in Attesting
            /\ r.kind = r0.kind /\ r.pc = pc /\ (r0.kind = "attest" => r.day = r0.day)
        BY <2>3, <2>14, <3>1, <3>2 DEF Revising, Attesting, GovernSteps
      <3>4. r0.pc = "ledger" => new = [tx |-> t, lock |-> <<"ledger", "one">>, mode |-> "X"]
        BY <2>1, <2>4, <2>14 DEF LockName, LockMode
      <3>5. LockFact(t)'
        BY <2>1, <2>5, <2>7, <2>8, <2>14, <3>2, <3>3, <3>4 DEF LockFact, Has, HasLedger, Asks, Reviews
      <3>6. ReadFact(t)'
        BY <2>1, <2>7, <2>8, <2>9, <2>14, <3>2, <3>3 DEF ReadFact, Asks, Reviews
      <3> QED
        BY <1>2, <2>1, <2>3, <2>5, <2>6, <3>3, <3>5, <3>6, IsRecord, WalkKeepsInv
    <2>15. CASE r0.kind = "policy"
      <3>1. r0 \in Governing
        BY <2>15, KindOf
      <3>2. r0.pc = "policy" /\ pc = "commit"
        BY <1>1, <2>1, <2>2, <2>15, <3>1 DEF AfterLock, Locking, Governing
      <3>3. r \in Governing /\ r.kind = "policy" /\ r.pc = pc
        BY <2>3, <3>1, <3>2 DEF Governing
      <3>4. new = [tx |-> t, lock |-> <<"policy", "one">>, mode |-> "X"]
        BY <2>1, <2>4, <2>15, <3>2 DEF LockName, LockMode
      <3>5. LockFact(t)'
        BY <2>5, <2>7, <3>2, <3>3, <3>4 DEF LockFact, Has, HasLedger, Asks, Reviews
      <3>6. ReadFact(t)'
        BY <2>7, <3>3 DEF ReadFact, Asks, Reviews
      <3> QED
        BY <1>2, <2>1, <2>3, <2>5, <2>6, <3>3, <3>5, <3>6, IsRecord, WalkKeepsInv
    <2>16. CASE r0.kind = "reconcile"
      <3>1. r0 \in Reconciling
        BY <2>16, KindOf
      <3>2. pc \in {"idle?", "commit"}
        BY <1>1, <2>1, <2>2, <2>16, <3>1 DEF AfterLock, Locking, Reconciling
      <3>3. r \in Reconciling /\ r.kind = "reconcile"
        BY <2>3, <3>1, <3>2 DEF Reconciling
      <3>5. LockFact(t)' /\ ReadFact(t)'
        BY <2>7, <3>3 DEF LockFact, ReadFact, Asks, Reviews
      <3> QED
        BY <1>2, <2>1, <2>3, <2>5, <2>6, <3>3, <3>5, IsRecord, WalkKeepsInv
    <2>17. CASE r0 = Quiet
      BY <1>1, <2>1, <2>17 DEF Quiet, Locking
    <2> QED
      BY <2>11, <2>12, <2>13, <2>14, <2>15, <2>16, <2>17, KindOf
  <1> QED
    BY <1>3, <1>4

-----------------------------------------------------------------------------
(* Proposals and reviews                                                   *)

\* A transaction walks on and nothing is written.
LEMMA WalkOn ==
  ASSUME AdmissionInv, NEW t \in Transactions, NEW pc, To(t, pc), UNCHANGED <<books, held>>,
         NEW r, r = [tx[t] EXCEPT !.pc = pc], r \in TxRecords, LockFact(t)', ReadFact(t)'
  PROVE  Kept
  <1>1. Writes(t) /\ BooksTyped' /\ OneAttestationADay'
    BY NothingWritten, BooksStayTyped DEF books
  <1>2. LocksExclude' /\ \A h \in held : h.tx # t => h \in held'
    BY DEF AdmissionInv, LocksExclude
  <1> QED
    BY <1>1, <1>2, WalkKeepsInv

LEMMA OperationWritten ==
  ASSUME BooksTyped, OneAttestationADay, NEW k \in Keys, NEW o \in OperationRecords, o.status # "absent", o.request \in Requests,
         operation' = [operation EXCEPT ![k] = o],
         UNCHANGED <<buyingPower, canary, attested, policies, haltActive, marketDay>>
  PROVE  BooksTyped' /\ OneAttestationADay'
  BY DEF BooksTyped, OneAttestationADay

\* What the canary grants fits the cap in force.
LEMMA CanaryGrants ==
  ASSUME BooksTyped, NEW request \in Requests, NEW day, ~CanaryRefuses(request, day)
  PROVE  /\ request.risk <= ActiveCanary.authority.cap
         /\ TradesForDay(day) = 0 => request.unit
  <1>1. canary[Len(canary)] \in Revisions
    BY DEF BooksTyped
  <1>2. ActiveCanary.authority.cap \in Nat /\ request.risk \in Nat
    BY <1>1, AdmissionConstants DEF ActiveCanary, Revisions
  <1> QED
    BY <1>2 DEF CanaryRefuses

LEMMA KeptByReadAccount ==
  ASSUME AdmissionInv, NEW t \in Transactions, ReadAccount(t)
  PROVE  Kept
  <1>1. tx[t].pc = "account" /\ UNCHANGED books
    BY DEF ReadAccount
  <1>2. Writes(t) /\ BooksTyped' /\ OneAttestationADay'
    BY <1>1, NothingWritten, BooksStayTyped DEF books
  <1>3. CASE tx[t].kind = "propose" /\ operation[tx[t].key].status # "absent"
    <2>1. Ends(t)
      BY <1>3 DEF ReadAccount
    <2> QED
      BY <1>2, <2>1, EndKeepsInv
  <1>4. CASE ~(tx[t].kind = "propose" /\ operation[tx[t].key].status # "absent")
    <2>1. PICK r0 \in TxRecords : r0 = tx[t]
      BY TxTyped
    <2>2. PICK r : r = [r0 EXCEPT !.pc = "decide", !.buyingPower = buyingPower, !.window = marketDay,
                                  !.policy = IF r0.kind = "propose" THEN Len(policies) ELSE @]
      OBVIOUS
    <2>3. tx' = [tx EXCEPT ![t] = r] /\ held' = held
      BY <1>4, <2>1, <2>2 DEF ReadAccount
    <2>4. LocksExclude' /\ \A h \in held : h.tx # t => h \in held'
      BY <2>3 DEF AdmissionInv, LocksExclude
    <2>5. tx'[t] = r
      BY <2>3 DEF AdmissionInv
    <2>6. LockFact(t) /\ ReadFact(t)
      BY TxTyped
    <2>7. operation' = operation /\ policies' = policies
      BY <1>1 DEF books
    <2>8. buyingPower \in Nat /\ marketDay \in Nat /\ Len(policies) \in Nat
      BY DEF AdmissionInv, BooksTyped
    <2>9. CASE r0.kind = "propose"
      <3>1. r0 \in About("propose", ProposeSteps)
        BY <2>9, KindOf
      <3>2. r \in About("propose", ProposeSteps) /\ r.key = r0.key /\ r.request = r0.request
            /\ r.kind = "propose" /\ r.pc = "decide" /\ r.policy = Len(policies)
        BY <2>2, <2>8, <2>9, <3>1 DEF About, ProposeSteps
      <3>3. LockFact(t)'
        BY <1>1, <2>1, <2>3, <2>5, <2>6, <2>9, <3>2 DEF LockFact, Has, HasLedger, Asks, Reviews
      <3>4. ReadFact(t)'
        BY <1>1, <1>4, <2>1, <2>5, <2>6, <2>7, <2>9, <3>2 DEF ReadFact, Asks, Reviews
      <3> QED
        BY <1>2, <2>3, <2>4, <3>2, <3>3, <3>4, IsRecord, StepOfOne
    <2>10. CASE r0.kind = "approve"
      <3>1. r0 \in About("approve", ApproveSteps)
        BY <2>10, KindOf
      <3>2. r \in About("approve", ApproveSteps) /\ r.key = r0.key /\ r.request = r0.request
            /\ r.kind = "approve" /\ r.pc = "decide"
        BY <2>2, <2>8, <2>10, <3>1 DEF About, ApproveSteps
      <3>3. LockFact(t)'
        BY <1>1, <2>1, <2>3, <2>5, <2>6, <2>10, <3>2 DEF LockFact, Has, HasLedger, Asks, Reviews
      <3>4. ReadFact(t)'
        BY <1>1, <2>1, <2>5, <2>6, <2>7, <2>10, <3>2 DEF ReadFact, Asks, Reviews
      <3> QED
        BY <1>2, <2>3, <2>4, <3>2, <3>3, <3>4, IsRecord, StepOfOne
    <2> QED
      BY <1>1, <2>1, <2>9, <2>10, KindOf
      DEF About, Revising, Attesting, Governing, Reconciling, Quiet, GovernSteps
  <1> QED
    BY <1>3, <1>4

\* The canary has agreed: the transaction goes on to the halt and the gate.
LEMMA GoesToGate ==
  ASSUME AdmissionInv, NEW t \in Transactions, tx[t].kind \in {"propose", "approve"}, tx[t].pc = "decide",
         ~CanaryRefuses(tx[t].request, tx[t].window), To(t, "halt"), UNCHANGED <<books, held>>
  PROVE  Kept
  <1>1. PICK r0 \in TxRecords : r0 = tx[t]
    BY TxTyped
  <1>2. r0 \in About("propose", ProposeSteps) \/ r0 \in About("approve", ApproveSteps)
    BY <1>1, KindOf
  <1>3. PICK r : r = [r0 EXCEPT !.pc = "halt"]
    OBVIOUS
  <1>4. /\ r \in About("propose", ProposeSteps) \/ r \in About("approve", ApproveSteps)
        /\ r.kind = r0.kind /\ r.pc = "halt" /\ r.key = r0.key /\ r.request = r0.request
        /\ r.policy = r0.policy /\ r.window = r0.window
    BY <1>2, <1>3 DEF About, ProposeSteps, ApproveSteps
  <1>5. r0.request \in Requests
    BY <1>2 DEF About
  <1>6. r0.request.risk <= ActiveCanary.authority.cap /\ (TradesForDay(r0.window) = 0 => r0.request.unit)
    BY <1>1, <1>5, CanaryGrants DEF AdmissionInv
  <1>7. tx'[t] = r
    BY <1>1, <1>3 DEF To, AdmissionInv
  <1>8. LockFact(t) /\ ReadFact(t)
    BY TxTyped
  <1>9. operation' = operation /\ policies' = policies /\ canary' = canary /\ held' = held
    BY DEF books
  <1>10. TradesForDay(r0.window)' = TradesForDay(r0.window) /\ ActiveCanary' = ActiveCanary
    BY <1>9 DEF TradesForDay, ActiveCanary
  <1>11. LockFact(t)'
    BY <1>1, <1>4, <1>7, <1>8, <1>9 DEF LockFact, Has, HasLedger, Asks, Reviews
  <1>12. ReadFact(t)'
    BY <1>1, <1>4, <1>6, <1>7, <1>8, <1>9, <1>10 DEF ReadFact, Asks, Reviews
  <1> QED
    BY <1>1, <1>3, <1>4, <1>11, <1>12, IsRecord, WalkOn

\* What propose persists: a new operation under its key.
LEMMA ProposalWritten ==
  ASSUME AdmissionInv, NEW t \in Transactions, tx[t].kind = "propose",
         tx[t].pc \in {"decide", "halt", "gate", "commit"},
         NEW o \in OperationRecords, o.request = tx[t].request, o.policy = tx[t].policy, o.status # "absent",
         o.grantDay = 0 \/ Fits(o),
         operation' = [operation EXCEPT ![tx[t].key] = o], Ends(t),
         UNCHANGED <<buyingPower, canary, attested, policies, haltActive, marketDay>>
  PROVE  Kept
  <1>1. tx[t] \in About("propose", ProposeSteps) /\ LockFact(t) /\ ReadFact(t)
    BY TxTyped, KindOf
  <1>2. PICK key \in Keys : key = tx[t].key
    BY <1>1 DEF About
  <1>3. o.request \in Requests
    BY <1>1 DEF About
  <1>4. /\ operation[key].status = "absent" /\ Has(t, <<"key", key>>, "X") /\ HasLedger(t)
        /\ o.policy = Len(policies)
    BY <1>1, <1>2 DEF LockFact, ReadFact, Asks
  <1>5. BooksTyped' /\ OneAttestationADay'
    BY <1>2, <1>3, OperationWritten DEF AdmissionInv
  <1>6. operation \in [Keys -> OperationRecords] /\ operation[key].grantDay = 0
    BY <1>2, <1>4 DEF AdmissionInv, BooksTyped
  <1>7. Writes(t)
    BY <1>2, <1>4, <1>6 DEF Writes
  <1> QED
    BY <1>5, <1>7, EndKeepsInv

LEMMA ProposedTyped ==
  ASSUME AdmissionInv, NEW t \in Transactions, tx[t].kind = "propose", NEW status \in Statuses
  PROVE  /\ Proposed(t, status) \in OperationRecords /\ Proposed(t, status).request = tx[t].request
         /\ Proposed(t, status).policy = tx[t].policy /\ Proposed(t, status).status = status
         /\ Proposed(t, status).grantDay = 0
  <1>1. tx[t].request \in Requests /\ tx[t].policy \in Nat
    BY TxTyped, KindOf DEF About
  <1> QED
    BY <1>1 DEF Proposed, NoOperation, OperationRecords

LEMMA EntitledTyped ==
  ASSUME AdmissionInv, NEW o \in OperationRecords, NEW status \in Statuses
  PROVE  /\ Entitle(o, status) \in OperationRecords /\ Entitle(o, status).request = o.request
         /\ Entitle(o, status).policy = o.policy /\ Entitle(o, status).status = status
         /\ Entitle(o, status).grantDay = marketDay /\ Entitle(o, status).revision = Len(canary)
  <1>1. marketDay \in Nat /\ Len(canary) \in Nat
    BY DEF AdmissionInv, BooksTyped
  <1> QED
    BY <1>1 DEF Entitle, OperationRecords

LEMMA KeptByDecidePropose ==
  ASSUME AdmissionInv, NEW t \in Transactions, DecidePropose(t)
  PROVE  Kept
  <1>1. PICK class : class = Classify(tx[t].request, policies[tx[t].policy], tx[t].window, t)
    OBVIOUS
  <1>2. PICK refused \in BOOLEAN :
          refused = (class = "REJECT" \/ (class = "B" /\ CanaryRefuses(tx[t].request, tx[t].window)))
    OBVIOUS
  <1>3. /\ tx[t].kind = "propose" /\ tx[t].pc = "decide"
        /\ UNCHANGED <<buyingPower, canary, attested, diverged, policies, haltActive, marketDay>>
        /\ IF marketDay # tx[t].window THEN Ends(t) /\ UNCHANGED <<operation, dayOpen>>
           ELSE IF class = "B" /\ ~refused THEN To(t, "halt") /\ UNCHANGED <<held, operation, dayOpen>>
           ELSE /\ operation' = [operation EXCEPT ![tx[t].key] =
                                   Proposed(t, IF refused THEN "rejected" ELSE "pending_review")]
                /\ Ends(t)
    BY <1>1, <1>2 DEF DecidePropose
  <1>4. CASE Ends(t) /\ UNCHANGED operation
    BY <1>3, <1>4, EndKeepsInv, NothingWritten DEF AdmissionInv, BooksTyped, OneAttestationADay
  <1>5. CASE class = "B" /\ ~refused /\ To(t, "halt") /\ UNCHANGED <<held, operation, dayOpen>>
    <2>1. ~CanaryRefuses(tx[t].request, tx[t].window)
      BY <1>2, <1>5
    <2>2. UNCHANGED <<books, held>>
      BY <1>3, <1>5 DEF books
    <2> QED
      BY <1>3, <1>5, <2>1, <2>2, GoesToGate
  <1>6. CASE /\ operation' = [operation EXCEPT ![tx[t].key] =
                                Proposed(t, IF refused THEN "rejected" ELSE "pending_review")]
             /\ Ends(t)
    <2>1. PICK status \in Statuses : status = (IF refused THEN "rejected" ELSE "pending_review") /\ status # "absent"
      BY DEF Statuses
    <2>2. PICK o : o = Proposed(t, status)
      OBVIOUS
    <2>3. /\ o \in OperationRecords /\ o.request = tx[t].request /\ o.policy = tx[t].policy
          /\ o.status # "absent" /\ o.grantDay = 0
      BY <1>3, <2>1, <2>2, ProposedTyped
    <2>4. operation' = [operation EXCEPT ![tx[t].key] = o]
      BY <1>6, <2>1, <2>2
    <2> QED
      BY <1>3, <1>6, <2>3, <2>4, ProposalWritten
  <1> QED
    BY <1>3, <1>4, <1>5, <1>6

LEMMA KeptByCommitPropose ==
  ASSUME AdmissionInv, NEW t \in Transactions, CommitPropose(t)
  PROVE  Kept
  <1>1. /\ tx[t].kind = "propose" /\ tx[t].pc = "commit" /\ Ends(t)
        /\ UNCHANGED <<buyingPower, canary, attested, policies, haltActive, marketDay>>
    BY DEF CommitPropose
  <1>2. CASE UNCHANGED operation
    BY <1>1, <1>2, EndKeepsInv, NothingWritten DEF AdmissionInv, BooksTyped, OneAttestationADay
  <1>3. CASE /\ marketDay = tx[t].window
             /\ operation' = [operation EXCEPT ![tx[t].key] = Entitle(Proposed(t, "auto_approved"), "auto_approved")]
    <2>1. PICK o : o = Entitle(Proposed(t, "auto_approved"), "auto_approved")
      OBVIOUS
    <2>2. PICK p \in OperationRecords :
            p = Proposed(t, "auto_approved") /\ p.request = tx[t].request /\ p.policy = tx[t].policy
      BY <1>1, ProposedTyped DEF Statuses
    <2>3. /\ o \in OperationRecords /\ o.request = tx[t].request /\ o.policy = tx[t].policy
          /\ o.status = "auto_approved" /\ o.grantDay = marketDay /\ o.revision = Len(canary)
      BY <2>1, <2>2, EntitledTyped DEF Statuses
    <2>4. Fits(o)
      BY <1>1, <1>3, <2>3, TxTyped DEF ReadFact, Asks, Fits
    <2> QED
      BY <1>1, <1>3, <2>1, <2>3, <2>4, ProposalWritten
  <1> QED
    BY <1>2, <1>3 DEF CommitPropose

\* What a review persists: its verdict on the operation it has locked.
LEMMA VerdictWritten ==
  ASSUME AdmissionInv, NEW t \in Transactions, Reviews(t), tx[t].pc # "row",
         NEW o \in OperationRecords, o.request = operation[tx[t].key].request, o.status # "absent",
         o.grantDay = operation[tx[t].key].grantDay \/ (HasLedger(t) /\ Fits(o)),
         operation' = [operation EXCEPT ![tx[t].key] = o], Ends(t),
         UNCHANGED <<buyingPower, canary, attested, policies, haltActive, marketDay>>
  PROVE  Kept
  <1>1. LockFact(t) /\ ReadFact(t)
    BY TxTyped
  <1>2. PICK key \in Keys : key = tx[t].key
    BY TxTyped, KindOf DEF About, Reviews
  <1>3. operation[key].status = "pending_review" /\ Has(t, <<"row", key>>, "X")
    BY <1>1, <1>2 DEF LockFact, ReadFact
  <1>4. operation \in [Keys -> OperationRecords] /\ operation[key].request \in Requests
    BY <1>3 DEF AdmissionInv, BooksTyped
  <1>5. BooksTyped' /\ OneAttestationADay'
    BY <1>2, <1>4, OperationWritten DEF AdmissionInv
  <1>6. Writes(t)
    BY <1>2, <1>3, <1>4 DEF Writes
  <1> QED
    BY <1>5, <1>6, EndKeepsInv

LEMMA StatusTyped ==
  ASSUME NEW o \in OperationRecords, NEW s \in Statuses, NEW x, x = [o EXCEPT !.status = s]
  PROVE  x \in OperationRecords /\ x.request = o.request /\ x.status = s /\ x.grantDay = o.grantDay
  BY DEF OperationRecords

LEMMA KeptByReviewSteps ==
  ASSUME AdmissionInv, NEW t \in Transactions,
         CommitReject(t) \/ CheckExpiry(t) \/ DecideApprove(t) \/ CommitApprove(t)
  PROVE  Kept
  <1>0. operation \in [Keys -> OperationRecords] /\ LockFact(t) /\ ReadFact(t)
    BY TxTyped DEF AdmissionInv, BooksTyped
  <1>1. CASE CommitReject(t)
    <2>1. tx[t].kind = "reject" /\ tx[t].pc = "commit" /\ Reviews(t)
      BY <1>1 DEF CommitReject, Reviews
    <2>2. PICK key \in Keys : key = tx[t].key
      BY <2>1, TxTyped, KindOf DEF About
    <2>3. PICK o : o = [operation[key] EXCEPT !.status = "rejected"]
      OBVIOUS
    <2>4. o \in OperationRecords /\ o.request = operation[key].request /\ o.status = "rejected"
          /\ o.grantDay = operation[key].grantDay
      BY <1>0, <2>2, <2>3, StatusTyped DEF Statuses
    <2>5. operation' = [operation EXCEPT ![key] = o]
      BY <1>1, <2>2, <2>3 DEF CommitReject
    <2> QED
      BY <1>1, <2>1, <2>2, <2>4, <2>5, VerdictWritten DEF CommitReject
  <1>2. CASE CheckExpiry(t)
    <2>1. tx[t].kind = "approve" /\ tx[t].pc = "expiry" /\ Reviews(t)
      BY <1>2 DEF CheckExpiry, Reviews
    <2>2. tx[t] \in About("approve", ApproveSteps)
      BY <2>1, TxTyped, KindOf
    <2>3. PICK key \in Keys : key = tx[t].key
      BY <2>2 DEF About
    <2>4. CASE To(t, "ledger") /\ UNCHANGED <<held, operation>>
      <3>1. PICK r : r = [tx[t] EXCEPT !.pc = "ledger"]
        OBVIOUS
      <3>2. /\ r \in About("approve", ApproveSteps) /\ r.kind = "approve" /\ r.pc = "ledger"
            /\ r.key = tx[t].key /\ r.request = tx[t].request
        BY <2>2, <3>1 DEF About, ApproveSteps
      <3>3. tx'[t] = r
        BY <2>4, <3>1 DEF To, AdmissionInv
      <3>4. UNCHANGED <<books, held>>
        BY <1>2, <2>4 DEF CheckExpiry, books
      <3>5. LockFact(t)' /\ ReadFact(t)'
        BY <1>0, <2>1, <2>4, <3>2, <3>3 DEF LockFact, ReadFact, Has, HasLedger, Asks, Reviews
      <3> QED
        BY <2>4, <3>1, <3>2, <3>4, <3>5, IsRecord, WalkOn
    <2>5. CASE Ends(t) /\ operation' = [operation EXCEPT ![tx[t].key].status = "expired"]
      <3>1. PICK o : o = [operation[key] EXCEPT !.status = "expired"]
        OBVIOUS
      <3>2. o \in OperationRecords /\ o.request = operation[key].request /\ o.status = "expired"
            /\ o.grantDay = operation[key].grantDay
        BY <1>0, <2>3, <3>1, StatusTyped DEF Statuses
      <3>3. operation' = [operation EXCEPT ![key] = o]
        BY <2>3, <2>5, <3>1
      <3> QED
        BY <1>2, <2>1, <2>3, <2>5, <3>2, <3>3, VerdictWritten DEF CheckExpiry
    <2> QED
      BY <1>2, <2>4, <2>5 DEF CheckExpiry
  <1>3. CASE DecideApprove(t)
    <2>1. /\ tx[t].kind = "approve" /\ tx[t].pc = "decide"
          /\ UNCHANGED <<operation, buyingPower, canary, attested, diverged, policies, haltActive, marketDay>>
          /\ \/ Ends(t)
             \/ ~CanaryRefuses(tx[t].request, tx[t].window) /\ To(t, "halt") /\ UNCHANGED <<held, dayOpen>>
      BY <1>3 DEF DecideApprove
    <2>2. CASE Ends(t)
      BY <2>1, <2>2, EndKeepsInv, NothingWritten DEF AdmissionInv, BooksTyped, OneAttestationADay
    <2>3. CASE ~CanaryRefuses(tx[t].request, tx[t].window) /\ To(t, "halt") /\ UNCHANGED <<held, dayOpen>>
      <3>1. UNCHANGED <<books, held>>
        BY <2>1, <2>3 DEF books
      <3> QED
        BY <2>1, <2>3, <3>1, GoesToGate
    <2> QED
      BY <2>1, <2>2, <2>3
  <1>4. CASE CommitApprove(t)
    <2>1. /\ tx[t].kind = "approve" /\ tx[t].pc = "commit" /\ Reviews(t) /\ Ends(t)
          /\ UNCHANGED <<buyingPower, canary, attested, policies, haltActive, marketDay>>
      BY <1>4 DEF CommitApprove, Reviews
    <2>2. CASE UNCHANGED operation
      BY <2>1, <2>2, EndKeepsInv, NothingWritten DEF AdmissionInv, BooksTyped, OneAttestationADay
    <2>3. CASE /\ marketDay = tx[t].window
               /\ operation' = [operation EXCEPT ![tx[t].key] = Entitle(@, "approved")]
      <3>1. PICK key \in Keys : key = tx[t].key
        BY <2>1, TxTyped, KindOf DEF About
      <3>2. PICK o : o = Entitle(operation[key], "approved")
        OBVIOUS
      <3>3. /\ o \in OperationRecords /\ o.request = operation[key].request /\ o.status = "approved"
            /\ o.grantDay = marketDay /\ o.revision = Len(canary)
        BY <1>0, <3>1, <3>2, EntitledTyped DEF Statuses
      <3>4. Fits(o)
        BY <1>0, <2>1, <2>3, <3>1, <3>3 DEF ReadFact, Asks, Fits
      <3>5. operation' = [operation EXCEPT ![key] = o]
        BY <2>3, <3>1, <3>2
      <3>6. HasLedger(t)
        BY <1>0, <2>1 DEF LockFact, Asks
      <3> QED
        BY <2>1, <3>1, <3>3, <3>4, <3>5, <3>6, VerdictWritten
    <2> QED
      BY <1>4, <2>2, <2>3 DEF CommitApprove
  <1> QED
    BY <1>1, <1>2, <1>3, <1>4

-----------------------------------------------------------------------------
(* Revisions, attestations, policies                                       *)

LEMMA CanaryAppended ==
  ASSUME AdmissionInv, NEW authority \in Authorities, NEW change \in {"tighten", "override", "widen"},
         Revised(authority, change),
         UNCHANGED <<operation, buyingPower, attested, policies, haltActive, marketDay>>
  PROVE  /\ BooksTyped' /\ OneAttestationADay' /\ canary' # canary
         /\ canary'[Len(canary')].change = change
  <1>1. PICK revision : revision = [authority |-> authority, day |-> marketDay, change |-> change]
    OBVIOUS
  <1>2. revision \in Revisions /\ revision.change = change
    BY <1>1 DEF AdmissionInv, BooksTyped, Revisions
  <1>3. canary \in Seq(Revisions) /\ canary' = Append(canary, revision)
    BY <1>1 DEF AdmissionInv, BooksTyped, Revised
  <1>4. canary' \in Seq(Revisions) /\ Len(canary') = Len(canary) + 1 /\ Len(canary) \in Nat
        /\ canary'[Len(canary')] = revision
    BY <1>2, <1>3
  <1>5. Len(canary') > 0 /\ canary' # canary
    BY <1>4
  <1> QED
    BY <1>2, <1>4, <1>5 DEF AdmissionInv, BooksTyped, OneAttestationADay

LEMMA KeptByRevision ==
  ASSUME AdmissionInv, NEW t \in Transactions, DecideRevision(t) \/ CommitRevision(t)
  PROVE  Kept
  <1>1. /\ tx[t].kind = "revise" /\ tx[t].pc \in {"decide", "commit"}
        /\ UNCHANGED <<operation, buyingPower, attested, policies, haltActive, marketDay>>
        /\ UNCHANGED <<diverged, dayOpen>>
    BY DEF DecideRevision, CommitRevision
  <1>2. tx[t] \in Revising /\ LockFact(t) /\ ReadFact(t)
    BY <1>1, TxTyped, KindOf
  <1>3. HasLedger(t) /\ tx[t].authority \in Authorities
    BY <1>1, <1>2 DEF LockFact, Revising
  <1>4. CASE Ends(t) /\ UNCHANGED canary
    BY <1>1, <1>4, EndKeepsInv, NothingWritten DEF AdmissionInv, BooksTyped, OneAttestationADay
  <1>5. ASSUME NEW change \in {"tighten", "override", "widen"}, Ends(t), Revised(tx[t].authority, change),
               change = "widen" => Eligible(tx[t].authority)
        PROVE  Kept
    <2>1. BooksTyped' /\ OneAttestationADay' /\ canary'[Len(canary')].change = change
      BY <1>1, <1>3, <1>5, CanaryAppended
    <2>2. Writes(t)
      BY <1>1, <1>3, <1>5, <2>1 DEF Writes
    <2> QED
      BY <1>5, <2>1, <2>2, EndKeepsInv
  <1>6. CASE To(t, "policy") /\ UNCHANGED <<held, canary>> /\ tx[t].pc = "decide"
    <2>1. PICK r : r = [tx[t] EXCEPT !.pc = "policy"]
      OBVIOUS
    <2>2. r \in Revising /\ r.kind = "revise" /\ r.pc = "policy"
      BY <1>2, <2>1 DEF Revising, GovernSteps
    <2>3. tx'[t] = r
      BY <1>6, <2>1 DEF To, AdmissionInv
    <2>4. UNCHANGED <<books, held>>
      BY <1>1, <1>6 DEF books
    <2>5. LockFact(t)' /\ ReadFact(t)'
      BY <1>3, <1>6, <2>2, <2>3 DEF LockFact, ReadFact, Has, HasLedger, Asks, Reviews
    <2> QED
      BY <1>6, <2>1, <2>2, <2>4, <2>5, IsRecord, WalkOn
  <1>7. ASSUME DecideRevision(t) PROVE Kept
    <2>1. \/ Ends(t) /\ UNCHANGED canary
          \/ Ends(t) /\ (Revised(tx[t].authority, "override") \/ Revised(tx[t].authority, "tighten"))
          \/ To(t, "policy") /\ UNCHANGED <<held, canary>> /\ tx[t].pc = "decide"
      BY <1>7 DEF DecideRevision
    <2> QED
      BY <1>4, <1>5, <1>6, <2>1
  <1>8. ASSUME CommitRevision(t) PROVE Kept
    <2>1. \/ Ends(t) /\ UNCHANGED canary
          \/ Ends(t) /\ Revised(tx[t].authority, "widen") /\ Eligible(tx[t].authority)
      BY <1>8 DEF CommitRevision
    <2> QED
      BY <1>4, <1>5, <2>1
  <1> QED
    BY <1>7, <1>8

LEMMA KeptByAttestation ==
  ASSUME AdmissionInv, NEW t \in Transactions, DecideAttestation(t) \/ CommitAttestation(t)
  PROVE  Kept
  <1>1. tx[t].kind = "attest"
    BY DEF DecideAttestation, CommitAttestation
  <1>2. tx[t] \in Attesting /\ LockFact(t) /\ ReadFact(t)
    BY <1>1, TxTyped, KindOf
  <1>3. CASE DecideAttestation(t)
    <2>1. tx[t].pc = "decide" /\ UNCHANGED books
      BY <1>3 DEF DecideAttestation
    <2>2. CASE Ends(t)
      BY <2>1, <2>2, EndKeepsInv, NothingWritten, BooksStayTyped DEF books
    <2>3. CASE To(t, "policy") /\ UNCHANGED held /\ \A a \in attested : a.day # tx[t].day
      <3>1. PICK r : r = [tx[t] EXCEPT !.pc = "policy"]
        OBVIOUS
      <3>2. r \in Attesting /\ r.kind = "attest" /\ r.pc = "policy" /\ r.day = tx[t].day
        BY <1>2, <3>1 DEF Attesting, GovernSteps
      <3>3. tx'[t] = r
        BY <2>3, <3>1 DEF To, AdmissionInv
      <3>4. attested' = attested
        BY <2>1 DEF books
      <3>5. LockFact(t)' /\ ReadFact(t)'
        BY <1>1, <1>2, <2>1, <2>3, <3>2, <3>3, <3>4 DEF LockFact, ReadFact, Has, HasLedger, Asks, Reviews
      <3> QED
        BY <2>1, <2>3, <3>1, <3>2, <3>5, IsRecord, WalkOn
    <2> QED
      BY <1>3, <2>2, <2>3 DEF DecideAttestation
  <1>4. CASE CommitAttestation(t)
    <2>1. /\ tx[t].pc = "commit" /\ Ends(t)
          /\ UNCHANGED <<operation, buyingPower, canary, policies, haltActive, marketDay>>
      BY <1>4 DEF CommitAttestation
    <2>2. HasLedger(t) /\ tx[t].day \in MarketDays /\ \A a \in attested : a.day # tx[t].day
      BY <1>1, <1>2, <2>1 DEF LockFact, ReadFact, Attesting
    <2>3. PICK a : a = [day |-> tx[t].day, revision |-> Len(canary), risk |-> GrantUsage(tx[t].day)]
      OBVIOUS
    <2>4. attested' = attested \/ attested' = attested \union {a}
      BY <1>4, <2>3 DEF CommitAttestation
    <2>5. a.day = tx[t].day
      BY <2>3
    <2>6. IsFiniteSet(attested')
      BY <2>4, FS_AddElement DEF AdmissionInv, BooksTyped
    <2>7. BooksTyped'
      BY <2>1, <2>2, <2>4, <2>5, <2>6 DEF AdmissionInv, BooksTyped
    <2>8. OneAttestationADay'
      BY <2>2, <2>4, <2>5 DEF AdmissionInv, OneAttestationADay
    <2>9. Writes(t)
      BY <2>1, <2>2 DEF Writes
    <2> QED
      BY <2>1, <2>7, <2>8, <2>9, EndKeepsInv
  <1> QED
    BY <1>3, <1>4

LEMMA KeptByPolicy ==
  ASSUME AdmissionInv, NEW t \in Transactions, CommitPolicy(t)
  PROVE  Kept
  <1>1. /\ tx[t].kind = "policy" /\ tx[t].pc = "commit" /\ Ends(t)
        /\ UNCHANGED <<operation, buyingPower, canary, attested, haltActive, marketDay>>
    BY DEF CommitPolicy
  <1>2. tx[t] \in Governing /\ LockFact(t)
    BY <1>1, TxTyped, KindOf
  <1>3. Has(t, <<"policy", "one">>, "X") /\ tx[t].value \in Policies
    BY <1>1, <1>2 DEF LockFact, Governing
  <1>4. policies' \in Seq(Policies) /\ Len(policies') > 0
    <2>1. policies \in Seq(Policies) /\ Len(policies) > 0
      BY DEF AdmissionInv, BooksTyped
    <2>2. policies' = policies \/ policies' = Append(policies, tx[t].value)
      BY DEF CommitPolicy
    <2> QED
      BY <1>3, <2>1, <2>2
  <1>5. BooksTyped' /\ OneAttestationADay'
    BY <1>1, <1>4 DEF AdmissionInv, BooksTyped, OneAttestationADay
  <1>6. Writes(t)
    BY <1>1, <1>3 DEF Writes
  <1> QED
    BY <1>1, <1>5, <1>6, EndKeepsInv

LEMMA KeptByReconcile ==
  ASSUME AdmissionInv, NEW t \in Transactions, StepReconcile(t)
  PROVE  Kept
  <1>1. tx[t].kind = "reconcile" /\ UNCHANGED books
    BY DEF StepReconcile
  <1>2. CASE Ends(t)
    BY <1>1, <1>2, EndKeepsInv, NothingWritten, BooksStayTyped DEF books
  <1>3. CASE To(t, "ledger") /\ UNCHANGED held
    <2>1. tx[t] \in Reconciling
      BY <1>1, TxTyped, KindOf
    <2>2. PICK r : r = [tx[t] EXCEPT !.pc = "ledger"]
      OBVIOUS
    <2>3. r \in Reconciling /\ r.kind = "reconcile"
      BY <2>1, <2>2 DEF Reconciling
    <2>4. tx'[t] = r
      BY <1>3, <2>2 DEF To, AdmissionInv
    <2>5. LockFact(t)' /\ ReadFact(t)'
      BY <2>3, <2>4 DEF LockFact, ReadFact, Asks, Reviews
    <2> QED
      BY <1>1, <1>3, <2>2, <2>3, <2>5, IsRecord, WalkOn
  <1> QED
    BY <1>2, <1>3 DEF StepReconcile

-----------------------------------------------------------------------------
(* What happens outside the transactions                                   *)

LEMMA OutsideKeepsInv ==
  ASSUME AdmissionInv, UNCHANGED <<tx, held, canary, attested, policies>>, BooksTyped',
         \A k \in Keys : /\ operation'[k].status = operation[k].status
                         /\ operation'[k].request = operation[k].request
                         /\ operation'[k].grantDay = operation[k].grantDay
  PROVE  Kept
  <1>1. ASSUME NEW u \in Transactions PROVE LockFact(u)' /\ ReadFact(u)'
    <2>1. PICK w \in {1, 2} : w # u
      OBVIOUS
    <2>2. Writes(w)
      BY DEF Writes
    <2>3. ReadFact(u)'
      BY <2>1, <2>2, ReadsStay
    <2>4. LockFact(u)'
      BY LocksStay DEF AdmissionInv
    <2> QED
      BY <2>3, <2>4
  <1>2. OneAttestationADay' /\ LocksExclude'
    BY DEF AdmissionInv, OneAttestationADay, LocksExclude
  <1>3. Writes("nobody")
    BY DEF Writes
  <1> QED
    BY <1>1, <1>2, <1>3 DEF AdmissionInv, Kept

LEMMA OperationMoves ==
  ASSUME AdmissionInv, NEW k \in Keys, NEW o \in OperationRecords, operation' = [operation EXCEPT ![k] = o],
         o.status = operation[k].status, o.request = operation[k].request, o.grantDay = operation[k].grantDay,
         UNCHANGED <<tx, held, canary, attested, policies, haltActive, marketDay>>, buyingPower' \in Nat
  PROVE  Kept
  <1>1. operation \in [Keys -> OperationRecords]
    BY DEF AdmissionInv, BooksTyped
  <1>2. BooksTyped'
    BY DEF AdmissionInv, BooksTyped
  <1> QED
    BY <1>1, <1>2, OutsideKeepsInv

LEMMA KeptByAttempt ==
  ASSUME AdmissionInv, NEW k \in Keys, NEW from, NEW to \in {"active", "working", "failed", "filled", "settled"},
         MovesAttempt(k, from, to), buyingPower' \in Nat
  PROVE  Kept
  <1>1. PICK o : o = [operation[k] EXCEPT !.attempt = to]
    OBVIOUS
  <1>2. operation[k] \in OperationRecords
    BY DEF AdmissionInv, BooksTyped
  <1>3. o \in OperationRecords /\ o.status = operation[k].status /\ o.request = operation[k].request
        /\ o.grantDay = operation[k].grantDay
    BY <1>1, <1>2 DEF OperationRecords
  <1>4. operation' = [operation EXCEPT ![k] = o]
    BY <1>1 DEF MovesAttempt
  <1> QED
    BY <1>3, <1>4, OperationMoves DEF MovesAttempt

LEMMA KeptOutside ==
  ASSUME AdmissionInv, NEW k \in Keys,
         ClaimAttempt(k) \/ ResolveAttempt(k) \/ BrokerFills(k) \/ BookOrder(k) \/ ProposalExpires(k)
  PROVE  Kept
  <1>0. buyingPower \in Nat /\ operation[k] \in OperationRecords
    BY DEF AdmissionInv, BooksTyped
  <1>1. CASE ClaimAttempt(k)
    BY <1>0, <1>1, KeptByAttempt DEF ClaimAttempt
  <1>2. CASE ResolveAttempt(k)
    BY <1>0, <1>2, KeptByAttempt DEF ResolveAttempt
  <1>3. CASE BrokerFills(k)
    <2>1. operation[k].request.risk \in Nat
      BY <1>0, AdmissionConstants DEF OperationRecords, NoOperation
    <2>2. buyingPower' \in Nat
      BY <1>0, <1>3, <2>1 DEF BrokerFills
    <2> QED
      BY <1>3, <2>2, KeptByAttempt DEF BrokerFills
  <1>4. CASE BookOrder(k)
    BY <1>0, <1>4, KeptByAttempt DEF BookOrder
  <1>5. CASE ProposalExpires(k)
    <2>1. PICK o : o = [operation[k] EXCEPT !.fresh = FALSE]
      OBVIOUS
    <2>2. o \in OperationRecords /\ o.status = operation[k].status /\ o.request = operation[k].request
          /\ o.grantDay = operation[k].grantDay
      BY <1>0, <2>1 DEF OperationRecords
    <2>3. operation' = [operation EXCEPT ![k] = o]
      BY <1>5, <2>1 DEF ProposalExpires
    <2> QED
      BY <1>0, <1>5, <2>2, <2>3, OperationMoves DEF ProposalExpires
  <1> QED
    BY <1>1, <1>2, <1>3, <1>4, <1>5

-----------------------------------------------------------------------------
(* Induction                                                               *)

LEMMA InitKeepsInv == AdmissionInit => AdmissionInv
  <1> SUFFICES ASSUME AdmissionInit PROVE AdmissionInv
    OBVIOUS
  <1>1. BooksTyped
    <2>1. NoOperation \in OperationRecords /\ NoOperation.status = "absent" /\ NoOperation.grantDay = 0
      BY DEF NoOperation, OperationRecords, Statuses
    <2>2. PICK revision : revision = [authority |-> InitialAuthority, day |-> 1, change |-> "initial"]
      OBVIOUS
    <2>3. revision \in Revisions
      BY <2>2, AdmissionConstants DEF Revisions
    <2>4. canary = <<revision>> /\ policies = <<InitialPolicy>>
      BY <2>2 DEF AdmissionInit
    <2>5. canary \in Seq(Revisions) /\ Len(canary) > 0 /\ policies \in Seq(Policies) /\ Len(policies) > 0
      BY <2>3, <2>4, AdmissionConstants
    <2>6. IsFiniteSet(attested) /\ \A a \in attested : a.day \in MarketDays
      BY FS_EmptySet DEF AdmissionInit
    <2>7. buyingPower \in Nat /\ marketDay \in Nat \ {0}
      <3>1. marketDay = 1 /\ buyingPower = BuyingPower
        BY DEF AdmissionInit
      <3> QED
        BY <3>1, AdmissionConstants
    <2>8. haltActive \in BOOLEAN
      <3>1. haltActive = FALSE
        BY DEF AdmissionInit
      <3> QED
        BY <3>1
    <2> QED
      BY <2>1, <2>5, <2>6, <2>7, <2>8 DEF AdmissionInit, BooksTyped
  <1>2. OneAttestationADay /\ LocksExclude
    BY DEF AdmissionInit, OneAttestationADay, LocksExclude
  <1>3. tx \in [Transactions -> TxRecords]
    BY DEF AdmissionInit, TxRecords
  <1>4. ASSUME NEW t \in Transactions PROVE LockFact(t) /\ ReadFact(t)
    BY DEF AdmissionInit, LockFact, ReadFact, Asks, Reviews, Quiet
  <1> QED
    BY <1>1, <1>2, <1>3, <1>4 DEF AdmissionInv

LEMMA NextKeepsInv == AdmissionInv /\ [AdmissionNext]_admissionVars => Kept
  <1> SUFFICES ASSUME AdmissionInv, [AdmissionNext]_admissionVars PROVE Kept
    OBVIOUS
  <1>1. ASSUME NEW t \in Transactions, Begin(t) PROVE Kept
    BY <1>1, KeptByBegin
  <1>2. ASSUME NEW t \in Transactions, Proceed(t) PROVE Kept
    BY <1>2, KeptByAcquire, KeptByReadAccount, KeptByDecidePropose, KeptByCommitPropose, KeptByReviewSteps,
       KeptByRevision, KeptByAttestation, KeptByPolicy, KeptByReconcile DEF Proceed
  <1>3. ASSUME NEW t \in Transactions, Rollback(t) PROVE Kept
    BY <1>3, KeptByRollback
  <1>4. ASSUME NEW k \in Keys,
               ClaimAttempt(k) \/ ResolveAttempt(k) \/ BrokerFills(k) \/ BookOrder(k) \/ ProposalExpires(k)
        PROVE  Kept
    BY <1>4, KeptOutside
  <1>5. CASE NextMarketDay
    <2>1. BooksTyped'
      BY <1>5 DEF NextMarketDay, AdmissionInv, BooksTyped
    <2> QED
      BY <1>5, <2>1, OutsideKeepsInv DEF NextMarketDay
  <1>6. CASE PnLDiverges
    <2>1. BooksTyped'
      BY <1>6 DEF PnLDiverges, AdmissionInv, BooksTyped
    <2> QED
      BY <1>6, <2>1, OutsideKeepsInv DEF PnLDiverges
  <1>7. CASE ActivateHalt
    <2>1. BooksTyped'
      BY <1>7 DEF ActivateHalt, AdmissionInv, BooksTyped
    <2> QED
      BY <1>7, <2>1, OutsideKeepsInv DEF ActivateHalt
  <1>8. CASE UNCHANGED admissionVars
    <2>1. BooksTyped'
      BY <1>8 DEF admissionVars, AdmissionInv, BooksTyped
    <2> QED
      BY <1>8, <2>1, OutsideKeepsInv DEF admissionVars
  <1> QED
    BY <1>1, <1>2, <1>3, <1>4, <1>5, <1>6, <1>7, <1>8 DEF AdmissionNext

-----------------------------------------------------------------------------
(* Money: what is held, spent and granted                                  *)

Filled == {k \in Keys : operation[k].attempt = "filled"}
Spendable == {k \in Keys : operation[k].attempt \in {"pending", "active", "working"}}
HeldKeys == {k \in Keys : Holds(operation[k])}

\* An operation nobody admitted holds nothing and is no grant.
OnlyAdmittedHold ==
  \A k \in Keys : operation[k].status \notin {"auto_approved", "approved"} =>
    operation[k].attempt = "none" /\ operation[k].grantDay = 0

\* What a transaction read of the account is at most what the provider has and
\* what was filled since, and what it decided is covered by it.
MoneyFact(t) ==
  /\ Asks(t) /\ tx[t].pc \in {"decide", "halt", "gate", "commit"} =>
       tx[t].window # 0 /\ tx[t].buyingPower <= buyingPower + RiskOf(Filled)
  /\ Asks(t) /\ tx[t].pc \in {"halt", "gate", "commit"} =>
       /\ tx[t].request.risk + RiskOf(HeldKeys) <= tx[t].buyingPower
       /\ tx[t].request.risk + GrantUsage(tx[t].window) <= ActiveCanary.authority.cap

MoneyInv == OnlyAdmittedHold /\ NeverOverspent /\ \A t \in Transactions : MoneyFact(t)

RiskIn(q, S) == MapThenSumSet(LAMBDA k : q[k].request.risk, S)

LEMMA RiskIsTotal ==
  ASSUME NEW q, NEW f, f = [k \in Keys |-> q[k].request.risk], NEW S \in SUBSET Keys
  PROVE  RiskIn(q, S) = Total(f, S)
  <1>0. IsFiniteSet(S) /\ \A k \in S : f[k] = q[k].request.risk
    BY AdmissionConstants, FS_Subset
  <1>1. ASSUME NEW g
        PROVE  Sums(g, f, S) <=>
                 g = [s \in SUBSET S |-> IF s = {} THEN 0 ELSE q[Some(s)].request.risk + g[s \ {Some(s)}]]
    <2>1. ASSUME NEW s \in SUBSET S
          PROVE  (IF s = {} THEN 0 ELSE f[Some(s)] + g[s \ {Some(s)}])
                   = IF s = {} THEN 0 ELSE q[Some(s)].request.risk + g[s \ {Some(s)}]
      BY <1>0, SomeOf
    <2> QED
      BY <2>1 DEF Sums
  <1>2. PICK h : h = CHOOSE g :
          g = [s \in SUBSET S |-> IF s = {} THEN 0 ELSE q[Some(s)].request.risk + g[s \ {Some(s)}]]
    OBVIOUS
  <1>3. Sums(h, f, S)
    BY <1>0, <1>1, <1>2, SumsExist
  <1>4. RiskIn(q, S) = h[S]
    BY <1>2 DEF RiskIn, MapThenSumSet, MapThenFoldSet, Some
  <1>5. PICK e : Sums(e, f, S) /\ Total(f, S) = e[S]
    BY <1>0, TotalIsSums
  <1>6. S \in SUBSET S
    OBVIOUS
  <1>7. \A s \in SUBSET S : h[s] = e[s]
    BY <1>0, <1>3, <1>5, <1>6, SumsAgree
  <1> QED
    BY <1>4, <1>5, <1>7

LEMMA RisksTyped ==
  ASSUME NEW q \in [Keys -> OperationRecords], NEW k \in Keys
  PROVE  q[k].request.risk \in Nat
  BY AdmissionConstants DEF OperationRecords, NoOperation

LEMMA RiskNat ==
  ASSUME NEW q \in [Keys -> OperationRecords], NEW S \in SUBSET Keys
  PROVE  RiskIn(q, S) \in Nat
  <1>1. PICK f : f = [k \in Keys |-> q[k].request.risk]
    OBVIOUS
  <1>2. IsFiniteSet(S) /\ \A k \in S : f[k] \in Nat
    BY <1>1, RisksTyped, AdmissionConstants, FS_Subset
  <1>3. Total(f, S) \in Nat
    BY <1>2, TotalNat
  <1>4. RiskIn(q, S) = Total(f, S)
    BY <1>1, RiskIsTotal
  <1> QED
    BY <1>3, <1>4

LEMMA RiskUnion ==
  ASSUME NEW q \in [Keys -> OperationRecords], NEW V \in SUBSET Keys, NEW W \in SUBSET Keys, V \intersect W = {}
  PROVE  RiskIn(q, V \union W) = RiskIn(q, V) + RiskIn(q, W)
  <1>1. PICK f : f = [k \in Keys |-> q[k].request.risk]
    OBVIOUS
  <1>2. \A k \in Keys : f[k] \in Int
    BY <1>1, RisksTyped
  <1>3. Total(f, V \union W) = Total(f, V) + Total(f, W)
    BY <1>2, AdmissionConstants, TotalUnion
  <1>4. V \union W \in SUBSET Keys
    OBVIOUS
  <1> QED
    BY <1>1, <1>3, <1>4, RiskIsTotal

\* One operation changes: the risk of a set changes by what it was and what it is.
LEMMA RiskChange ==
  ASSUME NEW q \in [Keys -> OperationRecords], NEW r \in [Keys -> OperationRecords], NEW k \in Keys,
         \A j \in Keys : j # k => r[j] = q[j],
         NEW V \in SUBSET Keys, NEW W \in SUBSET Keys, \A j \in Keys : j # k => (j \in V <=> j \in W),
         NEW was, was = IF k \in V THEN q[k].request.risk ELSE 0,
         NEW is, is = IF k \in W THEN r[k].request.risk ELSE 0
  PROVE  RiskIn(r, W) = (RiskIn(q, V) - was) + is
  <1>1. PICK f : f = [j \in Keys |-> q[j].request.risk]
    OBVIOUS
  <1>2. PICK g : g = [j \in Keys |-> r[j].request.risk]
    OBVIOUS
  <1>3. PICK a : a = [j \in Keys |-> IF j \in V THEN f[j] ELSE 0]
    OBVIOUS
  <1>4. PICK b : b = [j \in Keys |-> IF j \in W THEN g[j] ELSE 0]
    OBVIOUS
  <1>5. \A j \in Keys : f[j] \in Nat /\ g[j] \in Nat
    BY <1>1, <1>2, RisksTyped
  <1>6. Total(f, V) = Total(a, Keys) /\ Total(g, W) = Total(b, Keys)
    BY <1>3, <1>4, <1>5, AdmissionConstants, TotalPart
  <1>7. \A j \in Keys : a[j] \in Int /\ b[j] \in Int /\ (j # k => a[j] = b[j])
    BY <1>1, <1>2, <1>3, <1>4, <1>5
  <1>8. Total(b, Keys) = (Total(a, Keys) - a[k]) + b[k]
    BY <1>7, AdmissionConstants, TotalChange
  <1>9. a[k] = was /\ b[k] = is
    BY <1>1, <1>2, <1>3, <1>4
  <1>10. RiskIn(q, V) = Total(f, V) /\ RiskIn(r, W) = Total(g, W)
    BY <1>1, <1>2, RiskIsTotal
  <1> QED
    BY <1>6, <1>8, <1>9, <1>10

LEMMA RiskJoins ==
  ASSUME NEW q \in [Keys -> OperationRecords], NEW r \in [Keys -> OperationRecords], NEW k \in Keys,
         \A j \in Keys : j # k => r[j] = q[j],
         NEW V \in SUBSET Keys, NEW W, k \notin V, W = V \union {k}
  PROVE  RiskIn(r, W) = RiskIn(q, V) + r[k].request.risk
  <1>1. W \in SUBSET Keys /\ k \in W /\ \A j \in Keys : j # k => (j \in V <=> j \in W)
    OBVIOUS
  <1>2. PICK was, is : was = (IF k \in V THEN q[k].request.risk ELSE 0) /\ is = (IF k \in W THEN r[k].request.risk ELSE 0)
    OBVIOUS
  <1>3. RiskIn(r, W) = (RiskIn(q, V) - was) + is
    BY <1>1, <1>2, RiskChange
  <1>4. was = 0 /\ is = r[k].request.risk /\ RiskIn(q, V) \in Nat /\ r[k].request.risk \in Nat
    BY <1>1, <1>2, RiskNat, RisksTyped
  <1> QED
    BY <1>3, <1>4

LEMMA RiskLeaves ==
  ASSUME NEW q \in [Keys -> OperationRecords], NEW r \in [Keys -> OperationRecords], NEW k \in Keys,
         \A j \in Keys : j # k => r[j] = q[j],
         NEW V \in SUBSET Keys, NEW W, k \in V, W = V \ {k}
  PROVE  RiskIn(r, W) = RiskIn(q, V) - q[k].request.risk
  <1>1. W \in SUBSET Keys /\ k \notin W /\ \A j \in Keys : j # k => (j \in V <=> j \in W)
    OBVIOUS
  <1>2. PICK was, is : was = (IF k \in V THEN q[k].request.risk ELSE 0) /\ is = (IF k \in W THEN r[k].request.risk ELSE 0)
    OBVIOUS
  <1>3. RiskIn(r, W) = (RiskIn(q, V) - was) + is
    BY <1>1, <1>2, RiskChange
  <1>4. is = 0 /\ was = q[k].request.risk /\ RiskIn(q, V) \in Nat /\ q[k].request.risk \in Nat
    BY <1>1, <1>2, RiskNat, RisksTyped
  <1> QED
    BY <1>3, <1>4

LEMMA RiskSame ==
  ASSUME NEW q \in [Keys -> OperationRecords], NEW r \in [Keys -> OperationRecords],
         NEW V \in SUBSET Keys, \A j \in V : r[j].request.risk = q[j].request.risk
  PROVE  RiskIn(r, V) = RiskIn(q, V)
  <1>1. PICK f : f = [j \in Keys |-> q[j].request.risk]
    OBVIOUS
  <1>2. PICK g : g = [j \in Keys |-> r[j].request.risk]
    OBVIOUS
  <1>3. IsFiniteSet(V) /\ \A j \in V : f[j] \in Int /\ f[j] = g[j]
    BY <1>1, <1>2, RisksTyped, AdmissionConstants, FS_Subset
  <1>4. Total(f, V) = Total(g, V)
    BY <1>3, TotalSame
  <1>5. RiskIn(q, V) = Total(f, V) /\ RiskIn(r, V) = Total(g, V)
    BY <1>1, <1>2, RiskIsTotal
  <1> QED
    BY <1>4, <1>5

-----------------------------------------------------------------------------

\* What the account and the canary of a transaction under the ledger rest on.
MoneyKept ==
  /\ buyingPower + RiskOf(Filled) <= (buyingPower + RiskOf(Filled))'
  /\ RiskOf(HeldKeys)' <= RiskOf(HeldKeys)
  /\ canary' = canary
  /\ \A d \in Nat \ {0} : GrantUsage(d)' = GrantUsage(d)

Sized(q, d) == {k \in Keys : q[k].grantDay = d}
FilledIn(q) == {k \in Keys : q[k].attempt = "filled"}
SpendableIn(q) == {k \in Keys : q[k].attempt \in {"pending", "active", "working"}}
HeldIn(q) == {k \in Keys : Holds(q[k])}

LEMMA MoneyTerms ==
  /\ RiskOf(Filled) = RiskIn(operation, FilledIn(operation))
  /\ RiskOf(Filled)' = RiskIn(operation', FilledIn(operation'))
  /\ RiskOf(HeldKeys) = RiskIn(operation, HeldIn(operation))
  /\ RiskOf(HeldKeys)' = RiskIn(operation', HeldIn(operation'))
  /\ HeldCash = RiskIn(operation, HeldIn(operation))
  /\ NeverOverspent <=> RiskIn(operation, SpendableIn(operation)) <= buyingPower
  /\ NeverOverspent' <=> RiskIn(operation', SpendableIn(operation')) <= buyingPower'
  /\ \A d : GrantUsage(d) = RiskIn(operation, Sized(operation, d))
  /\ \A d : GrantUsage(d)' = RiskIn(operation', Sized(operation', d))
  <1>1. Filled = FilledIn(operation) /\ Filled' = FilledIn(operation')
    BY DEF Filled, FilledIn
  <1>2. HeldKeys = HeldIn(operation) /\ HeldKeys' = HeldIn(operation')
    BY DEF HeldKeys, HeldIn
  <1>3. RiskOf(Filled)' = RiskIn(operation', Filled') /\ RiskOf(HeldKeys)' = RiskIn(operation', HeldKeys')
    BY DEF RiskOf, RiskIn, MapThenSumSet, MapThenFoldSet
  <1>4. RiskOf(Filled) = RiskIn(operation, Filled) /\ RiskOf(HeldKeys) = RiskIn(operation, HeldKeys)
    BY DEF RiskOf, RiskIn
  <1>5. HeldCash = RiskIn(operation, HeldIn(operation))
    BY DEF HeldCash, RiskOf, RiskIn, HeldIn
  <1>6. NeverOverspent <=> RiskIn(operation, SpendableIn(operation)) <= buyingPower
    BY DEF NeverOverspent, RiskOf, RiskIn, SpendableIn
  <1>7. NeverOverspent' <=> RiskIn(operation', SpendableIn(operation')) <= buyingPower'
    BY DEF NeverOverspent, RiskOf, RiskIn, SpendableIn, MapThenSumSet, MapThenFoldSet
  <1>8. ASSUME NEW d PROVE GrantUsage(d) = RiskIn(operation, Sized(operation, d))
    BY DEF GrantUsage, RiskOf, RiskIn, Sized
  <1>9. ASSUME NEW d PROVE GrantUsage(d)' = RiskIn(operation', Sized(operation', d))
    BY DEF GrantUsage, RiskOf, RiskIn, Sized, MapThenSumSet, MapThenFoldSet
  <1> QED
    BY <1>1, <1>2, <1>3, <1>4, <1>5, <1>6, <1>7, <1>8, <1>9

LEMMA HeldSplits ==
  ASSUME NEW q \in [Keys -> OperationRecords]
  PROVE  /\ RiskIn(q, HeldIn(q)) = RiskIn(q, SpendableIn(q)) + RiskIn(q, FilledIn(q))
         /\ RiskIn(q, HeldIn(q)) \in Nat /\ RiskIn(q, SpendableIn(q)) \in Nat /\ RiskIn(q, FilledIn(q)) \in Nat
         /\ \A d : RiskIn(q, Sized(q, d)) \in Nat
  <1>1. /\ HeldIn(q) = SpendableIn(q) \union FilledIn(q) /\ SpendableIn(q) \intersect FilledIn(q) = {}
        /\ SpendableIn(q) \in SUBSET Keys /\ FilledIn(q) \in SUBSET Keys /\ HeldIn(q) \in SUBSET Keys
    BY DEF HeldIn, SpendableIn, FilledIn, Holds
  <1>2. \A d : Sized(q, d) \in SUBSET Keys
    BY DEF Sized
  <1> QED
    BY <1>1, <1>2, RiskNat, RiskUnion

\* Nothing of the money moves.
LEMMA MoneyStands ==
  ASSUME AdmissionInv, MoneyInv, UNCHANGED <<operation, buyingPower, canary>>
  PROVE  MoneyKept /\ OnlyAdmittedHold' /\ NeverOverspent'
  <1>1. operation \in [Keys -> OperationRecords] /\ buyingPower \in Nat
    BY DEF AdmissionInv, BooksTyped
  <1>2. OnlyAdmittedHold' /\ NeverOverspent'
    BY MoneyTerms DEF MoneyInv, OnlyAdmittedHold
  <1>3. buyingPower + RiskOf(Filled) = (buyingPower + RiskOf(Filled))' /\ buyingPower + RiskOf(Filled) \in Nat
    BY <1>1, MoneyTerms, HeldSplits
  <1>4. RiskOf(HeldKeys)' = RiskOf(HeldKeys) /\ RiskOf(HeldKeys) \in Nat
    BY <1>1, MoneyTerms, HeldSplits
  <1>5. \A d : GrantUsage(d)' = GrantUsage(d)
    BY MoneyTerms
  <1> QED
    BY <1>2, <1>3, <1>4, <1>5 DEF MoneyKept

\* The others' readings stay covered, or they have not read yet.
LEMMA MoneyOfOthers ==
  ASSUME AdmissionInv, AdmissionInv', MoneyInv, NEW u \in Transactions, tx'[u] = tx[u],
         MoneyKept \/ ~HasLedger(u)
  PROVE  MoneyFact(u)'
  <1>1. LockFact(u) /\ MoneyFact(u) /\ tx[u] \in TxRecords
    BY DEF AdmissionInv, MoneyInv
  <1>2. CASE ~(Asks(u) /\ tx[u].pc \in {"decide", "halt", "gate", "commit"})
    BY <1>2 DEF MoneyFact, Asks
  <1>3. CASE Asks(u) /\ tx[u].pc \in {"decide", "halt", "gate", "commit"}
    <2>1. HasLedger(u)
      BY <1>1, <1>3 DEF LockFact
    <2>2. MoneyKept
      BY <2>1
    <2>3. PICK r : r = tx[u]
      OBVIOUS
    <2>4. r.window \in Nat \ {0} /\ r.buyingPower \in Nat /\ r.request.risk \in Nat
      <3>1. r \in About("propose", ProposeSteps) \/ r \in About("approve", ApproveSteps)
        BY <1>1, <1>3, <2>3, KindOf DEF Asks
      <3>2. r.window # 0
        BY <1>1, <1>3, <2>3 DEF MoneyFact
      <3> QED
        BY <3>1, <3>2, AdmissionConstants DEF About
    <2>5. /\ operation \in [Keys -> OperationRecords] /\ operation' \in [Keys -> OperationRecords]
          /\ buyingPower \in Nat /\ buyingPower' \in Nat
      BY DEF AdmissionInv, BooksTyped
    <2>6. PICK a \in Nat, b \in Nat :
            a = buyingPower + RiskOf(Filled) /\ b = (buyingPower + RiskOf(Filled))' /\ a <= b
      BY <2>2, <2>5, MoneyTerms, HeldSplits DEF MoneyKept
    <2>7. PICK c \in Nat, d \in Nat : c = RiskOf(HeldKeys) /\ d = RiskOf(HeldKeys)' /\ d <= c
      BY <2>2, <2>5, MoneyTerms, HeldSplits DEF MoneyKept
    <2>8. GrantUsage(r.window)' = GrantUsage(r.window) /\ ActiveCanary' = ActiveCanary
      BY <2>2, <2>4 DEF MoneyKept, ActiveCanary
    <2>9. r.buyingPower <= b
      <3>1. r.buyingPower <= a
        BY <1>1, <1>3, <2>3, <2>6 DEF MoneyFact
      <3> QED
        BY <2>4, <2>6, <3>1
    <2>10. r.pc \in {"halt", "gate", "commit"} =>
             /\ r.request.risk + d <= r.buyingPower
             /\ r.request.risk + GrantUsage(r.window)' <= ActiveCanary'.authority.cap
      <3> SUFFICES ASSUME r.pc \in {"halt", "gate", "commit"}
                   PROVE  /\ r.request.risk + d <= r.buyingPower
                          /\ r.request.risk + GrantUsage(r.window)' <= ActiveCanary'.authority.cap
        OBVIOUS
      <3>1. r.request.risk + c <= r.buyingPower /\ r.request.risk + GrantUsage(r.window) <= ActiveCanary.authority.cap
        BY <1>1, <1>3, <2>3, <2>7 DEF MoneyFact
      <3> QED
        BY <2>4, <2>7, <2>8, <3>1
    <2> QED
      BY <2>3, <2>4, <2>6, <2>7, <2>9, <2>10 DEF MoneyFact, Asks
  <1> QED
    BY <1>2, <1>3

LEMMA MoneyStep ==
  ASSUME AdmissionInv, AdmissionInv', MoneyInv, NEW t \in Transactions, NEW r, tx' = [tx EXCEPT ![t] = r],
         MoneyKept \/ \A u \in Transactions : u # t => ~HasLedger(u),
         MoneyFact(t)', OnlyAdmittedHold', NeverOverspent'
  PROVE  MoneyInv'
  <1>1. ASSUME NEW u \in Transactions, u # t PROVE MoneyFact(u)'
    <2>1. tx'[u] = tx[u]
      BY <1>1 DEF AdmissionInv
    <2> QED
      BY <1>1, <2>1, MoneyOfOthers
  <1> QED
    BY <1>1 DEF MoneyInv

LEMMA MoneyOutside ==
  ASSUME AdmissionInv, AdmissionInv', MoneyInv, tx' = tx,
         MoneyKept \/ \A u \in Transactions : ~HasLedger(u), OnlyAdmittedHold', NeverOverspent'
  PROVE  MoneyInv'
  BY MoneyOfOthers DEF MoneyInv

LEMMA LedgerIsMine ==
  ASSUME AdmissionInv, NEW t \in Transactions, HasLedger(t), NEW u \in Transactions, u # t
  PROVE  ~HasLedger(u)
  BY Excluded DEF AdmissionInv, HasLedger

LEMMA QuietFact ==
  ASSUME NEW t \in Transactions, AdmissionInv, Ends(t)
  PROVE  MoneyFact(t)'
  BY DEF Ends, MoneyFact, Asks, Quiet, AdmissionInv

\* A transaction that ends, or walks where nothing new is asked of it.
LEMMA EndsWithMoney ==
  ASSUME AdmissionInv, AdmissionInv', MoneyInv, NEW t \in Transactions, Ends(t),
         UNCHANGED <<operation, buyingPower, canary>>
  PROVE  MoneyInv'
  BY QuietFact, MoneyStands, MoneyStep DEF Ends

LEMMA EndsRevised ==
  ASSUME AdmissionInv, AdmissionInv', MoneyInv, NEW t \in Transactions, Ends(t), HasLedger(t),
         UNCHANGED <<operation, buyingPower>>
  PROVE  MoneyInv'
  <1>1. OnlyAdmittedHold' /\ NeverOverspent'
    BY MoneyTerms DEF MoneyInv, OnlyAdmittedHold
  <1> QED
    BY <1>1, QuietFact, LedgerIsMine, MoneyStep DEF Ends

LEMMA WalksWithMoney ==
  ASSUME AdmissionInv, AdmissionInv', MoneyInv, NEW t \in Transactions, NEW r, tx' = [tx EXCEPT ![t] = r],
         UNCHANGED <<operation, buyingPower, canary>>,
         \/ ~(r.kind \in {"propose", "approve"} /\ r.pc \in {"decide", "halt", "gate", "commit"})
         \/ /\ Asks(t) /\ tx[t].pc \in {"halt", "gate", "commit"} /\ r.kind = tx[t].kind
            /\ r.window = tx[t].window /\ r.buyingPower = tx[t].buyingPower /\ r.request = tx[t].request
  PROVE  MoneyInv'
  <1>1. MoneyKept /\ OnlyAdmittedHold' /\ NeverOverspent'
    BY MoneyStands
  <1>2. tx'[t] = r
    BY DEF AdmissionInv
  <1>3. MoneyFact(t)'
    <2>1. CASE ~(r.kind \in {"propose", "approve"} /\ r.pc \in {"decide", "halt", "gate", "commit"})
      BY <1>2, <2>1 DEF MoneyFact, Asks
    <2>2. CASE /\ Asks(t) /\ tx[t].pc \in {"halt", "gate", "commit"} /\ r.kind = tx[t].kind
               /\ r.window = tx[t].window /\ r.buyingPower = tx[t].buyingPower /\ r.request = tx[t].request
      <3>1. MoneyFact(t)
        BY DEF MoneyInv
      <3>2. /\ buyingPower + RiskOf(Filled) = (buyingPower + RiskOf(Filled))'
            /\ RiskOf(HeldKeys)' = RiskOf(HeldKeys) /\ ActiveCanary' = ActiveCanary
        BY MoneyTerms DEF ActiveCanary
      <3>3. GrantUsage(r.window)' = GrantUsage(r.window)
        BY MoneyTerms
      <3> QED
        BY <1>2, <2>2, <3>1, <3>2, <3>3 DEF MoneyFact, Asks
    <2> QED
      BY <2>1, <2>2
  <1> QED
    BY <1>1, <1>3, MoneyStep

\* A step keeps the money invariant, and a grant the day within the cap.
MoneyGood ==
  /\ MoneyInv'
  /\ \/ \A k \in Keys : operation'[k].grantDay = operation[k].grantDay
     \/ RiskIn(operation', Sized(operation', marketDay)) <= ActiveCanary.authority.cap

LEMMA MoneyByReadAccount ==
  ASSUME AdmissionInv, AdmissionInv', MoneyInv, NEW t \in Transactions, ReadAccount(t)
  PROVE  MoneyGood
  <1>1. tx[t].pc = "account" /\ UNCHANGED <<operation, buyingPower, canary, marketDay>>
    BY DEF ReadAccount, books
  <1>2. CASE Ends(t)
    BY <1>1, <1>2, EndsWithMoney DEF MoneyGood
  <1>3. CASE ~Ends(t)
    <2>1. PICK r0 \in TxRecords : r0 = tx[t]
      BY TxTyped
    <2>2. PICK r : r = [r0 EXCEPT !.pc = "decide", !.buyingPower = buyingPower, !.window = marketDay,
                                  !.policy = IF r0.kind = "propose" THEN Len(policies) ELSE @]
      OBVIOUS
    <2>3. tx' = [tx EXCEPT ![t] = r]
      BY <1>3, <2>1, <2>2 DEF ReadAccount
    <2>4. tx'[t] = r
      BY <2>3 DEF AdmissionInv
    <2>5. r0 \in About("propose", ProposeSteps) \/ r0 \in About("approve", ApproveSteps)
      BY <1>1, <2>1, KindOf DEF About, Revising, Attesting, Governing, Reconciling, Quiet, GovernSteps
    <2>6. r.pc = "decide" /\ r.buyingPower = buyingPower /\ r.window = marketDay
      BY <2>2, <2>5 DEF About
    <2>7. MoneyKept /\ OnlyAdmittedHold' /\ NeverOverspent'
      BY <1>1, MoneyStands
    <2>8. MoneyFact(t)'
      <3>1. operation \in [Keys -> OperationRecords] /\ buyingPower \in Nat /\ marketDay \in Nat \ {0}
        BY DEF AdmissionInv, BooksTyped
      <3>2. PICK f \in Nat : f = RiskOf(Filled)'
        BY <1>1, <3>1, MoneyTerms, HeldSplits
      <3>3. r.window # 0 /\ r.buyingPower <= buyingPower' + f
        BY <1>1, <2>6, <3>1, <3>2
      <3> QED
        BY <2>4, <2>6, <3>2, <3>3 DEF MoneyFact, Asks
    <2> QED
      BY <1>1, <2>3, <2>7, <2>8, MoneyStep DEF MoneyGood
  <1> QED
    BY <1>2, <1>3

LEMMA ClassCovered ==
  ASSUME AdmissionInv, NEW t, tx[t].buyingPower \in Nat, NEW request \in Requests, NEW p, NEW day,
         Classify(request, p, day, t) # "REJECT"
  PROVE  request.risk + RiskOf(HeldKeys) <= tx[t].buyingPower
  <1>1. operation \in [Keys -> OperationRecords]
    BY DEF AdmissionInv, BooksTyped
  <1>2. PICK h \in Nat : h = HeldCash /\ h = RiskOf(HeldKeys)
    BY <1>1, MoneyTerms, HeldSplits
  <1>3. ~(h > tx[t].buyingPower) /\ ~(request.risk > tx[t].buyingPower - h)
    BY <1>2 DEF Classify
  <1>4. request.risk \in Nat
    BY AdmissionConstants
  <1> QED
    BY <1>2, <1>3, <1>4

LEMMA MoneyByGoing ==
  ASSUME AdmissionInv, AdmissionInv', MoneyInv, NEW t \in Transactions,
         tx[t].kind \in {"propose", "approve"}, tx[t].pc = "decide",
         ~CanaryRefuses(tx[t].request, tx[t].window),
         NEW p, Classify(tx[t].request, p, tx[t].window, t) # "REJECT",
         To(t, "halt"), UNCHANGED <<operation, buyingPower, canary, marketDay>>
  PROVE  MoneyGood
  <1>1. PICK r0 \in TxRecords : r0 = tx[t]
    BY TxTyped
  <1>2. r0 \in About("propose", ProposeSteps) \/ r0 \in About("approve", ApproveSteps)
    BY <1>1, KindOf
  <1>3. PICK r : r = [r0 EXCEPT !.pc = "halt"]
    OBVIOUS
  <1>4. /\ r.kind = r0.kind /\ r.pc = "halt" /\ r.request = r0.request
        /\ r.buyingPower = r0.buyingPower /\ r.window = r0.window
    BY <1>2, <1>3 DEF About
  <1>5. r0.request \in Requests /\ r0.request.risk \in Nat /\ r0.buyingPower \in Nat
    BY <1>2, AdmissionConstants DEF About
  <1>6. tx' = [tx EXCEPT ![t] = r]
    BY <1>1, <1>3 DEF To
  <1>7. tx'[t] = r
    BY <1>6 DEF AdmissionInv
  <1>8. MoneyKept /\ OnlyAdmittedHold' /\ NeverOverspent'
    BY MoneyStands
  <1>9. r0.request.risk + RiskOf(HeldKeys) <= r0.buyingPower
    BY <1>1, <1>5, ClassCovered
  <1>10. r0.request.risk + GrantUsage(r0.window) <= ActiveCanary.authority.cap
    <2>1. PICK cap \in Nat : cap = ActiveCanary.authority.cap
      <3>1. canary[Len(canary)] \in Revisions
        BY DEF AdmissionInv, BooksTyped
      <3> QED
        BY <3>1, AdmissionConstants DEF ActiveCanary, Revisions
    <2>2. PICK usage \in Nat : usage = GrantUsage(r0.window)
      BY MoneyTerms, HeldSplits DEF AdmissionInv, BooksTyped
    <2>3. ~(r0.request.risk > cap) /\ ~(usage > cap - r0.request.risk)
      BY <1>1, <2>1, <2>2 DEF CanaryRefuses
    <2> QED
      BY <1>5, <2>1, <2>2, <2>3
  <1>11. /\ buyingPower + RiskOf(Filled) = (buyingPower + RiskOf(Filled))'
         /\ RiskOf(HeldKeys)' = RiskOf(HeldKeys) /\ ActiveCanary' = ActiveCanary
         /\ GrantUsage(r0.window)' = GrantUsage(r0.window)
    BY MoneyTerms DEF ActiveCanary
  <1>12. r0.window # 0 /\ r0.buyingPower <= buyingPower + RiskOf(Filled)
    BY <1>1 DEF MoneyInv, MoneyFact, Asks
  <1>13. MoneyFact(t)'
    BY <1>4, <1>7, <1>9, <1>10, <1>11, <1>12 DEF MoneyFact, Asks
  <1> QED
    BY <1>6, <1>8, <1>13, MoneyStep DEF MoneyGood

\* An operation is written that is no grant.
LEMMA MoneyByVerdict ==
  ASSUME AdmissionInv, AdmissionInv', MoneyInv, NEW t \in Transactions, Ends(t),
         NEW k \in Keys, operation[k].status \notin {"auto_approved", "approved"},
         NEW o, operation' = [operation EXCEPT ![k] = o], o.attempt = "none", o.grantDay = 0,
         UNCHANGED <<buyingPower, canary>>
  PROVE  MoneyGood
  <1>1. operation[k].attempt = "none" /\ operation[k].grantDay = 0
    BY DEF MoneyInv, OnlyAdmittedHold
  <1>2. operation \in [Keys -> OperationRecords] /\ operation' \in [Keys -> OperationRecords] /\ buyingPower \in Nat
    BY DEF AdmissionInv, BooksTyped
  <1>3. operation'[k] = o /\ \A j \in Keys : j # k => operation'[j] = operation[j]
    BY <1>2
  <1>4. OnlyAdmittedHold'
    BY <1>3 DEF MoneyInv, OnlyAdmittedHold
  <1>5. /\ FilledIn(operation') = FilledIn(operation) /\ k \notin FilledIn(operation)
        /\ SpendableIn(operation') = SpendableIn(operation) /\ k \notin SpendableIn(operation)
        /\ HeldIn(operation') = HeldIn(operation) /\ k \notin HeldIn(operation)
    BY <1>1, <1>3 DEF FilledIn, SpendableIn, HeldIn, Holds
  <1>6. \A d \in Nat \ {0} : Sized(operation', d) = Sized(operation, d) /\ k \notin Sized(operation, d)
    BY <1>1, <1>3 DEF Sized
  <1>7. \A V \in SUBSET Keys : k \notin V => RiskIn(operation', V) = RiskIn(operation, V)
    <2> SUFFICES ASSUME NEW V \in SUBSET Keys, k \notin V PROVE RiskIn(operation', V) = RiskIn(operation, V)
      OBVIOUS
    <2>1. PICK q \in [Keys -> OperationRecords], r \in [Keys -> OperationRecords] : q = operation /\ r = operation'
      BY <1>2
    <2>2. \A j \in V : r[j].request.risk = q[j].request.risk
      BY <1>3, <2>1
    <2>3. RiskIn(r, V) = RiskIn(q, V)
      BY <2>2, RiskSame
    <2> QED
      BY <2>1, <2>3
  <1>8. /\ FilledIn(operation) \in SUBSET Keys /\ SpendableIn(operation) \in SUBSET Keys
        /\ HeldIn(operation) \in SUBSET Keys /\ \A d : Sized(operation, d) \in SUBSET Keys
    BY DEF FilledIn, SpendableIn, HeldIn, Sized
  <1>9. NeverOverspent'
    BY <1>5, <1>7, <1>8, MoneyTerms DEF MoneyInv
  <1>10. MoneyKept
    <2>1. RiskOf(Filled)' = RiskOf(Filled) /\ RiskOf(HeldKeys)' = RiskOf(HeldKeys)
      BY <1>5, <1>7, <1>8, MoneyTerms
    <2>2. RiskOf(Filled) \in Nat /\ RiskOf(HeldKeys) \in Nat
      BY <1>2, MoneyTerms, HeldSplits
    <2>3. \A d \in Nat \ {0} : GrantUsage(d)' = GrantUsage(d)
      BY <1>6, <1>7, <1>8, MoneyTerms
    <2> QED
      BY <1>2, <2>1, <2>2, <2>3 DEF MoneyKept
  <1>11. \A j \in Keys : operation'[j].grantDay = operation[j].grantDay
    BY <1>1, <1>3
  <1> QED
    BY <1>4, <1>9, <1>10, <1>11, QuietFact, MoneyStep DEF Ends, MoneyGood

LEMMA GrantSpends ==
  ASSUME NEW q \in [Keys -> OperationRecords], NEW r \in [Keys -> OperationRecords], NEW k \in Keys,
         \A j \in Keys : j # k => r[j] = q[j], q[k].attempt = "none", r[k].attempt = "pending"
  PROVE  RiskIn(r, SpendableIn(r)) = RiskIn(q, SpendableIn(q)) + r[k].request.risk
  <1>1. SpendableIn(q) \in SUBSET Keys /\ k \notin SpendableIn(q) /\ SpendableIn(r) = SpendableIn(q) \union {k}
    BY DEF SpendableIn
  <1> QED
    BY <1>1, RiskJoins

LEMMA GrantSizes ==
  ASSUME NEW q \in [Keys -> OperationRecords], NEW r \in [Keys -> OperationRecords], NEW k \in Keys,
         \A j \in Keys : j # k => r[j] = q[j], NEW d, q[k].grantDay # d, r[k].grantDay = d
  PROVE  RiskIn(r, Sized(r, d)) = RiskIn(q, Sized(q, d)) + r[k].request.risk
  <1>1. Sized(q, d) \in SUBSET Keys /\ k \notin Sized(q, d) /\ Sized(r, d) = Sized(q, d) \union {k}
    BY DEF Sized
  <1> QED
    BY <1>1, RiskJoins

\* A grant: what it may spend was free of promises when the account was read,
\* and nothing but fills has happened since.
LEMMA MoneyByGrant ==
  ASSUME AdmissionInv, AdmissionInv', MoneyInv, NEW t \in Transactions, Ends(t), Asks(t), tx[t].pc = "commit",
         tx[t].window = marketDay,
         NEW k \in Keys, operation[k].status \notin {"auto_approved", "approved"},
         NEW o, operation' = [operation EXCEPT ![k] = o], o.attempt = "pending", o.grantDay = marketDay,
         o.request = tx[t].request, o.status \in {"auto_approved", "approved"},
         UNCHANGED <<buyingPower, canary>>
  PROVE  MoneyGood
  <1>1. operation[k].attempt = "none" /\ operation[k].grantDay = 0
    BY DEF MoneyInv, OnlyAdmittedHold
  <1>2. /\ operation \in [Keys -> OperationRecords] /\ operation' \in [Keys -> OperationRecords]
        /\ buyingPower \in Nat /\ marketDay \in Nat \ {0}
    BY DEF AdmissionInv, BooksTyped
  <1>3. operation'[k] = o /\ \A j \in Keys : j # k => operation'[j] = operation[j]
    BY <1>2
  <1>4. OnlyAdmittedHold'
    BY <1>3 DEF MoneyInv, OnlyAdmittedHold
  <1>5. PICK spent : spent = o.request.risk
    OBVIOUS
  <1>6. /\ FilledIn(operation) \in SUBSET Keys /\ SpendableIn(operation) \in SUBSET Keys
        /\ SpendableIn(operation') \in SUBSET Keys
        /\ Sized(operation, marketDay) \in SUBSET Keys /\ Sized(operation', marketDay) \in SUBSET Keys
    BY DEF FilledIn, SpendableIn, Sized
  <1>7. RiskIn(operation', SpendableIn(operation')) = RiskIn(operation, SpendableIn(operation)) + spent
    <2>1. PICK q \in [Keys -> OperationRecords], r \in [Keys -> OperationRecords] : q = operation /\ r = operation'
      BY <1>2
    <2>2. /\ \A j \in Keys : j # k => r[j] = q[j]
          /\ q[k].attempt = "none" /\ r[k].attempt = "pending" /\ r[k].request.risk = spent
      BY <1>1, <1>3, <1>5, <2>1
    <2>3. RiskIn(r, SpendableIn(r)) = RiskIn(q, SpendableIn(q)) + r[k].request.risk
      BY <2>2, GrantSpends
    <2> QED
      BY <2>1, <2>2, <2>3
  <1>8. RiskIn(operation', Sized(operation', marketDay)) = RiskIn(operation, Sized(operation, marketDay)) + spent
    <2>1. PICK q \in [Keys -> OperationRecords], r \in [Keys -> OperationRecords] : q = operation /\ r = operation'
      BY <1>2
    <2>2. /\ \A j \in Keys : j # k => r[j] = q[j]
          /\ q[k].grantDay # marketDay /\ r[k].grantDay = marketDay /\ r[k].request.risk = spent
      BY <1>1, <1>2, <1>3, <1>5, <2>1
    <2>3. RiskIn(r, Sized(r, marketDay)) = RiskIn(q, Sized(q, marketDay)) + r[k].request.risk
      BY <2>2, GrantSizes
    <2> QED
      BY <2>1, <2>2, <2>3
  <1>9. PICK h \in Nat, s \in Nat, f \in Nat, u \in Nat :
          /\ h = RiskIn(operation, HeldIn(operation)) /\ s = RiskIn(operation, SpendableIn(operation))
          /\ f = RiskIn(operation, FilledIn(operation)) /\ u = RiskIn(operation, Sized(operation, marketDay))
          /\ h = s + f
    BY <1>2, HeldSplits
  <1>10. spent \in Nat
    BY <1>2, <1>3, <1>5, RisksTyped
  <1>11. PICK account \in Nat : account = tx[t].buyingPower
    BY TxTyped, KindOf DEF About, Asks
  <1>12. account <= buyingPower + f /\ spent + h <= account /\ spent + u <= ActiveCanary.authority.cap
    BY <1>5, <1>9, <1>11, MoneyTerms DEF MoneyInv, MoneyFact
  <1>13. NeverOverspent'
    <2>1. s + spent <= buyingPower
      BY <1>2, <1>9, <1>10, <1>11, <1>12
    <2>2. RiskIn(operation', SpendableIn(operation')) = s + spent
      BY <1>7, <1>9, <1>10
    <2> QED
      BY <2>1, <2>2, MoneyTerms
  <1>14. RiskIn(operation', Sized(operation', marketDay)) <= ActiveCanary.authority.cap
    <2>1. RiskIn(operation', Sized(operation', marketDay)) = spent + u
      BY <1>8, <1>9, <1>10
    <2> QED
      BY <1>12, <2>1
  <1>15. \A w \in Transactions : w # t => ~HasLedger(w)
    <2>1. HasLedger(t)
      BY TxTyped DEF LockFact
    <2> QED
      BY <2>1, LedgerIsMine
  <1>16. MoneyInv'
    BY <1>4, <1>13, <1>15, QuietFact, MoneyStep DEF Ends
  <1> QED
    BY <1>14, <1>16 DEF MoneyGood

-----------------------------------------------------------------------------
(* Attempts                                                                *)

Live == {"pending", "active", "working"}

LEMMA OneLeaves ==
  ASSUME NEW q \in [Keys -> OperationRecords], NEW V \in SUBSET Keys, NEW k \in V
  PROVE  /\ RiskIn(q, V \ {k}) = RiskIn(q, V) - q[k].request.risk
         /\ q[k].request.risk <= RiskIn(q, V)
  <1>1. k \in Keys /\ \A j \in Keys : j # k => q[j] = q[j]
    OBVIOUS
  <1>2. RiskIn(q, V \ {k}) = RiskIn(q, V) - q[k].request.risk
    BY <1>1, RiskLeaves
  <1>3. RiskIn(q, V \ {k}) \in Nat /\ RiskIn(q, V) \in Nat /\ q[k].request.risk \in Nat
    <2>1. V \ {k} \in SUBSET Keys
      OBVIOUS
    <2> QED
      BY <1>1, <2>1, RiskNat, RisksTyped
  <1> QED
    BY <1>2, <1>3

\* An attempt moves: what can be spent, what was filled and what each day granted.
LEMMA AttemptRisks ==
  ASSUME NEW q \in [Keys -> OperationRecords], NEW r \in [Keys -> OperationRecords], NEW k \in Keys,
         \A j \in Keys : r[j].request = q[j].request /\ r[j].grantDay = q[j].grantDay,
         \A j \in Keys : j # k => r[j].attempt = q[j].attempt,
         NEW risk, risk = q[k].request.risk
  PROVE  /\ \A d : RiskIn(r, Sized(r, d)) = RiskIn(q, Sized(q, d))
         /\ q[k].attempt \in Live /\ r[k].attempt \in Live =>
              RiskIn(r, SpendableIn(r)) = RiskIn(q, SpendableIn(q))
         /\ q[k].attempt \notin Live /\ r[k].attempt \notin Live =>
              RiskIn(r, SpendableIn(r)) = RiskIn(q, SpendableIn(q))
         /\ q[k].attempt \in Live /\ r[k].attempt \notin Live =>
              /\ RiskIn(r, SpendableIn(r)) = RiskIn(q, SpendableIn(q)) - risk
              /\ risk <= RiskIn(q, SpendableIn(q))
         /\ q[k].attempt # "filled" /\ r[k].attempt # "filled" =>
              RiskIn(r, FilledIn(r)) = RiskIn(q, FilledIn(q))
         /\ q[k].attempt # "filled" /\ r[k].attempt = "filled" =>
              RiskIn(r, FilledIn(r)) = RiskIn(q, FilledIn(q)) + risk
  <1>1. ASSUME NEW V \in SUBSET Keys PROVE RiskIn(r, V) = RiskIn(q, V)
    <2>1. \A j \in V : r[j].request.risk = q[j].request.risk
      OBVIOUS
    <2> QED
      BY <2>1, RiskSame
  <1>2. /\ SpendableIn(q) \in SUBSET Keys /\ SpendableIn(r) \in SUBSET Keys
        /\ FilledIn(q) \in SUBSET Keys /\ FilledIn(r) \in SUBSET Keys
    BY DEF SpendableIn, FilledIn
  <1>3. ASSUME NEW d PROVE RiskIn(r, Sized(r, d)) = RiskIn(q, Sized(q, d))
    <2>1. Sized(r, d) = Sized(q, d) /\ Sized(q, d) \in SUBSET Keys
      BY DEF Sized
    <2> QED
      BY <1>1, <2>1
  <1>4. ASSUME (q[k].attempt \in Live /\ r[k].attempt \in Live) \/ (q[k].attempt \notin Live /\ r[k].attempt \notin Live)
        PROVE  RiskIn(r, SpendableIn(r)) = RiskIn(q, SpendableIn(q))
    <2>1. SpendableIn(r) = SpendableIn(q)
      BY <1>4 DEF SpendableIn, Live
    <2> QED
      BY <1>1, <1>2, <2>1
  <1>5. ASSUME q[k].attempt \in Live, r[k].attempt \notin Live
        PROVE  /\ RiskIn(r, SpendableIn(r)) = RiskIn(q, SpendableIn(q)) - risk
               /\ risk <= RiskIn(q, SpendableIn(q))
    <2>1. SpendableIn(r) = SpendableIn(q) \ {k} /\ k \in SpendableIn(q)
      BY <1>5 DEF SpendableIn, Live
    <2> QED
      BY <1>1, <1>2, <2>1, OneLeaves
  <1>6. ASSUME q[k].attempt # "filled", r[k].attempt # "filled"
        PROVE  RiskIn(r, FilledIn(r)) = RiskIn(q, FilledIn(q))
    <2>1. FilledIn(r) = FilledIn(q)
      BY <1>6 DEF FilledIn
    <2> QED
      BY <1>1, <1>2, <2>1
  <1>7. ASSUME q[k].attempt # "filled", r[k].attempt = "filled"
        PROVE  RiskIn(r, FilledIn(r)) = RiskIn(q, FilledIn(q)) + risk
    <2>1. FilledIn(q) = FilledIn(r) \ {k} /\ k \in FilledIn(r)
      BY <1>7 DEF FilledIn
    <2>2. RiskIn(r, FilledIn(q)) = RiskIn(r, FilledIn(r)) - r[k].request.risk
      BY <1>2, <2>1, OneLeaves
    <2>3. RiskIn(r, FilledIn(r)) \in Nat /\ RiskIn(q, FilledIn(q)) \in Nat /\ risk \in Nat
      BY <1>2, RiskNat, RisksTyped
    <2>4. RiskIn(r, FilledIn(q)) = RiskIn(q, FilledIn(q)) /\ r[k].request.risk = risk
      BY <1>1, <1>2
    <2> QED
      BY <2>2, <2>3, <2>4
  <1> QED
    BY <1>3, <1>4, <1>5, <1>6, <1>7

LEMMA MovesAttemptFacts ==
  ASSUME AdmissionInv, AdmissionInv', MoneyInv, NEW k \in Keys, NEW from, NEW to, MovesAttempt(k, from, to),
         from # "none"
  PROVE  /\ operation \in [Keys -> OperationRecords] /\ operation' \in [Keys -> OperationRecords]
         /\ \A j \in Keys : operation'[j].request = operation[j].request /\ operation'[j].grantDay = operation[j].grantDay
         /\ \A j \in Keys : j # k => operation'[j].attempt = operation[j].attempt
         /\ operation[k].attempt = from /\ operation'[k].attempt = to
         /\ OnlyAdmittedHold'
  <1>1. operation \in [Keys -> OperationRecords] /\ operation' \in [Keys -> OperationRecords]
    BY DEF AdmissionInv, BooksTyped
  <1>2. PICK o : o = [operation[k] EXCEPT !.attempt = to]
    OBVIOUS
  <1>3. operation' = [operation EXCEPT ![k] = o] /\ operation[k].attempt = from
    BY <1>2 DEF MovesAttempt
  <1>4. /\ o.request = operation[k].request /\ o.grantDay = operation[k].grantDay
        /\ o.status = operation[k].status /\ o.attempt = to
    BY <1>1, <1>2 DEF OperationRecords
  <1>5. operation'[k] = o /\ \A j \in Keys : j # k => operation'[j] = operation[j]
    BY <1>1, <1>3
  <1>6. operation[k].status \in {"auto_approved", "approved"}
    BY <1>3 DEF MoneyInv, OnlyAdmittedHold
  <1>7. OnlyAdmittedHold'
    BY <1>4, <1>5, <1>6 DEF MoneyInv, OnlyAdmittedHold
  <1> QED
    BY <1>1, <1>3, <1>4, <1>5, <1>7

LEMMA MoneyByAttempt ==
  ASSUME AdmissionInv, AdmissionInv', MoneyInv, NEW k \in Keys,
         ClaimAttempt(k) \/ ResolveAttempt(k) \/ BrokerFills(k) \/ BookOrder(k)
  PROVE  MoneyGood
  <1>1. PICK from \in {"pending", "active", "working", "filled"},
             to \in {"active", "working", "failed", "filled", "settled"} :
          /\ MovesAttempt(k, from, to)
          /\ \/ from \in Live /\ to \in Live \union {"failed"} /\ UNCHANGED buyingPower
             \/ /\ from = "working" /\ to = "filled"
                /\ buyingPower' = IF operation[k].request.risk <= buyingPower
                                  THEN buyingPower - operation[k].request.risk ELSE 0
             \/ from \in {"filled", "working"} /\ to = "settled" /\ UNCHANGED buyingPower /\ Unlocked("ledger")
    BY DEF ClaimAttempt, ResolveAttempt, BrokerFills, BookOrder, Live
  <1>2. PICK q \in [Keys -> OperationRecords] : q = operation
    BY DEF AdmissionInv, BooksTyped
  <1>3. PICK r \in [Keys -> OperationRecords] : r = operation'
    BY DEF AdmissionInv, BooksTyped
  <1>4. /\ \A j \in Keys : r[j].request = q[j].request /\ r[j].grantDay = q[j].grantDay
        /\ \A j \in Keys : j # k => r[j].attempt = q[j].attempt
        /\ q[k].attempt = from /\ r[k].attempt = to
    BY <1>1, <1>2, <1>3, MovesAttemptFacts
  <1>5. OnlyAdmittedHold' /\ UNCHANGED <<tx, canary, marketDay>>
    BY <1>1, MovesAttemptFacts DEF MovesAttempt
  <1>6. PICK risk \in Nat : risk = q[k].request.risk
    BY RisksTyped
  <1>7. PICK bp \in Nat, bq \in Nat : bp = buyingPower /\ bq = buyingPower'
    BY DEF AdmissionInv, BooksTyped
  <1>8. PICK s \in Nat, f \in Nat, h \in Nat :
          s = RiskIn(q, SpendableIn(q)) /\ f = RiskIn(q, FilledIn(q)) /\ h = RiskIn(q, HeldIn(q)) /\ h = s + f
    BY HeldSplits
  <1>9. PICK sr \in Nat, fr \in Nat, hr \in Nat :
          sr = RiskIn(r, SpendableIn(r)) /\ fr = RiskIn(r, FilledIn(r)) /\ hr = RiskIn(r, HeldIn(r)) /\ hr = sr + fr
    BY HeldSplits
  <1>10. /\ \A d : RiskIn(r, Sized(r, d)) = RiskIn(q, Sized(q, d))
         /\ from \in Live /\ to \in Live => sr = s
         /\ from \notin Live /\ to \notin Live => sr = s
         /\ from \in Live /\ to \notin Live => sr = s - risk /\ risk <= s
         /\ from # "filled" /\ to # "filled" => fr = f
         /\ from # "filled" /\ to = "filled" => fr = f + risk
    BY <1>4, <1>6, <1>8, <1>9, AttemptRisks
  <1>11. s <= bp
    BY <1>2, <1>7, <1>8, MoneyTerms DEF MoneyInv
  <1>12. ASSUME sr <= bq PROVE NeverOverspent'
    BY <1>3, <1>7, <1>9, <1>12, MoneyTerms
  <1>13. ASSUME bp + f <= bq + fr, hr <= h PROVE MoneyKept
    <2>1. buyingPower + RiskOf(Filled) = bp + f /\ (buyingPower + RiskOf(Filled))' = bq + fr
      BY <1>2, <1>3, <1>7, <1>8, <1>9, MoneyTerms
    <2>2. RiskOf(HeldKeys) = h /\ RiskOf(HeldKeys)' = hr
      BY <1>2, <1>3, <1>8, <1>9, MoneyTerms
    <2>3. \A d \in Nat \ {0} : GrantUsage(d)' = GrantUsage(d)
      BY <1>2, <1>3, <1>10, MoneyTerms
    <2> QED
      BY <1>5, <1>13, <2>1, <2>2, <2>3 DEF MoneyKept
  <1>14. sr <= bq
    <2>1. CASE from \in Live /\ to \in Live \union {"failed"} /\ bq = bp
      <3>1. sr = s \/ sr = s - risk
        BY <1>10, <2>1 DEF Live
      <3> QED
        BY <1>11, <2>1, <3>1
    <2>2. CASE from = "working" /\ to = "filled" /\ bq = IF risk <= bp THEN bp - risk ELSE 0
      <3>1. sr = s - risk /\ risk <= s
        BY <1>10, <2>2 DEF Live
      <3> QED
        BY <1>11, <2>2, <3>1
    <2>3. CASE from \in {"filled", "working"} /\ to = "settled" /\ bq = bp
      <3>1. sr = s \/ sr = s - risk
        BY <1>10, <2>3 DEF Live
      <3> QED
        BY <1>11, <2>3, <3>1
    <2> QED
      BY <1>1, <1>2, <1>6, <1>7, <2>1, <2>2, <2>3
  <1>15. MoneyKept \/ \A u \in Transactions : ~HasLedger(u)
    <2>1. CASE from \in Live /\ to \in Live \union {"failed"} /\ bq = bp
      <3>1. (sr = s \/ sr = s - risk) /\ fr = f
        BY <1>10, <2>1 DEF Live
      <3>2. bp + f <= bq + fr /\ hr <= h
        BY <1>8, <1>9, <2>1, <3>1
      <3> QED
        BY <1>13, <3>2
    <2>2. CASE from = "working" /\ to = "filled" /\ bq = IF risk <= bp THEN bp - risk ELSE 0
      <3>1. sr = s - risk /\ risk <= s /\ fr = f + risk
        BY <1>10, <2>2 DEF Live
      <3>2. bp + f <= bq + fr /\ hr <= h
        BY <1>8, <1>9, <1>11, <2>2, <3>1
      <3> QED
        BY <1>13, <3>2
    <2>3. CASE Unlocked("ledger")
      BY <2>3 DEF Unlocked, HasLedger, Has
    <2> QED
      BY <1>1, <1>2, <1>6, <1>7, <2>1, <2>2, <2>3
  <1>16. MoneyInv'
    BY <1>5, <1>12, <1>14, <1>15, MoneyOutside
  <1> QED
    BY <1>2, <1>3, <1>4, <1>16 DEF MoneyGood

LEMMA MoneyByExpiry ==
  ASSUME AdmissionInv, AdmissionInv', MoneyInv, NEW k \in Keys, ProposalExpires(k)
  PROVE  MoneyGood
  <1>1. PICK q \in [Keys -> OperationRecords] : q = operation
    BY DEF AdmissionInv, BooksTyped
  <1>2. PICK r \in [Keys -> OperationRecords] : r = operation'
    BY DEF AdmissionInv, BooksTyped
  <1>3. PICK o : o = [q[k] EXCEPT !.fresh = FALSE]
    OBVIOUS
  <1>4. r = [q EXCEPT ![k] = o] /\ q[k].status = "pending_review"
        /\ UNCHANGED <<tx, canary, marketDay, buyingPower>>
    BY <1>1, <1>2, <1>3 DEF ProposalExpires
  <1>5. /\ o.request = q[k].request /\ o.grantDay = q[k].grantDay
        /\ o.status = q[k].status /\ o.attempt = q[k].attempt
    BY <1>3 DEF OperationRecords
  <1>6. r[k] = o /\ \A j \in Keys : j # k => r[j] = q[j]
    BY <1>4
  <1>7. \A j \in Keys : /\ r[j].request = q[j].request /\ r[j].grantDay = q[j].grantDay
                        /\ r[j].attempt = q[j].attempt /\ r[j].status = q[j].status
    BY <1>5, <1>6
  <1>8. q[k].attempt = "none"
    BY <1>1, <1>4 DEF MoneyInv, OnlyAdmittedHold
  <1>9. PICK risk : risk = q[k].request.risk
    OBVIOUS
  <1>10. /\ \A d : RiskIn(r, Sized(r, d)) = RiskIn(q, Sized(q, d))
         /\ q[k].attempt \notin Live /\ r[k].attempt \notin Live =>
              RiskIn(r, SpendableIn(r)) = RiskIn(q, SpendableIn(q))
         /\ q[k].attempt # "filled" /\ r[k].attempt # "filled" =>
              RiskIn(r, FilledIn(r)) = RiskIn(q, FilledIn(q))
    BY <1>7, <1>9, AttemptRisks
  <1>11. RiskIn(r, SpendableIn(r)) = RiskIn(q, SpendableIn(q)) /\ RiskIn(r, FilledIn(r)) = RiskIn(q, FilledIn(q))
    BY <1>7, <1>8, <1>10 DEF Live
  <1>12. PICK bp \in Nat, s \in Nat, f \in Nat, h \in Nat :
           /\ bp = buyingPower /\ s = RiskIn(q, SpendableIn(q)) /\ f = RiskIn(q, FilledIn(q))
           /\ h = RiskIn(q, HeldIn(q)) /\ h = RiskIn(r, HeldIn(r))
    BY <1>11, HeldSplits DEF AdmissionInv, BooksTyped
  <1>13. MoneyKept
    <2>1. buyingPower + RiskOf(Filled) = bp + f /\ (buyingPower + RiskOf(Filled))' = bp + f
      BY <1>1, <1>2, <1>4, <1>11, <1>12, MoneyTerms
    <2>2. RiskOf(HeldKeys) = h /\ RiskOf(HeldKeys)' = h
      BY <1>1, <1>2, <1>12, MoneyTerms
    <2>3. \A d \in Nat \ {0} : GrantUsage(d)' = GrantUsage(d)
      BY <1>1, <1>2, <1>10, MoneyTerms
    <2> QED
      BY <1>4, <2>1, <2>2, <2>3 DEF MoneyKept
  <1>14. NeverOverspent'
    BY <1>1, <1>2, <1>4, <1>11, MoneyTerms DEF MoneyInv
  <1>15. OnlyAdmittedHold'
    BY <1>1, <1>2, <1>7 DEF MoneyInv, OnlyAdmittedHold
  <1>16. MoneyInv'
    BY <1>4, <1>13, <1>14, <1>15, MoneyOutside
  <1> QED
    BY <1>1, <1>2, <1>7, <1>16 DEF MoneyGood

-----------------------------------------------------------------------------
(* Proposals and reviews                                                   *)

LEMMA ProposedHoldsNothing ==
  ASSUME AdmissionInv, NEW t \in Transactions, tx[t].kind = "propose", NEW status \in Statuses
  PROVE  Proposed(t, status).attempt = "none"
  BY DEF Proposed, NoOperation

LEMMA EntitledPending ==
  ASSUME NEW o \in OperationRecords, NEW status \in Statuses
  PROVE  Entitle(o, status).attempt = "pending"
  BY DEF Entitle, OperationRecords

LEMMA Same ==
  ASSUME UNCHANGED operation, MoneyInv'
  PROVE  MoneyGood
  BY DEF MoneyGood

LEMMA MoneyByPropose ==
  ASSUME AdmissionInv, AdmissionInv', MoneyInv, NEW t \in Transactions, DecidePropose(t) \/ CommitPropose(t)
  PROVE  MoneyGood
  <1>1. /\ tx[t].kind = "propose" /\ tx[t].pc \in {"decide", "commit"} /\ Asks(t)
        /\ UNCHANGED <<buyingPower, canary, policies, marketDay>>
    BY DEF DecidePropose, CommitPropose, Asks
  <1>2. PICK key \in Keys : key = tx[t].key
    BY <1>1, TxTyped, KindOf DEF About
  <1>3. operation[key].status = "absent"
    BY <1>1, <1>2, TxTyped DEF ReadFact
  <1>4. CASE Ends(t) /\ UNCHANGED operation
    BY <1>1, <1>4, EndsWithMoney, Same
  <1>5. ASSUME DecidePropose(t), ~(Ends(t) /\ UNCHANGED operation) PROVE MoneyGood
    <2>1. PICK class : class = Classify(tx[t].request, policies[tx[t].policy], tx[t].window, t)
      OBVIOUS
    <2>2. PICK refused \in BOOLEAN :
            refused = (class = "REJECT" \/ (class = "B" /\ CanaryRefuses(tx[t].request, tx[t].window)))
      OBVIOUS
    <2>3. /\ tx[t].pc = "decide"
          /\ \/ class = "B" /\ ~refused /\ To(t, "halt") /\ UNCHANGED operation
             \/ /\ operation' = [operation EXCEPT ![tx[t].key] =
                                   Proposed(t, IF refused THEN "rejected" ELSE "pending_review")]
                /\ Ends(t)
      BY <1>5, <2>1, <2>2 DEF DecidePropose
    <2>4. CASE class = "B" /\ ~refused /\ To(t, "halt") /\ UNCHANGED operation
      BY <1>1, <2>1, <2>2, <2>3, <2>4, MoneyByGoing
    <2>5. CASE /\ operation' = [operation EXCEPT ![tx[t].key] =
                                  Proposed(t, IF refused THEN "rejected" ELSE "pending_review")]
               /\ Ends(t)
      <3>1. PICK status \in Statuses : status = IF refused THEN "rejected" ELSE "pending_review"
        BY DEF Statuses
      <3>2. PICK o : o = Proposed(t, status)
        OBVIOUS
      <3>3. o.grantDay = 0 /\ o.attempt = "none"
        BY <1>1, <3>1, <3>2, ProposedTyped, ProposedHoldsNothing
      <3>4. operation' = [operation EXCEPT ![key] = o]
        BY <1>2, <2>5, <3>1, <3>2
      <3> QED
        BY <1>1, <1>3, <2>5, <3>3, <3>4, MoneyByVerdict
    <2> QED
      BY <2>3, <2>4, <2>5
  <1>6. ASSUME CommitPropose(t), ~UNCHANGED operation PROVE MoneyGood
    <2>0. tx[t].pc = "commit" /\ Ends(t) /\ tx[t].window = marketDay
      BY <1>6 DEF CommitPropose
    <2>1. operation' = [operation EXCEPT ![tx[t].key] = Entitle(Proposed(t, "auto_approved"), "auto_approved")]
      BY <1>6 DEF CommitPropose
    <2>2. PICK p \in OperationRecords : p = Proposed(t, "auto_approved") /\ p.request = tx[t].request
      BY <1>1, ProposedTyped DEF Statuses
    <2>3. PICK o : o = Entitle(p, "auto_approved")
      OBVIOUS
    <2>4. /\ o.request = tx[t].request /\ o.status = "auto_approved" /\ o.grantDay = marketDay
          /\ o.attempt = "pending"
      BY <2>2, <2>3, EntitledTyped, EntitledPending DEF Statuses
    <2>5. operation' = [operation EXCEPT ![key] = o]
      BY <1>2, <2>1, <2>2, <2>3
    <2> QED
      BY <1>1, <1>3, <2>0, <2>4, <2>5, MoneyByGrant
  <1>7. CommitPropose(t) => Ends(t)
    BY DEF CommitPropose
  <1> QED
    BY <1>4, <1>5, <1>6, <1>7

LEMMA MoneyByReject ==
  ASSUME AdmissionInv, AdmissionInv', MoneyInv, NEW t \in Transactions, Reviews(t), tx[t].pc # "row", Ends(t),
         NEW status \in {"rejected", "expired"},
         operation' = [operation EXCEPT ![tx[t].key].status = status],
         UNCHANGED <<buyingPower, canary>>
  PROVE  MoneyGood
  <1>1. PICK key \in Keys : key = tx[t].key
    BY TxTyped, KindOf DEF About, Reviews
  <1>2. operation[key].status = "pending_review"
    BY <1>1, TxTyped DEF ReadFact
  <1>3. operation[key].attempt = "none" /\ operation[key].grantDay = 0 /\ operation[key] \in OperationRecords
    BY <1>2 DEF MoneyInv, OnlyAdmittedHold, AdmissionInv, BooksTyped
  <1>4. PICK o : o = [operation[key] EXCEPT !.status = status]
    OBVIOUS
  <1>5. o.attempt = "none" /\ o.grantDay = 0
    BY <1>3, <1>4 DEF OperationRecords
  <1>6. operation' = [operation EXCEPT ![key] = o]
    BY <1>1, <1>4
  <1> QED
    BY <1>2, <1>5, <1>6, MoneyByVerdict

LEMMA MoneyByReview ==
  ASSUME AdmissionInv, AdmissionInv', MoneyInv, NEW t \in Transactions,
         CommitReject(t) \/ CheckExpiry(t) \/ DecideApprove(t) \/ CommitApprove(t)
  PROVE  MoneyGood
  <1>1. CASE CommitReject(t)
    BY <1>1, MoneyByReject DEF CommitReject, Reviews
  <1>2. CASE CheckExpiry(t)
    <2>1. tx[t].kind = "approve" /\ tx[t].pc = "expiry" /\ UNCHANGED <<buyingPower, canary>>
      BY <1>2 DEF CheckExpiry
    <2>2. CASE To(t, "ledger") /\ UNCHANGED operation
      <3>1. PICK r : r = [tx[t] EXCEPT !.pc = "ledger"]
        OBVIOUS
      <3>2. tx' = [tx EXCEPT ![t] = r] /\ r.pc = "ledger"
        <4>1. tx[t] \in About("approve", ApproveSteps)
          BY <2>1, TxTyped, KindOf
        <4> QED
          BY <2>2, <3>1, <4>1 DEF To, About
      <3> QED
        BY <2>1, <2>2, <3>2, WalksWithMoney, Same
    <2>3. CASE Ends(t) /\ operation' = [operation EXCEPT ![tx[t].key].status = "expired"]
      BY <2>1, <2>3, MoneyByReject DEF Reviews
    <2> QED
      BY <1>2, <2>2, <2>3 DEF CheckExpiry
  <1>3. CASE DecideApprove(t)
    <2>1. /\ tx[t].kind = "approve" /\ tx[t].pc = "decide"
          /\ UNCHANGED <<operation, buyingPower, canary, marketDay>>
          /\ \/ Ends(t)
             \/ /\ To(t, "halt") /\ ~CanaryRefuses(tx[t].request, tx[t].window)
                /\ "REJECT" \notin {Classify(tx[t].request, p, tx[t].window, t) :
                                      p \in {policies[tx[t].policy], ActivePolicy}}
      BY <1>3 DEF DecideApprove
    <2>2. PICK p : p = ActivePolicy
      OBVIOUS
    <2>3. CASE /\ To(t, "halt") /\ ~CanaryRefuses(tx[t].request, tx[t].window)
               /\ Classify(tx[t].request, p, tx[t].window, t) # "REJECT"
      BY <2>1, <2>3, MoneyByGoing
    <2> QED
      BY <2>1, <2>2, <2>3, EndsWithMoney, Same
  <1>4. CASE CommitApprove(t)
    <2>1. /\ tx[t].kind = "approve" /\ tx[t].pc = "commit" /\ Asks(t) /\ Reviews(t) /\ Ends(t)
          /\ UNCHANGED <<buyingPower, canary, marketDay>>
      BY <1>4 DEF CommitApprove, Asks, Reviews
    <2>2. CASE UNCHANGED operation
      BY <2>1, <2>2, EndsWithMoney, Same
    <2>3. ASSUME tx[t].window = marketDay, operation' = [operation EXCEPT ![tx[t].key] = Entitle(@, "approved")]
          PROVE  MoneyGood
      <3>1. PICK key \in Keys : key = tx[t].key
        BY <2>1, TxTyped, KindOf DEF About
      <3>2. operation[key].status = "pending_review" /\ operation[key].request = tx[t].request
        BY <2>1, <3>1, TxTyped DEF ReadFact
      <3>3. operation[key] \in OperationRecords
        BY DEF AdmissionInv, BooksTyped
      <3>4. PICK o : o = Entitle(operation[key], "approved")
        OBVIOUS
      <3>5. /\ o.request = tx[t].request /\ o.status = "approved" /\ o.grantDay = marketDay
            /\ o.attempt = "pending"
        BY <3>2, <3>3, <3>4, EntitledTyped, EntitledPending DEF Statuses
      <3>6. operation' = [operation EXCEPT ![key] = o]
        BY <2>3, <3>1, <3>4
      <3>7. tx[t].window = marketDay /\ operation[key].status \notin {"auto_approved", "approved"}
        BY <2>3, <3>2
      <3> QED
        BY <2>1, <3>5, <3>6, <3>7, MoneyByGrant
    <2> QED
      BY <1>4, <2>2, <2>3 DEF CommitApprove
  <1> QED
    BY <1>1, <1>2, <1>3, <1>4

-----------------------------------------------------------------------------
(* Everything else                                                         *)

LEMMA MoneyByAcquire ==
  ASSUME AdmissionInv, AdmissionInv', MoneyInv, NEW t \in Transactions, Acquire(t)
  PROVE  MoneyInv' /\ UNCHANGED operation
  <1>1. UNCHANGED <<operation, buyingPower, canary>> /\ tx[t].pc \in Locking
    BY DEF Acquire, books
  <1>2. CASE Ends(t)
    BY <1>1, <1>2, EndsWithMoney
  <1>3. CASE To(t, AfterLock(t))
    <2>1. PICK pc : pc = AfterLock(t)
      OBVIOUS
    <2>2. PICK r0 \in TxRecords : r0 = tx[t]
      BY TxTyped
    <2>3. PICK r : r = [r0 EXCEPT !.pc = pc]
      OBVIOUS
    <2>4. tx' = [tx EXCEPT ![t] = r]
      BY <1>3, <2>1, <2>2, <2>3 DEF To
    <2>5. r0 # Quiet
      BY <1>1, <2>2 DEF Locking, Quiet
    <2>6. CASE r0.kind \notin {"propose", "approve"}
      <3>1. r.kind \notin {"propose", "approve"}
        BY <2>2, <2>3, <2>5, <2>6, KindOf DEF About, Revising, Attesting, Governing, Reconciling
      <3> QED
        BY <1>1, <2>4, <3>1, WalksWithMoney
    <2>7. CASE r0.kind \in {"propose", "approve"}
      <3>1. r0 \in About("propose", ProposeSteps) \/ r0 \in About("approve", ApproveSteps)
        BY <2>2, <2>7, KindOf
      <3>2. /\ r.kind = r0.kind /\ r.pc = pc /\ r.request = r0.request
            /\ r.window = r0.window /\ r.buyingPower = r0.buyingPower
        BY <2>3, <3>1 DEF About
      <3>3. CASE r0.pc \in {"halt", "gate"}
        BY <1>1, <2>2, <2>4, <2>7, <3>2, <3>3, WalksWithMoney DEF Asks
      <3>4. CASE r0.pc \notin {"halt", "gate"}
        <4>1. r0.pc \in {"key", "row", "policy", "ledger"}
          BY <1>1, <2>2, <3>4 DEF Locking
        <4>2. pc \in {"policy", "ledger", "account", "expiry"}
          <5>1. CASE r0.kind = "propose"
            <6>1. r0.pc # "row"
              BY <2>2, <5>1, KindOf DEF About, ProposeSteps
            <6> QED
              BY <2>1, <2>2, <4>1, <5>1, <6>1 DEF AfterLock
          <5>2. CASE r0.kind = "approve"
            <6>1. r0.pc # "key"
              BY <2>2, <5>2, KindOf DEF About, ApproveSteps
            <6> QED
              BY <2>1, <2>2, <4>1, <5>2, <6>1 DEF AfterLock
          <5> QED
            BY <2>7, <5>1, <5>2
        <4> QED
          BY <1>1, <2>4, <3>2, <4>2, WalksWithMoney
      <3> QED
        BY <3>3, <3>4
    <2> QED
      BY <2>6, <2>7
  <1> QED
    BY <1>1, <1>2, <1>3 DEF Acquire

LEMMA MoneyByBegin ==
  ASSUME AdmissionInv, AdmissionInv', MoneyInv, NEW t \in Transactions, Begin(t)
  PROVE  MoneyInv' /\ UNCHANGED operation
  <1>1. UNCHANGED <<operation, buyingPower, canary>>
    BY DEF Begin, BeginPropose, BeginReview, BeginRevision, BeginAttestation, BeginPolicy, BeginReconcile, books
  <1>2. ASSUME NEW request, NEW quote, BeginPropose(t, request, quote) PROVE MoneyInv'
    <2>1. PICK r : r = [kind |-> "propose", pc |-> "key", key |-> request.key,
                        request |-> request, quote |-> quote, halted |-> haltActive,
                        buyingPower |-> 0, window |-> 0, policy |-> 0]
      OBVIOUS
    <2>2. tx' = [tx EXCEPT ![t] = r] /\ r.pc = "key"
      BY <1>2, <2>1 DEF BeginPropose
    <2> QED
      BY <1>1, <2>2, WalksWithMoney
  <1>3. ASSUME NEW k, NEW verdict, NEW quote, BeginReview(t, k, verdict, quote) PROVE MoneyInv'
    <2>1. PICK r : r = [kind |-> verdict, pc |-> "row", key |-> k,
                        request |-> operation[k].request, quote |-> quote, halted |-> haltActive,
                        buyingPower |-> 0, window |-> 0, policy |-> operation[k].policy]
      OBVIOUS
    <2>2. tx' = [tx EXCEPT ![t] = r] /\ r.pc = "row"
      BY <1>3, <2>1 DEF BeginReview
    <2> QED
      BY <1>1, <2>2, WalksWithMoney
  <1>4. ASSUME NEW a, NEW o, BeginRevision(t, a, o) PROVE MoneyInv'
    <2>1. PICK r : r = [kind |-> "revise", pc |-> "ledger", authority |-> a, override |-> o,
                        expected |-> Len(canary)]
      OBVIOUS
    <2>2. tx' = [tx EXCEPT ![t] = r] /\ r.kind = "revise"
      BY <1>4, <2>1 DEF BeginRevision
    <2> QED
      BY <1>1, <2>2, WalksWithMoney
  <1>5. ASSUME NEW d, BeginAttestation(t, d) PROVE MoneyInv'
    <2>1. PICK r : r = [kind |-> "attest", pc |-> "ledger", day |-> d, expected |-> Len(canary)]
      OBVIOUS
    <2>2. tx' = [tx EXCEPT ![t] = r] /\ r.kind = "attest"
      BY <1>5, <2>1 DEF BeginAttestation
    <2> QED
      BY <1>1, <2>2, WalksWithMoney
  <1>6. ASSUME NEW p, BeginPolicy(t, p) PROVE MoneyInv'
    <2>1. PICK r : r = [kind |-> "policy", pc |-> "policy", value |-> p, expected |-> Len(policies)]
      OBVIOUS
    <2>2. tx' = [tx EXCEPT ![t] = r] /\ r.kind = "policy"
      BY <1>6, <2>1 DEF BeginPolicy
    <2> QED
      BY <1>1, <2>2, WalksWithMoney
  <1>7. ASSUME BeginReconcile(t) PROVE MoneyInv'
    <2>1. PICK r : r = [kind |-> "reconcile", pc |-> "gate"]
      OBVIOUS
    <2>2. tx' = [tx EXCEPT ![t] = r] /\ r.kind = "reconcile"
      BY <1>7, <2>1 DEF BeginReconcile
    <2> QED
      BY <1>1, <2>2, WalksWithMoney
  <1> QED
    BY <1>1, <1>2, <1>3, <1>4, <1>5, <1>6, <1>7 DEF Begin

\* A transaction about no operation goes on to another of its steps.
LEMMA MoneyByWalking ==
  ASSUME AdmissionInv, AdmissionInv', MoneyInv, NEW t \in Transactions, NEW pc,
         tx[t].kind \in {"revise", "attest", "policy", "reconcile"}, To(t, pc),
         UNCHANGED <<operation, buyingPower, canary>>
  PROVE  MoneyInv'
  <1>1. PICK r : r = [tx[t] EXCEPT !.pc = pc]
    OBVIOUS
  <1>2. tx' = [tx EXCEPT ![t] = r]
    BY <1>1 DEF To
  <1>3. r.kind \notin {"propose", "approve"}
    BY <1>1, TxTyped, KindOf DEF Revising, Attesting, Governing, Reconciling
  <1> QED
    BY <1>2, <1>3, WalksWithMoney

LEMMA MoneyByGovernance ==
  ASSUME AdmissionInv, AdmissionInv', MoneyInv, NEW t \in Transactions,
         \/ DecideRevision(t) \/ CommitRevision(t) \/ DecideAttestation(t) \/ CommitAttestation(t)
         \/ CommitPolicy(t) \/ StepReconcile(t)
  PROVE  MoneyInv' /\ UNCHANGED operation
  <1>1. CASE DecideRevision(t) \/ CommitRevision(t)
    <2>1. /\ tx[t].kind = "revise" /\ tx[t].pc \in {"decide", "commit"} /\ UNCHANGED <<operation, buyingPower>>
          /\ Ends(t) \/ (To(t, "policy") /\ UNCHANGED canary)
      BY <1>1 DEF DecideRevision, CommitRevision
    <2>2. HasLedger(t)
      BY <2>1, TxTyped DEF LockFact
    <2> QED
      BY <2>1, <2>2, EndsRevised, MoneyByWalking
  <1>2. CASE DecideAttestation(t) \/ CommitAttestation(t)
    <2>1. /\ tx[t].kind = "attest" /\ UNCHANGED <<operation, buyingPower, canary>>
          /\ Ends(t) \/ To(t, "policy")
      BY <1>2 DEF DecideAttestation, CommitAttestation, books
    <2> QED
      BY <2>1, EndsWithMoney, MoneyByWalking
  <1>3. CASE CommitPolicy(t) \/ StepReconcile(t)
    <2>1. /\ tx[t].kind \in {"policy", "reconcile"} /\ UNCHANGED <<operation, buyingPower, canary>>
          /\ Ends(t) \/ To(t, "ledger")
      BY <1>3 DEF CommitPolicy, StepReconcile, books
    <2> QED
      BY <2>1, EndsWithMoney, MoneyByWalking
  <1> QED
    BY <1>1, <1>2, <1>3

LEMMA InitIsCovered == AdmissionInit => MoneyInv
  <1> SUFFICES ASSUME AdmissionInit PROVE MoneyInv
    OBVIOUS
  <1>1. OnlyAdmittedHold
    BY DEF AdmissionInit, NoOperation, OnlyAdmittedHold
  <1>2. SpendableIn(operation) = {}
    BY DEF AdmissionInit, NoOperation, SpendableIn
  <1>3. RiskIn(operation, {}) = 0
    <2>1. PICK f : f = [k \in Keys |-> operation[k].request.risk]
      OBVIOUS
    <2>2. PICK e : Sums(e, f, {}) /\ Total(f, {}) = e[{}]
      BY FS_EmptySet, TotalIsSums
    <2>3. e[{}] = 0
      BY <2>2 DEF Sums
    <2> QED
      BY <2>1, <2>2, <2>3, RiskIsTotal
  <1>4. NeverOverspent
    <2>1. buyingPower \in Nat
      BY InitKeepsInv DEF AdmissionInv, BooksTyped
    <2> QED
      BY <1>2, <1>3, <2>1, MoneyTerms
  <1>5. ASSUME NEW t \in Transactions PROVE MoneyFact(t)
    BY DEF AdmissionInit, MoneyFact, Asks, Quiet
  <1> QED
    BY <1>1, <1>4, <1>5 DEF MoneyInv

LEMMA NextIsCovered == AdmissionInv /\ AdmissionInv' /\ MoneyInv /\ [AdmissionNext]_admissionVars => MoneyGood
  <1> SUFFICES ASSUME AdmissionInv, AdmissionInv', MoneyInv, [AdmissionNext]_admissionVars PROVE MoneyGood
    OBVIOUS
  <1>1. ASSUME NEW t \in Transactions, Begin(t) PROVE MoneyGood
    BY <1>1, MoneyByBegin, Same
  <1>2. ASSUME NEW t \in Transactions, Proceed(t) PROVE MoneyGood
    BY <1>2, MoneyByAcquire, MoneyByReadAccount, MoneyByPropose, MoneyByReview, MoneyByGovernance, Same DEF Proceed
  <1>3. ASSUME NEW t \in Transactions, Rollback(t) PROVE MoneyGood
    BY <1>3, EndsWithMoney, Same DEF Rollback, books
  <1>4. ASSUME NEW k \in Keys,
               ClaimAttempt(k) \/ ResolveAttempt(k) \/ BrokerFills(k) \/ BookOrder(k) \/ ProposalExpires(k)
        PROVE  MoneyGood
    BY <1>4, MoneyByAttempt, MoneyByExpiry
  <1>5. CASE NextMarketDay \/ PnLDiverges \/ ActivateHalt \/ UNCHANGED admissionVars
    <2>1. UNCHANGED <<operation, buyingPower, canary, tx>>
      BY <1>5 DEF NextMarketDay, PnLDiverges, ActivateHalt, admissionVars
    <2> QED
      BY <2>1, MoneyStands, MoneyOutside, Same
  <1> QED
    BY <1>1, <1>2, <1>3, <1>4, <1>5 DEF AdmissionNext

LEMMA InvariantHolds == AdmissionSpec => [](AdmissionInv /\ MoneyInv)
  <1>1. AdmissionInv /\ MoneyInv /\ [AdmissionNext]_admissionVars => AdmissionInv' /\ MoneyInv'
    BY NextKeepsInv, NextIsCovered DEF Kept, MoneyGood
  <1> QED
    BY InitKeepsInv, InitIsCovered, <1>1, PTL DEF AdmissionSpec

-----------------------------------------------------------------------------
(* Theorems                                                                *)

\* One key, one request, one decision: a decided operation keeps its status and an
\* operation its request, whatever is retried, reviewed twice or rolled back
\* (propose, review, stageApprovedOpen).
THEOREM DecisionsStayFinal == AdmissionSpec => DecisionsAreFinal
  <1>1. AdmissionInv /\ [AdmissionNext]_admissionVars =>
          \A k \in Keys :
            /\ operation[k].status \notin {"absent", "pending_review"} =>
                 operation'[k].status = operation[k].status
            /\ operation[k].status # "absent" => operation'[k].request = operation[k].request
    BY NextKeepsInv DEF Kept, Writes
  <1> QED
    BY <1>1, InvariantHolds, PTL DEF AdmissionSpec, DecisionsAreFinal

\* An operation is bound to the policy revision that is active when it commits
\* (KernelPolicyAuthority).
THEOREM PolicyIsCurrent == AdmissionSpec => BoundToActivePolicy
  <1>1. AdmissionInv /\ [AdmissionNext]_admissionVars =>
          \A k \in Keys : operation[k].status = "absent" /\ operation'[k].status # "absent" =>
            operation'[k].policy = Len(policies)
    BY NextKeepsInv DEF Kept, Writes
  <1> QED
    BY <1>1, InvariantHolds, PTL DEF AdmissionSpec, BoundToActivePolicy

\* A grant fits the revision and the day it commits in and keeps the day within the
\* cap, although all three were read steps earlier (liveCanaryRefusal).
THEOREM GrantsStayWithinTheCanary == AdmissionSpec => GrantsWithinCanary
  <1>1. AdmissionInv /\ MoneyInv /\ [AdmissionNext]_admissionVars =>
          \A k \in Keys : Granted(operation'[k]) /\ ~Granted(operation[k]) =>
            /\ GrantUsage(marketDay)' <= ActiveCanary.authority.cap
            /\ operation'[k].revision = Len(canary) /\ operation'[k].grantDay = marketDay
            /\ TradesForDay(marketDay) = 0 => operation'[k].request.unit
    <2> SUFFICES ASSUME AdmissionInv, MoneyInv, [AdmissionNext]_admissionVars,
                        NEW k \in Keys, Granted(operation'[k]), ~Granted(operation[k])
                 PROVE  /\ GrantUsage(marketDay)' <= ActiveCanary.authority.cap
                        /\ operation'[k].revision = Len(canary) /\ operation'[k].grantDay = marketDay
                        /\ TradesForDay(marketDay) = 0 => operation'[k].request.unit
      OBVIOUS
    <2>1. operation'[k].grantDay # operation[k].grantDay
      BY DEF Granted
    <2>2. Kept
      BY NextKeepsInv
    <2>3. Fits(operation'[k])
      BY <2>1, <2>2 DEF Kept, Writes
    <2>4. MoneyGood
      BY <2>2, NextIsCovered DEF Kept
    <2>5. RiskIn(operation', Sized(operation', marketDay)) <= ActiveCanary.authority.cap
      BY <2>1, <2>4 DEF MoneyGood
    <2>6. marketDay' = marketDay
      <3>1. operation' # operation
        BY <2>1
      <3>2. ~NextMarketDay
        BY <3>1 DEF NextMarketDay
      <3>3. ASSUME NEW t, Proceed(t) PROVE marketDay' = marketDay
        BY <3>3 DEF Proceed, Acquire, ReadAccount, DecidePropose, CommitPropose, CommitReject, CheckExpiry,
           DecideApprove, CommitApprove, DecideRevision, CommitRevision, DecideAttestation, CommitAttestation,
           CommitPolicy, StepReconcile, books
      <3>4. ASSUME NEW t, Begin(t) \/ Rollback(t) PROVE marketDay' = marketDay
        BY <3>4 DEF Begin, BeginPropose, BeginReview, BeginRevision, BeginAttestation, BeginPolicy,
           BeginReconcile, Rollback, books
      <3>5. ASSUME NEW j, ClaimAttempt(j) \/ ResolveAttempt(j) \/ BrokerFills(j) \/ BookOrder(j) \/ ProposalExpires(j)
            PROVE  marketDay' = marketDay
        BY <3>5 DEF ClaimAttempt, ResolveAttempt, BrokerFills, BookOrder, MovesAttempt, ProposalExpires
      <3>6. PnLDiverges \/ ActivateHalt \/ UNCHANGED admissionVars => marketDay' = marketDay
        BY DEF PnLDiverges, ActivateHalt, admissionVars
      <3> QED
        BY <3>2, <3>3, <3>4, <3>5, <3>6 DEF AdmissionNext
    <2>7. GrantUsage(marketDay)' = RiskIn(operation', Sized(operation', marketDay))
      BY <2>6 DEF GrantUsage, RiskOf, RiskIn, Sized, MapThenSumSet, MapThenFoldSet
    <2> QED
      BY <2>3, <2>5, <2>7 DEF Fits
  <1> QED
    BY <1>1, InvariantHolds, PTL DEF AdmissionSpec, GrantsWithinCanary

\* Whatever fills, bookings and admissions race, the entitlements that can still be
\* spent are covered by the venue's buying power: an account read under the ledger
\* may be stale only by fills, and those no longer need what they have spent
\* (dayStateAtAccount, the stale snapshot named at main.go:949).
THEOREM NeverPromisesTooMuch == AdmissionSpec => []NeverOverspent
  <1>1. MoneyInv => NeverOverspent
    BY DEF MoneyInv
  <1> QED
    BY <1>1, InvariantHolds, PTL

\* Evidence that passed the check is of as many earned days.
LEMMA EligibleIsEarned ==
  ASSUME AdmissionInv, NEW new \in Authorities, Eligible(new)
  PROVE  Cardinality({d \in 1..(marketDay - 1) : EarnedDay(d, Len(canary))}) >= ActiveCanary.authority.clean
  <1>1. BooksTyped /\ OneAttestationADay
    BY DEF AdmissionInv
  <1>2. PICK clean \in Nat, asked \in Nat : clean = ActiveCanary.authority.clean /\ asked = new.clean
    <2>1. canary[Len(canary)] \in Revisions
      BY <1>1 DEF BooksTyped
    <2> QED
      BY <2>1, AdmissionConstants DEF ActiveCanary, Revisions
  <1>3. PICK required : required = Max({clean, asked})
    OBVIOUS
  <1>4. required \in Nat /\ required >= clean
    <2>1. \E x \in {clean, asked} : \A y \in {clean, asked} : x >= y
      OBVIOUS
    <2>2. required \in {clean, asked} /\ \A y \in {clean, asked} : required >= y
      BY <1>3, <2>1 DEF Max
    <2> QED
      BY <2>2
  <1>5. PICK mine : mine = {a \in attested : a.revision = Len(canary) /\ a.day >= ActiveCanary.day
                                               /\ a.day < marketDay}
    OBVIOUS
  <1>6. PICK evidence \in SUBSET mine :
          /\ Cardinality(evidence) = required
          /\ {d \in MarketDays : d < marketDay /\ \E a \in evidence : a.day <= d} \intersect diverged = {}
          /\ \A a \in evidence : CleanDay(a.day, Len(canary))
    BY <1>2, <1>3, <1>5 DEF Eligible
  <1>7. PICK days : days = {d \in 1..(marketDay - 1) : EarnedDay(d, Len(canary))}
    OBVIOUS
  <1>8. ASSUME NEW a \in evidence PROVE a.day \in days
    <2>1. a \in attested /\ a.day < marketDay /\ a.day \in MarketDays
      BY <1>1, <1>5, <1>6 DEF BooksTyped
    <2>2. a.day \in 1..(marketDay - 1) /\ a.day \in Nat
      <3>1. LastDay \in Nat
        BY AdmissionConstants
      <3>2. PICK d \in Nat, m \in Nat : d = a.day /\ m = marketDay /\ 1 <= d /\ d < m
        BY <1>1, <2>1, <3>1 DEF MarketDays, BooksTyped
      <3> QED
        BY <3>2
    <2>3. a.day \notin diverged
      <3>1. a.day <= a.day
        BY <2>2
      <3> QED
        BY <1>6, <2>1, <3>1
    <2>4. CleanDay(a.day, Len(canary))
      BY <1>6
    <2>5. EarnedDay(a.day, Len(canary))
      BY <2>3, <2>4 DEF CleanDay, EarnedDay
    <2> QED
      BY <1>7, <2>2, <2>5
  <1>9. IsFiniteSet(days)
    <2>1. IsFiniteSet(1..(marketDay - 1))
      BY <1>1, FS_Interval DEF BooksTyped
    <2>2. days \subseteq 1..(marketDay - 1)
      BY <1>7
    <2> QED
      BY <2>1, <2>2, FS_Subset
  <1>10. PICK f : f = [a \in evidence |-> a.day]
    OBVIOUS
  <1>11. f \in Injection(evidence, days)
    <2>1. f \in [evidence -> days]
      BY <1>8, <1>10
    <2>2. ASSUME NEW a \in evidence, NEW b \in evidence, f[a] = f[b] PROVE a = b
      BY <1>1, <1>5, <1>6, <1>10, <2>2 DEF OneAttestationADay
    <2> QED
      BY <2>1, <2>2 DEF Injection, IsInjective
  <1>12. Cardinality(evidence) <= Cardinality(days) /\ Cardinality(days) \in Nat
    BY <1>9, <1>11, FS_Injection, FS_CardinalityType
  <1> QED
    BY <1>2, <1>4, <1>6, <1>7, <1>12

\* A widening without the owner's override is earned by as many settled days under
\* the old revision as it asks, whatever is attested, revised or traded meanwhile
\* (eligibleLiveCanaryWideningEvidence).
THEOREM WideningIsEarned == AdmissionSpec => WideningEarned
  <1>1. AdmissionInv /\ [AdmissionNext]_admissionVars =>
          (canary' # canary /\ canary'[Len(canary')].change = "widen" =>
             Cardinality({d \in 1..(marketDay - 1) : EarnedDay(d, Len(canary))}) >= ActiveCanary.authority.clean)
    BY NextKeepsInv, EligibleIsEarned DEF Kept, Writes
  <1> QED
    BY <1>1, InvariantHolds, PTL DEF AdmissionSpec, WideningEarned
=============================================================================
