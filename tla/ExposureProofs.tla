--------------------------- MODULE ExposureProofs ---------------------------
(***************************************************************************)
(* Proofs about the exposure ledger, for every number of orders, every     *)
(* quantity and every holding: what the ledger writes off, sells and can   *)
(* import, however fills, people's trades, decisions, barriers and         *)
(* reconciliations interleave.                                             *)
(*                                                                         *)
(* The argument: the books of the broker and of the ledger balance;  a     *)
(* snapshot remembers the fills it saw;  the closes are covered by the     *)
(* account in the order of their decisions;  a reconciliation acts only on *)
(* a head that shows exactly the fills which are imported.                 *)
(***************************************************************************)
EXTENDS Exposure, SumTheorems

-----------------------------------------------------------------------------
(* The inductive invariant                                                 *)

OrderStates == {"new", "pending", "claimed", "sent", "working", "done", "failed"}
Live == {"pending", "claimed", "sent", "working"}
BrokerOrders == [st : {"none", "working", "ended", "rejected"}, filled : Nat]
Operations == [st : OrderStates, filled : Nat, held : Nat, decided : Nat, tracked : Nat, external : Nat,
               episode : BOOLEAN, usedTracked : Nat, usedExternal : Nat]
Readings == [pc : {"idle", "positions", "orders", "reconcile", "propose", "barrier", "over"},
             current : BOOLEAN, pos : Nat]
OrderLists == [Orders -> Nat \cup {None}]
Observations == [pos : Nat, orders : OrderLists, current : BOOLEAN, source : {"authority", "read_model"},
                 done : BOOLEAN, knows : SUBSET Closes]

StateTypes ==
    /\ start \in Holdings
    /\ position \in Nat /\ tracked \in Nat /\ reduced \in Nat
    /\ bought \in 0 .. start.buys /\ sold \in 0 .. start.sells
    /\ gate \in Closes \cup {None}
    /\ border \in [Orders -> BrokerOrders] /\ op \in [Orders -> Operations]
    /\ snap \in [Closes -> Readings] /\ look \in Readings
    /\ head \in Observations /\ cache \in [pos : Nat, orders : OrderLists]
    /\ importRefused \in BOOLEAN /\ byCache \in BOOLEAN

\* An order of the ledger and what the broker knows of it.
OrderFact(o) ==
    /\ op[o].filled <= border[o].filled /\ border[o].filled <= OrderQty[o]
    /\ border[o].st \in {"none", "rejected"} => border[o].filled = 0
    /\ border[o].st = "working" => border[o].filled < OrderQty[o]
    /\ op[o].st \in {"new", "pending", "claimed"} => border[o].st = "none"
    /\ op[o].st = "failed" => border[o].st \in {"none", "rejected"}
    /\ op[o].st = "sent" => op[o].filled = 0
    /\ op[o].st = "working" => border[o].st \in {"working", "ended"}
    /\ op[o].st = "done" => border[o].st = "ended" /\ op[o].filled = border[o].filled

OpenFact(o) ==
    /\ op[o].st \in {"working", "done", "failed"} /\ border[o].st # "rejected"
    /\ ~op[o].episode /\ op[o].tracked = 0 /\ op[o].external = 0

\* The reservation and the split of a close, and its hold of the gate.
CloseFact(c) ==
    /\ op[c].held = IF op[c].st \in Live THEN OrderQty[c] - op[c].filled ELSE 0
    /\ op[c].usedTracked + op[c].usedExternal = op[c].filled
    /\ op[c].usedTracked <= op[c].tracked /\ op[c].usedExternal <= op[c].external
    /\ op[c].tracked + op[c].external \in {0, OrderQty[c]}
    /\ op[c].st \in Live => op[c].tracked + op[c].external = OrderQty[c]
    /\ op[c].st = "new" => op[c].tracked = 0 /\ op[c].external = 0
    /\ ~op[c].episode => op[c].external = 0
    /\ op[c].st \in {"claimed", "sent"} <=> gate = c

\* What a close takes a snapshot for.
PurposeFact(c) ==
    /\ snap[c].pc \in {"positions", "orders"} => op[c].st \in {"new", "claimed"}
    /\ snap[c].pc \in {"reconcile", "propose"} => op[c].st = "new"
    /\ snap[c].pc = "barrier" => op[c].st = "claimed"

\* What the account gained by each order, as the ledger and as the broker has it.
Booked == [o \in Orders |-> IF o \in Opens THEN op[o].filled ELSE -op[o].filled]
Moved == [o \in Orders |-> IF o \in Opens THEN border[o].filled ELSE -border[o].filled]
Outside == [c \in Closes |-> op[c].usedExternal]

BooksBalance ==
    /\ position = (start.tracked + start.external + bought - sold) + Total(Moved, Orders)
    /\ tracked + reduced = start.tracked + Total(Booked, Orders) + Total(Outside, Closes)

\* Shares that stand behind the sell orders working at the broker.
Rest == [c \in Closes |-> IF border[c].st = "working" THEN OrderQty[c] - border[c].filled ELSE 0]

WriteOffsEarned == reduced <= Positive(sold + Total(Outside, Closes) - start.external) \/ byCache

\* While one close only was promised tracked shares, they are there.
PromiseKept ==
    ~byCache => \A c \in Closes :
        op[c].st \in Live /\ (\A d \in Closes \ {c} : op[d].tracked = 0) =>
            op[c].tracked - op[c].usedTracked <= tracked

\* A position read while the broker had made the fills F: none is imported that it lacks.
Fills(F) == [o \in Orders |-> IF o \in Opens THEN F[o] ELSE -F[o]]
Sees(pos, F) ==
    /\ \A o \in Orders : op[o].filled <= F[o] /\ F[o] <= border[o].filled
    /\ (start.tracked + start.external - sold) + Total(Fills(F), Orders) <= pos

SnapFact(c) ==
    snap[c].current /\ snap[c].pc = "orders" =>
        \E F \in [Orders -> Nat] :
            /\ Sees(snap[c].pos, F)
            /\ \A d \in Closes : op[d].st = "working" /\ border[d].st = "working" =>
                                   OrderQty[d] - F[d] <= snap[c].pos

HeadFact ==
    head.current =>
        /\ \A c \in Closes : op[c].st = "pending" => c \in head.knows
        /\ ~head.done /\ head.source = "authority" =>
             \E F \in [Orders -> Nat] :
                /\ Sees(head.pos, F)
                /\ \A o \in Orders : head.orders[o] # None =>
                     /\ F[o] <= head.orders[o]
                     /\ o \in Closes /\ op[o].st = "working" => OrderQty[o] - F[o] <= head.pos

\* What a close can still take out of the account, and those of rank k and less.
Rem(c) == IF border[c].st = "working" THEN OrderQty[c] - border[c].filled
          ELSE IF border[c].st = "none" /\ op[c].st \in {"pending", "claimed", "sent"} THEN OrderQty[c]
          ELSE 0
UpTo(rank, k) == [c \in Closes |-> IF rank[c] <= k THEN Rem(c) ELSE 0]

\* The broker will ask shares for the close, or its barrier found the position it
\* was decided on.
Pressing(c) ==
    \/ op[c].st \in {"sent", "working"}
    \/ op[c].st = "claimed" /\ snap[c].pc \in {"orders", "barrier"} /\ snap[c].pos = op[c].decided

\* Closes ranked by decision: each was decided on a position that covered those
\* before it, and the account covers all up to the last that is pressing.
Ranked(rank, k) ==
    /\ Total(UpTo(rank, k), Closes) <= position
    /\ \A c \in Closes : Rem(c) > 0 =>
         /\ Total(UpTo(rank, rank[c]), Closes) <= op[c].decided
         /\ Pressing(c) => rank[c] <= k

DecisionsCovered ==
    sold = 0 => /\ \A c \in Closes : border[c].st # "rejected"
                /\ \E rank \in [Closes -> Nat], k \in Nat : Ranked(rank, k)

\* Nobody else has shares and no opening order got any.
Alone == start.external + bought + sold = 0 /\ \A o \in Opens : border[o].filled = 0

AloneFact(c) ==
    Alone /\ ~byCache =>
        /\ snap[c].pc \in {"orders", "reconcile", "propose", "barrier"} => position <= snap[c].pos
        /\ op[c].external > 0 =>
             /\ op[c].st \in {"pending", "claimed", "failed"}
             /\ op[c].st \in {"pending", "claimed"} => position < op[c].decided
             /\ op[c].st = "claimed" /\ snap[c].pc \in {"orders", "barrier"} => snap[c].pos < op[c].decided

LedgerInv ==
    /\ \A o \in Orders : OrderFact(o)
    /\ \A o \in Opens : OpenFact(o)
    /\ \A c \in Closes : CloseFact(c)
    /\ BooksBalance
    /\ Total(Rest, Closes) <= position
    /\ WriteOffsEarned
    /\ PromiseKept
    /\ FillsAreImported

ExposureInv ==
    /\ StateTypes
    /\ LedgerInv
    /\ \A c \in Closes : PurposeFact(c)
    /\ \A c \in Closes : SnapFact(c)
    /\ HeadFact
    /\ DecisionsCovered
    /\ \A c \in Closes : AloneFact(c)

-----------------------------------------------------------------------------
(* Sums                                                                    *)

LEMMA OrdersFinite == IsFiniteSet(Orders) /\ IsFiniteSet(Closes) /\ Opens \cap Closes = {}
                      /\ None \notin Orders /\ None \notin Int /\ \A o \in Orders : OrderQty[o] \in Nat /\ OrderQty[o] > 0
  BY ExposureBounds, FS_Subset DEF Orders

LEMMA ZeroTotal ==
  ASSUME NEW S, IsFiniteSet(S), NEW f, \A x \in S : f[x] = 0
  PROVE  Total(f, S) = 0
  <1>1. PICK W : W = {}
    OBVIOUS
  <1>2. IsFiniteSet(W) /\ W \in SUBSET S /\ \A y \in W : f[y] \in Int
    BY <1>1, FS_EmptySet
  <1>3. Total(f, W) = 0
    BY <1>1, <1>2, TotalStep
  <1>4. Total(f, W) = Total(f, S)
    BY <1>1, <1>2, TotalPart
  <1> QED
    BY <1>3, <1>4

\* A total over the closes, or over all orders, when one of its terms changes.
LEMMA CloseChanges ==
  ASSUME NEW f, NEW g, NEW c \in Closes,
         \A d \in Closes : f[d] \in Int /\ g[d] \in Int /\ (d # c => f[d] = g[d])
  PROVE  Total(g, Closes) = (Total(f, Closes) - f[c]) + g[c] /\ Total(f, Closes) \in Int
  <1>1. IsFiniteSet(Closes)
    BY OrdersFinite
  <1>2. Total(g, Closes) = (Total(f, Closes) - f[c]) + g[c]
    BY <1>1, TotalChange
  <1>3. Total(f, Closes) \in Int
    BY <1>1, TotalStep
  <1> QED
    BY <1>2, <1>3

LEMMA OrderChanges ==
  ASSUME NEW f, NEW g, NEW x \in Orders,
         \A o \in Orders : f[o] \in Int /\ g[o] \in Int /\ (o # x => f[o] = g[o])
  PROVE  Total(g, Orders) = (Total(f, Orders) - f[x]) + g[x] /\ Total(f, Orders) \in Int
  <1>1. IsFiniteSet(Orders)
    BY OrdersFinite
  <1>2. Total(g, Orders) = (Total(f, Orders) - f[x]) + g[x]
    BY <1>1, TotalChange
  <1>3. Total(f, Orders) \in Int
    BY <1>1, TotalStep
  <1> QED
    BY <1>2, <1>3

\* The three sums of the model are totals.
LEMMA HeldIsTotal ==
  ASSUME NEW q, NEW f, f = [c \in Closes |-> q[c].held], NEW S \in SUBSET Closes,
         \A c \in Closes : q[c].held \in Int
  PROVE  MapThenSumSet(LAMBDA c : q[c].held, S) = Total(f, S)
  <1>0. IsFiniteSet(S) /\ \A c \in S : f[c] = q[c].held /\ f[c] \in Int
    BY OrdersFinite, FS_Subset
  <1>1. ASSUME NEW g
        PROVE  Sums(g, f, S) <=>
                 g = [s \in SUBSET S |-> IF s = {} THEN 0 ELSE q[Some(s)].held + g[s \ {Some(s)}]]
    <2>1. ASSUME NEW s \in SUBSET S
          PROVE  (IF s = {} THEN 0 ELSE f[Some(s)] + g[s \ {Some(s)}])
                   = IF s = {} THEN 0 ELSE q[Some(s)].held + g[s \ {Some(s)}]
      BY <1>0, SomeOf
    <2> QED
      BY <2>1 DEF Sums
  <1>2. PICK h : h = CHOOSE g :
          g = [s \in SUBSET S |-> IF s = {} THEN 0 ELSE q[Some(s)].held + g[s \ {Some(s)}]]
    OBVIOUS
  <1>3. Sums(h, f, S)
    BY <1>0, <1>1, <1>2, SumsExist
  <1>4. MapThenSumSet(LAMBDA c : q[c].held, S) = h[S]
    BY <1>2 DEF MapThenSumSet, MapThenFoldSet, Some
  <1>5. PICK e : Sums(e, f, S) /\ Total(f, S) = e[S]
    BY <1>0, TotalIsSums
  <1>6. S \in SUBSET S
    OBVIOUS
  <1>7. \A s \in SUBSET S : h[s] = e[s]
    BY <1>0, <1>3, <1>5, <1>6, SumsAgree
  <1> QED
    BY <1>4, <1>5, <1>6, <1>7

LEMMA OutsideIsTotal ==
  ASSUME NEW q, NEW f, f = [c \in Closes |-> q[c].usedExternal], \A c \in Closes : q[c].usedExternal \in Int
  PROVE  MapThenSumSet(LAMBDA c : q[c].usedExternal, Closes) = Total(f, Closes)
  <1>0. IsFiniteSet(Closes) /\ \A c \in Closes : f[c] = q[c].usedExternal /\ f[c] \in Int
    BY OrdersFinite
  <1>1. ASSUME NEW g
        PROVE  Sums(g, f, Closes) <=>
                 g = [s \in SUBSET Closes |->
                        IF s = {} THEN 0 ELSE q[Some(s)].usedExternal + g[s \ {Some(s)}]]
    <2>1. ASSUME NEW s \in SUBSET Closes
          PROVE  (IF s = {} THEN 0 ELSE f[Some(s)] + g[s \ {Some(s)}])
                   = IF s = {} THEN 0 ELSE q[Some(s)].usedExternal + g[s \ {Some(s)}]
      BY <1>0, SomeOf
    <2> QED
      BY <2>1 DEF Sums
  <1>2. PICK h : h = CHOOSE g :
          g = [s \in SUBSET Closes |-> IF s = {} THEN 0 ELSE q[Some(s)].usedExternal + g[s \ {Some(s)}]]
    OBVIOUS
  <1>3. Sums(h, f, Closes)
    BY <1>0, <1>1, <1>2, SumsExist
  <1>4. MapThenSumSet(LAMBDA c : q[c].usedExternal, Closes) = h[Closes]
    BY <1>2 DEF MapThenSumSet, MapThenFoldSet, Some
  <1>5. PICK e : Sums(e, f, Closes) /\ Total(f, Closes) = e[Closes]
    BY <1>0, TotalIsSums
  <1>6. Closes \in SUBSET Closes
    OBVIOUS
  <1>7. \A s \in SUBSET Closes : h[s] = e[s]
    BY <1>0, <1>3, <1>5, <1>6, SumsAgree
  <1> QED
    BY <1>4, <1>5, <1>6, <1>7

LEMMA RestIsTotal ==
  ASSUME NEW b, NEW f, f = [c \in Closes |-> OrderQty[c] - b[c].filled], NEW S \in SUBSET Closes,
         \A c \in Closes : b[c].filled \in Int
  PROVE  MapThenSumSet(LAMBDA c : OrderQty[c] - b[c].filled, S) = Total(f, S)
  <1>0. IsFiniteSet(S) /\ \A c \in S : f[c] = OrderQty[c] - b[c].filled /\ f[c] \in Int
    BY OrdersFinite, FS_Subset DEF Orders
  <1>1. ASSUME NEW g
        PROVE  Sums(g, f, S) <=>
                 g = [s \in SUBSET S |->
                        IF s = {} THEN 0 ELSE (OrderQty[Some(s)] - b[Some(s)].filled) + g[s \ {Some(s)}]]
    <2>1. ASSUME NEW s \in SUBSET S
          PROVE  (IF s = {} THEN 0 ELSE f[Some(s)] + g[s \ {Some(s)}])
                   = IF s = {} THEN 0 ELSE (OrderQty[Some(s)] - b[Some(s)].filled) + g[s \ {Some(s)}]
      BY <1>0, SomeOf
    <2> QED
      BY <2>1 DEF Sums
  <1>2. PICK h : h = CHOOSE g :
          g = [s \in SUBSET S |->
                 IF s = {} THEN 0 ELSE (OrderQty[Some(s)] - b[Some(s)].filled) + g[s \ {Some(s)}]]
    OBVIOUS
  <1>3. Sums(h, f, S)
    BY <1>0, <1>1, <1>2, SumsExist
  <1>4. MapThenSumSet(LAMBDA c : OrderQty[c] - b[c].filled, S) = h[S]
    BY <1>2 DEF MapThenSumSet, MapThenFoldSet, Some
  <1>5. PICK e : Sums(e, f, S) /\ Total(f, S) = e[S]
    BY <1>0, TotalIsSums
  <1>6. S \in SUBSET S
    OBVIOUS
  <1>7. \A s \in SUBSET S : h[s] = e[s]
    BY <1>0, <1>3, <1>5, <1>6, SumsAgree
  <1> QED
    BY <1>4, <1>5, <1>6, <1>7

-----------------------------------------------------------------------------
(* Frames                                                                  *)

LEMMA Typed ==
  ASSUME StateTypes
  PROVE  /\ start.tracked \in Nat /\ start.external \in Nat /\ start.buys \in Nat /\ start.sells \in Nat
         /\ bought \in Nat /\ sold \in Nat
         /\ \A o \in Orders :
              /\ op[o] \in Operations /\ op[o].st \in OrderStates /\ op[o].episode \in BOOLEAN
              /\ op[o].filled \in Nat /\ op[o].held \in Nat /\ op[o].decided \in Nat
              /\ op[o].tracked \in Nat /\ op[o].external \in Nat
              /\ op[o].usedTracked \in Nat /\ op[o].usedExternal \in Nat
              /\ border[o] \in BrokerOrders /\ border[o].filled \in Nat
              /\ border[o].st \in {"none", "working", "ended", "rejected"}
         /\ \A c \in Closes : /\ c \in Orders /\ snap[c] \in Readings /\ snap[c].pos \in Nat
                              /\ snap[c].current \in BOOLEAN
         /\ \A o \in Opens : o \in Orders
  <1>1. start \in AccountType
    BY ExposureBounds DEF StateTypes
  <1>2. start.tracked \in Nat /\ start.external \in Nat /\ start.buys \in Nat /\ start.sells \in Nat
    BY <1>1 DEF AccountType
  <1>3. \A o \in Orders : op[o] \in Operations /\ border[o] \in BrokerOrders
    BY DEF StateTypes
  <1>4. \A c \in Closes : c \in Orders /\ snap[c] \in Readings
    BY DEF StateTypes, Orders
  <1> QED
    BY <1>2, <1>3, <1>4 DEF StateTypes, Operations, BrokerOrders, Readings, Orders

\* A step that touches neither account nor ledger.
LEMMA LedgerKept ==
  ASSUME LedgerInv, UNCHANGED <<accountVars, ledgerVars, reduced, byCache>>
  PROVE  LedgerInv'
  <1>0. UNCHANGED <<position, border, bought, sold, start, tracked, op, gate, importRefused, reduced, byCache>>
    BY DEF accountVars, ledgerVars
  <1>1. Moved' = Moved /\ Booked' = Booked /\ Outside' = Outside /\ Rest' = Rest
    BY <1>0 DEF Moved, Booked, Outside, Rest
  <1>2. (\A o \in Orders : OrderFact(o)') /\ (\A o \in Opens : OpenFact(o)') /\ (\A c \in Closes : CloseFact(c)')
    BY <1>0 DEF LedgerInv, OrderFact, OpenFact, CloseFact
  <1>3. BooksBalance' /\ (Total(Rest, Closes) <= position)' /\ WriteOffsEarned'
    BY <1>0, <1>1 DEF LedgerInv, BooksBalance, WriteOffsEarned
  <1>4. PromiseKept' /\ FillsAreImported'
    BY <1>0 DEF LedgerInv, PromiseKept, FillsAreImported
  <1> QED
    BY <1>2, <1>3, <1>4 DEF LedgerInv

\* What the snapshots saw stays so while fills are not imported.
LEMMA SightKept ==
  ASSUME StateTypes, StateTypes', start' = start, sold <= sold',
         \A o \in Orders : op'[o].filled = op[o].filled /\ border[o].filled <= border'[o].filled,
         \A d \in Closes : /\ op'[d].st = "working" => op[d].st = "working"
                           /\ op'[d].st = "working" /\ border'[d].st = "working" => border[d].st = "working"
  PROVE  /\ \A c \in Closes : SnapFact(c) /\ (snap'[c].current /\ snap'[c].pc = "orders" => snap'[c] = snap[c])
                                => SnapFact(c)'
         /\ HeadFact /\ (head'.current => head' = head)
              /\ (\A c \in Closes : op'[c].st = "pending" => op[c].st = "pending") => HeadFact'
  <1>1. ASSUME NEW pos \in Nat, NEW F \in [Orders -> Nat], Sees(pos, F)
        PROVE  Sees(pos, F)'
    <2>1. Fills(F)' = Fills(F)
      BY DEF Fills
    <2>2. PICK total : total = Total(Fills(F), Orders)
      OBVIOUS
    <2>3. total \in Int
      <3>1. \A o \in Orders : Fills(F)[o] \in Int
        BY DEF Fills
      <3> QED
        BY <3>1, <2>2, OrdersFinite, TotalStep
    <2>4. (start.tracked + start.external - sold) + total <= pos
      BY <1>1, <2>2 DEF Sees
    <2>5. (start.tracked + start.external - sold') + total <= pos
      BY <2>3, <2>4, Typed DEF StateTypes
    <2>6. \A o \in Orders : op'[o].filled <= F[o] /\ F[o] <= border'[o].filled
      <3> SUFFICES ASSUME NEW o \in Orders PROVE op'[o].filled <= F[o] /\ F[o] <= border'[o].filled
        OBVIOUS
      <3>1. F[o] \in Nat /\ op[o].filled <= F[o] /\ F[o] <= border[o].filled
        BY <1>1 DEF Sees
      <3>2. border[o].filled \in Nat /\ border'[o].filled \in Nat
        BY Typed DEF StateTypes, BrokerOrders
      <3> QED
        BY <3>1, <3>2
    <2> QED
      BY <2>1, <2>2, <2>5, <2>6 DEF Sees
  <1>2. ASSUME NEW c \in Closes, SnapFact(c), snap'[c].current /\ snap'[c].pc = "orders" => snap'[c] = snap[c]
        PROVE  SnapFact(c)'
    <2> SUFFICES ASSUME snap'[c].current, snap'[c].pc = "orders"
                 PROVE  \E F \in [Orders -> Nat] :
                          /\ Sees(snap[c].pos, F)'
                          /\ \A d \in Closes : op'[d].st = "working" /\ border'[d].st = "working" =>
                                                 OrderQty[d] - F[d] <= snap[c].pos
      BY <1>2 DEF SnapFact, Sees
    <2>1. PICK F \in [Orders -> Nat] :
            /\ Sees(snap[c].pos, F)
            /\ \A d \in Closes : op[d].st = "working" /\ border[d].st = "working" =>
                                   OrderQty[d] - F[d] <= snap[c].pos
      BY <1>2 DEF SnapFact
    <2>2. snap[c].pos \in Nat
      BY Typed
    <2>3. PICK pos \in Nat : pos = snap[c].pos
      BY <2>2
    <2>4. Sees(pos, F)'
      BY <1>1, <2>1, <2>3
    <2>5. Sees(snap[c].pos, F)'
      BY <2>4, <2>3, <1>2 DEF Sees
    <2> QED
      BY <2>1, <2>5
  <1>3. ASSUME HeadFact, head'.current => head' = head,
               \A c \in Closes : op'[c].st = "pending" => op[c].st = "pending"
        PROVE  HeadFact'
    <2> SUFFICES ASSUME head'.current PROVE HeadFact'
      BY DEF HeadFact
    <2>1. head' = head /\ head.current
      BY <1>3
    <2>2. \A c \in Closes : op'[c].st = "pending" => c \in head'.knows
      BY <1>3, <2>1 DEF HeadFact
    <2>3. ASSUME ~head'.done, head'.source = "authority"
          PROVE  \E F \in [Orders -> Nat] :
                   /\ Sees(head.pos, F)'
                   /\ \A o \in Orders : head'.orders[o] # None =>
                        /\ F[o] <= head'.orders[o]
                        /\ o \in Closes /\ op'[o].st = "working" => OrderQty[o] - F[o] <= head'.pos
      <3>1. PICK F \in [Orders -> Nat] :
              /\ Sees(head.pos, F)
              /\ \A o \in Orders : head.orders[o] # None =>
                   /\ F[o] <= head.orders[o]
                   /\ o \in Closes /\ op[o].st = "working" => OrderQty[o] - F[o] <= head.pos
        BY <1>3, <2>1, <2>3 DEF HeadFact
      <3>2. PICK pos \in Nat : pos = head.pos
        BY DEF StateTypes, Observations
      <3>3. Sees(pos, F)'
        BY <1>1, <3>1, <3>2
      <3>4. Sees(head.pos, F)'
        BY <3>3, <3>2, <2>1 DEF Sees
      <3> QED
        BY <2>1, <3>1, <3>4
    <2> QED
      BY <2>2, <2>3 DEF HeadFact, Sees
  <1> QED
    BY <1>2, <1>3

\* The decisions stay covered while nothing new presses and nothing grows.
LEMMA DecisionsKept ==
  ASSUME StateTypes, StateTypes', DecisionsCovered, sold <= sold', position <= position',
         \A c \in Closes : /\ Rem(c) \in Nat /\ Rem(c)' \in Nat /\ Rem(c)' <= Rem(c)
                           /\ Rem(c)' > 0 => /\ op'[c].decided = op[c].decided
                                             /\ Pressing(c)' => Pressing(c)
                           /\ sold = 0 /\ border'[c].st = "rejected" => border[c].st = "rejected"
  PROVE  DecisionsCovered'
  <1> SUFFICES ASSUME sold' = 0
               PROVE  /\ \A c \in Closes : border'[c].st # "rejected"
                      /\ \E rank \in [Closes -> Nat], k \in Nat : Ranked(rank, k)'
    BY DEF DecisionsCovered
  <1>1. sold = 0
    BY Typed
  <1>2. PICK rank \in [Closes -> Nat], k \in Nat : Ranked(rank, k)
    BY <1>1 DEF DecisionsCovered
  <1>3. ASSUME NEW n \in Nat
        PROVE  /\ Total(UpTo(rank, n), Closes) \in Int /\ Total(UpTo(rank, n), Closes)' \in Int
               /\ Total(UpTo(rank, n), Closes)' <= Total(UpTo(rank, n), Closes)
    <2>1. PICK f : f = UpTo(rank, n)
      OBVIOUS
    <2>2. PICK g : g = UpTo(rank, n)'
      OBVIOUS
    <2>3. \A c \in Closes : f[c] \in Int /\ g[c] \in Int /\ g[c] <= f[c]
      BY <2>1, <2>2 DEF UpTo
    <2>4. Total(g, Closes) <= Total(f, Closes) /\ Total(f, Closes) \in Int /\ Total(g, Closes) \in Int
      BY <2>3, OrdersFinite, TotalOrder, TotalStep
    <2> QED
      BY <2>1, <2>2, <2>4
  <1>4. \A c \in Closes : rank[c] \in Nat
    OBVIOUS
  <1>5. (Total(UpTo(rank, k), Closes) <= position)'
    BY <1>2, <1>3 DEF Ranked, StateTypes
  <1>6. ASSUME NEW c \in Closes, Rem(c)' > 0
        PROVE  (Total(UpTo(rank, rank[c]), Closes) <= op[c].decided)' /\ (Pressing(c)' => rank[c] <= k)
    <2>1. Rem(c) > 0
      BY <1>6
    <2>2. Total(UpTo(rank, rank[c]), Closes) <= op[c].decided /\ (Pressing(c) => rank[c] <= k)
      BY <1>2, <2>1 DEF Ranked
    <2>3. op[c].decided \in Nat /\ op'[c].decided = op[c].decided
      BY <1>6, Typed
    <2>4. PICK n \in Nat : n = rank[c]
      BY <1>4
    <2>5. Total(UpTo(rank, n), Closes)' <= Total(UpTo(rank, n), Closes)
          /\ Total(UpTo(rank, n), Closes) \in Int /\ Total(UpTo(rank, n), Closes)' \in Int
      BY <1>3
    <2>6. Total(UpTo(rank, n), Closes)' <= op'[c].decided
      BY <2>2, <2>3, <2>4, <2>5
    <2> QED
      BY <2>2, <2>4, <2>6, <1>6
  <1>7. Ranked(rank, k)'
    BY <1>5, <1>6 DEF Ranked
  <1>8. \A c \in Closes : border'[c].st # "rejected"
    BY <1>1 DEF DecisionsCovered
  <1> QED
    BY <1>7, <1>8

LEMMA RemNat ==
  ASSUME StateTypes, NEW c \in Closes, OrderFact(c)
  PROVE  Rem(c) \in Nat /\ Rem(c) <= OrderQty[c]
  BY Typed, OrdersFinite DEF Rem, OrderFact

\* A step of a snapshot of one close, or of none.
LEMMA ReaderKeeps ==
  ASSUME ExposureInv, StateTypes', UNCHANGED <<accountVars, ledgerVars, reduced, byCache>>, NEW c,
         \A d \in Closes \ {c} : snap'[d] = snap[d],
         c \in Closes => PurposeFact(c)' /\ SnapFact(c)' /\ AloneFact(c)', HeadFact',
         DecisionsCovered'
  PROVE  ExposureInv'
  <1>1. UNCHANGED <<position, border, bought, sold, start, tracked, op, gate, importRefused, byCache>>
    BY DEF accountVars, ledgerVars
  <1>2. LedgerInv'
    BY LedgerKept DEF ExposureInv
  <1>3. ASSUME NEW d \in Closes, d # c PROVE PurposeFact(d)' /\ SnapFact(d)' /\ AloneFact(d)'
    <2>1. snap'[d] = snap[d]
      BY <1>3
    <2>2. PurposeFact(d)'
      BY <1>1, <2>1 DEF ExposureInv, PurposeFact
    <2>3. AloneFact(d)'
      BY <1>1, <2>1 DEF ExposureInv, AloneFact, Alone
    <2>4. \A o \in Orders : op'[o].filled = op[o].filled /\ border[o].filled <= border'[o].filled
      BY <1>1, Typed DEF ExposureInv
    <2>5. sold <= sold' /\ start' = start /\ StateTypes /\ SnapFact(d)
      BY <1>1, Typed DEF ExposureInv
    <2>6. \A e \in Closes : /\ op'[e].st = "working" => op[e].st = "working"
                            /\ op'[e].st = "working" /\ border'[e].st = "working" => border[e].st = "working"
      BY <1>1
    <2>7. SnapFact(d)'
      BY <2>1, <2>4, <2>5, <2>6, SightKept
    <2> QED
      BY <2>2, <2>3, <2>7
  <1>4. \A d \in Closes : PurposeFact(d)' /\ SnapFact(d)' /\ AloneFact(d)'
    BY <1>3
  <1> QED
    BY <1>2, <1>4 DEF ExposureInv

LEMMA ReaderHead ==
  ASSUME ExposureInv, StateTypes', UNCHANGED <<accountVars, ledgerVars>>, head' = head
  PROVE  HeadFact'
  <1>1. UNCHANGED <<position, border, bought, sold, start, op>>
    BY DEF accountVars, ledgerVars
  <1>2. \A o \in Orders : op'[o].filled = op[o].filled /\ border[o].filled <= border'[o].filled
    BY <1>1, Typed DEF ExposureInv
  <1>3. sold <= sold' /\ start' = start /\ StateTypes /\ HeadFact
    BY <1>1, Typed DEF ExposureInv
  <1>4. \A e \in Closes : /\ op'[e].st = "working" => op[e].st = "working"
                          /\ op'[e].st = "working" /\ border'[e].st = "working" => border[e].st = "working"
    BY <1>1
  <1> QED
    BY <1>1, <1>2, <1>3, <1>4, SightKept

LEMMA ReaderDecisions ==
  ASSUME ExposureInv, StateTypes', UNCHANGED <<accountVars, ledgerVars>>,
         \A c \in Closes : Pressing(c)' => Pressing(c)
  PROVE  DecisionsCovered'
  <1>1. UNCHANGED <<position, border, bought, sold, start, op>>
    BY DEF accountVars, ledgerVars
  <1>2. \A c \in Closes : Rem(c)' = Rem(c) /\ Rem(c) \in Nat
    BY <1>1, RemNat DEF Rem, ExposureInv, LedgerInv, Orders
  <1>3. \A c \in Closes : /\ Rem(c) \in Nat /\ Rem(c)' \in Nat /\ Rem(c)' <= Rem(c)
                          /\ Rem(c)' > 0 => /\ op'[c].decided = op[c].decided
                                            /\ Pressing(c)' => Pressing(c)
                          /\ sold = 0 /\ border'[c].st = "rejected" => border[c].st = "rejected"
    BY <1>1, <1>2
  <1>4. sold <= sold' /\ position <= position' /\ StateTypes /\ DecisionsCovered
    BY <1>1, Typed DEF ExposureInv, StateTypes
  <1> QED
    BY <1>3, <1>4, DecisionsKept

LEMMA WorkingOrdersTyped == StateTypes => WorkingOrders \in OrderLists
  BY Typed DEF WorkingOrders, OrderLists

LEMMA ReadGenerationKeeps ==
  ASSUME ExposureInv, NEW c \in Closes, ReadGeneration(c)
  PROVE  ExposureInv'
  <1>1. UNCHANGED <<accountVars, ledgerVars, reduced, byCache, head, look, looks, cache>>
        /\ snap' = [snap EXCEPT ![c] = [pc |-> "positions", current |-> TRUE, pos |-> 0]]
        /\ op[c].st \in {"new", "claimed"}
    BY DEF ReadGeneration, reconVars
  <1>2. StateTypes'
    BY <1>1 DEF ExposureInv, StateTypes, accountVars, ledgerVars, Readings
  <1>3. snap'[c].pc = "positions" /\ op' = op /\ \A d \in Closes \ {c} : snap'[d] = snap[d]
    BY <1>1 DEF ExposureInv, StateTypes, ledgerVars
  <1>4. PurposeFact(c)' /\ SnapFact(c)'
    BY <1>1, <1>3 DEF PurposeFact, SnapFact
  <1>5. AloneFact(c)'
    BY <1>1, <1>3 DEF ExposureInv, AloneFact, Alone, accountVars
  <1>6. \A d \in Closes : Pressing(d)' => Pressing(d)
    BY <1>3 DEF Pressing
  <1> QED
    BY <1>1, <1>2, <1>3, <1>4, <1>5, <1>6, ReaderHead, ReaderDecisions, ReaderKeeps

LEMMA RestLeavesRoom ==
  ASSUME StateTypes, \A o \in Orders : OrderFact(o), Total(Rest, Closes) <= position, NEW c \in Closes,
         border[c].st = "working"
  PROVE  OrderQty[c] - border[c].filled <= position
  <1>1. \A d \in Closes : Rest[d] \in Nat
    BY Typed, OrdersFinite DEF Rest, OrderFact
  <1>2. Rest[c] <= Total(Rest, Closes) /\ Total(Rest, Closes) \in Nat /\ Rest[c] \in Nat
    BY <1>1, OrdersFinite, TotalNat
  <1>3. Rest[c] = OrderQty[c] - border[c].filled
    BY DEF Rest
  <1>4. PICK r : r = Rest[c]
    OBVIOUS
  <1>5. r <= position
    BY <1>2, <1>4 DEF StateTypes
  <1> QED
    BY <1>3, <1>4, <1>5

\* The first read of a snapshot: what it saw is what the broker has now.
LEMMA ReadPositionsKeeps ==
  ASSUME ExposureInv, NEW c \in Closes, ReadPositions(c)
  PROVE  ExposureInv'
  <1>1. UNCHANGED <<accountVars, ledgerVars, reduced, byCache, head, look, looks>>
        /\ snap' = [snap EXCEPT ![c].pc = "orders", ![c].pos = position]
        /\ cache' = [cache EXCEPT !.pos = position] /\ snap[c].pc = "positions"
    BY DEF ReadPositions, reconVars
  <1>2. UNCHANGED <<position, border, bought, sold, start, tracked, op, gate>>
    BY <1>1 DEF accountVars, ledgerVars
  <1>3. snap'[c].pc = "orders" /\ snap'[c].pos = position /\ snap'[c].current = snap[c].current
        /\ snap' \in [Closes -> Readings] /\ \A d \in Closes \ {c} : snap'[d] = snap[d]
    BY <1>1 DEF ExposureInv, StateTypes, Readings
  <1>4. StateTypes'
    <2>1. cache' \in [pos : Nat, orders : OrderLists]
      BY <1>1 DEF ExposureInv, StateTypes
    <2> QED
      BY <1>1, <1>3, <2>1 DEF ExposureInv, StateTypes, accountVars, ledgerVars
  <1>5. PurposeFact(c)'
    BY <1>1, <1>2, <1>3 DEF ExposureInv, PurposeFact
  <1>6. SnapFact(c)'
    <2>1. PICK F : F = [o \in Orders |-> border[o].filled]
      OBVIOUS
    <2>2. F \in [Orders -> Nat] /\ \A o \in Orders : F[o] = border[o].filled
      BY <2>1, Typed DEF ExposureInv
    <2>3. Fills(F) = Moved
      BY <2>2 DEF Fills, Moved
    <2>4. position = (start.tracked + start.external + bought - sold) + Total(Moved, Orders)
          /\ Total(Moved, Orders) \in Int
      <3>1. \A o \in Orders : Moved[o] \in Int
        BY Typed DEF Moved, ExposureInv
      <3> QED
        BY <3>1, OrdersFinite, TotalStep DEF ExposureInv, LedgerInv, BooksBalance
    <2>5. (start.tracked + start.external - sold) + Total(Fills(F), Orders) <= position
      <3>1. PICK total \in Int : total = Total(Moved, Orders)
        BY <2>4
      <3>2. (start.tracked + start.external - sold) + total <= position
        BY <2>4, <3>1, Typed DEF ExposureInv
      <3> QED
        BY <2>3, <3>1, <3>2
    <2>6. \A o \in Orders : op[o].filled <= F[o] /\ F[o] <= border[o].filled
      BY <2>2, Typed DEF ExposureInv, LedgerInv, OrderFact
    <2>7. \A d \in Closes : border[d].st = "working" => OrderQty[d] - F[d] <= position
      BY <2>2, RestLeavesRoom DEF ExposureInv, LedgerInv, Orders
    <2>8. Fills(F)' = Fills(F)
      BY DEF Fills
    <2>9. Sees(snap[c].pos, F)'
      BY <1>2, <1>3, <2>5, <2>6, <2>8 DEF Sees
    <2> QED
      BY <1>2, <1>3, <2>2, <2>7, <2>9 DEF SnapFact
  <1>7. AloneFact(c)'
    BY <1>1, <1>2, <1>3, Typed DEF ExposureInv, AloneFact, Alone, StateTypes
  <1>8. DecisionsCovered'
    <2> SUFFICES ASSUME sold = 0
                 PROVE  \E rank \in [Closes -> Nat], k \in Nat : Ranked(rank, k)'
      BY <1>2 DEF ExposureInv, DecisionsCovered
    <2>1. PICK rank \in [Closes -> Nat], k \in Nat : Ranked(rank, k)
      BY DEF ExposureInv, DecisionsCovered
    <2>2. \A d \in Closes : Rem(d)' = Rem(d)
      BY <1>2 DEF Rem
    <2>3. \A n \in Nat : UpTo(rank, n)' = UpTo(rank, n)
      BY <2>2 DEF UpTo
    <2>4. \A d \in Closes \ {c} : Pressing(d)' => Pressing(d)
      BY <1>2, <1>3 DEF Pressing
    <2>5. \A d \in Closes : rank[d] \in Nat
      OBVIOUS
    <2>6. CASE Rem(c) = 0 \/ rank[c] <= k \/ ~Pressing(c)'
      <3>1. Ranked(rank, k)'
        BY <1>2, <2>1, <2>2, <2>3, <2>4, <2>5, <2>6 DEF Ranked
      <3> QED
        BY <3>1
    <2>7. CASE Rem(c) > 0 /\ rank[c] > k /\ Pressing(c)'
      <3>1. PICK m \in Nat : m = rank[c]
        BY <2>5
      <3>2. position = op[c].decided
        <4>1. ~Pressing(c)
          BY <2>1, <2>5, <2>7 DEF Ranked
        <4> QED
          BY <1>2, <1>3, <2>7, <4>1 DEF Pressing
      <3>3. Total(UpTo(rank, m), Closes) <= op[c].decided
        BY <2>1, <2>7, <3>1 DEF Ranked
      <3>4. Total(UpTo(rank, m), Closes)' <= position'
        BY <1>2, <2>3, <3>2, <3>3
      <3>5. \A d \in Closes : Rem(d)' > 0 => (Total(UpTo(rank, rank[d]), Closes) <= op[d].decided)'
        <4> SUFFICES ASSUME NEW d \in Closes, Rem(d) > 0
                     PROVE  (Total(UpTo(rank, rank[d]), Closes) <= op[d].decided)'
          BY <2>2
        <4>1. Total(UpTo(rank, rank[d]), Closes) <= op[d].decided
          BY <2>1 DEF Ranked
        <4>2. UpTo(rank, rank[d])' = UpTo(rank, rank[d])
          BY <2>3, <2>5
        <4> QED
          BY <1>2, <4>1, <4>2
      <3>6. \A d \in Closes : Rem(d)' > 0 /\ Pressing(d)' => rank[d] <= m
        BY <2>1, <2>2, <2>4, <2>5, <2>7, <3>1 DEF Ranked
      <3>7. Ranked(rank, m)'
        BY <3>4, <3>5, <3>6 DEF Ranked
      <3> QED
        BY <3>7
    <2>8. Rem(c) \in Nat
      BY RemNat DEF ExposureInv, LedgerInv, Orders
    <2> QED
      BY <2>5, <2>6, <2>7, <2>8
  <1>9. HeadFact'
    BY <1>1, <1>4, ReaderHead
  <1> QED
    BY <1>1, <1>3, <1>4, <1>5, <1>6, <1>7, <1>8, <1>9, ReaderKeeps

\* The second read: the observation becomes the head with what the first one saw.
LEMMA RecordObservationKeeps ==
  ASSUME ExposureInv, NEW c \in Closes, RecordObservation(c)
  PROVE  ExposureInv'
  <1>1. UNCHANGED <<accountVars, ledgerVars, reduced, byCache, look, looks>>
        /\ snap' = [snap EXCEPT ![c].pc = AfterSnapshot(c)]
        /\ cache' = [cache EXCEPT !.orders = WorkingOrders] /\ snap[c].pc = "orders"
        /\ head' = Snapshot(snap[c].pos, WorkingOrders, snap[c].current, "authority")
    BY DEF RecordObservation
  <1>2. UNCHANGED <<position, border, bought, sold, start, tracked, op, gate>>
    BY <1>1 DEF accountVars, ledgerVars
  <1>3. snap'[c].pc = AfterSnapshot(c) /\ snap'[c].pos = snap[c].pos /\ AfterSnapshot(c) \in {"reconcile", "barrier"}
        /\ snap' \in [Closes -> Readings] /\ \A d \in Closes \ {c} : snap'[d] = snap[d]
    BY <1>1 DEF ExposureInv, StateTypes, Readings, AfterSnapshot
  <1>4. head'.pos = snap[c].pos /\ head'.orders = WorkingOrders /\ head'.current = snap[c].current
        /\ head'.knows = {d \in Closes : op[d].st # "new"} /\ head' \in Observations
    BY <1>1, Typed, WorkingOrdersTyped DEF ExposureInv, Snapshot, Observations
  <1>5. StateTypes'
    <2>1. cache' \in [pos : Nat, orders : OrderLists]
      BY <1>1, WorkingOrdersTyped DEF ExposureInv, StateTypes
    <2> QED
      BY <1>1, <1>3, <1>4, <2>1 DEF ExposureInv, StateTypes, accountVars, ledgerVars
  <1>6. op[c].st \in {"new", "claimed"}
    BY <1>1 DEF ExposureInv, PurposeFact
  <1>7. PurposeFact(c)' /\ SnapFact(c)'
    BY <1>2, <1>3, <1>6 DEF PurposeFact, SnapFact, AfterSnapshot
  <1>8. AloneFact(c)'
    BY <1>1, <1>2, <1>3 DEF ExposureInv, AloneFact, Alone
  <1>9. DecisionsCovered'
    <2>1. \A d \in Closes : Pressing(d)' => Pressing(d)
      BY <1>1, <1>2, <1>3 DEF Pressing
    <2> QED
      BY <1>1, <1>5, <2>1, ReaderDecisions
  <1>10. HeadFact'
    <2> SUFFICES ASSUME snap[c].current
                 PROVE  /\ \A d \in Closes : op[d].st = "pending" => d \in head'.knows
                        /\ \E F \in [Orders -> Nat] :
                             /\ Sees(head.pos, F)'
                             /\ \A o \in Orders : head'.orders[o] # None =>
                                  /\ F[o] <= head'.orders[o]
                                  /\ o \in Closes /\ op[o].st = "working" => OrderQty[o] - F[o] <= head'.pos
      BY <1>2, <1>4 DEF HeadFact
    <2>1. PICK F \in [Orders -> Nat] :
            /\ Sees(snap[c].pos, F)
            /\ \A d \in Closes : op[d].st = "working" /\ border[d].st = "working" =>
                                   OrderQty[d] - F[d] <= snap[c].pos
      BY <1>1 DEF ExposureInv, SnapFact
    <2>2. Fills(F)' = Fills(F)
      BY DEF Fills
    <2>3. Sees(head.pos, F)'
      BY <1>2, <1>4, <2>1, <2>2 DEF Sees
    <2>4. ASSUME NEW o \in Orders, head'.orders[o] # None
          PROVE  /\ F[o] <= head'.orders[o]
                 /\ o \in Closes /\ op[o].st = "working" => OrderQty[o] - F[o] <= head'.pos
      <3>1. border[o].st = "working" /\ head'.orders[o] = border[o].filled
        BY <1>4, <2>4 DEF WorkingOrders
      <3>2. F[o] <= border[o].filled
        BY <2>1 DEF Sees
      <3> QED
        BY <1>4, <2>1, <3>1, <3>2
    <2> QED
      BY <1>4, <2>3, <2>4
  <1> QED
    BY <1>1, <1>3, <1>5, <1>7, <1>8, <1>9, <1>10, ReaderKeeps

\* A snapshot that is put down, or goes on to the proposal.
LEMMA SnapshotMovesOn ==
  ASSUME ExposureInv, NEW c \in Closes, UNCHANGED <<accountVars, ledgerVars, reconVars, look, looks, cache>>,
         NEW r \in Readings, snap' = [snap EXCEPT ![c] = r],
         r.pc = "idle" \/ (r.pc = "propose" /\ r.pos = snap[c].pos /\ snap[c].pc = "reconcile")
  PROVE  ExposureInv'
  <1>1. UNCHANGED <<accountVars, ledgerVars, reduced, byCache, head>>
    BY DEF reconVars
  <1>2. UNCHANGED <<position, border, bought, sold, start, tracked, op, gate>>
    BY DEF accountVars, ledgerVars
  <1>3. snap'[c] = r /\ snap' \in [Closes -> Readings] /\ \A d \in Closes \ {c} : snap'[d] = snap[d]
    BY DEF ExposureInv, StateTypes
  <1>4. StateTypes'
    BY <1>1, <1>3 DEF ExposureInv, StateTypes, accountVars, ledgerVars
  <1>5. PurposeFact(c)' /\ SnapFact(c)'
    BY <1>2, <1>3 DEF ExposureInv, PurposeFact, SnapFact
  <1>6. AloneFact(c)'
    BY <1>1, <1>2, <1>3 DEF ExposureInv, AloneFact, Alone
  <1>7. \A d \in Closes : Pressing(d)' => Pressing(d)
    BY <1>2, <1>3 DEF Pressing
  <1>8. DecisionsCovered' /\ HeadFact'
    BY <1>1, <1>4, <1>7, ReaderDecisions, ReaderHead
  <1> QED
    BY <1>1, <1>3, <1>4, <1>5, <1>6, <1>8, ReaderKeeps

LEMMA SkippedKeeps ==
  ASSUME ExposureInv, NEW c \in Closes, ReconcileSkipped(c) \/ ProposeRefused(c)
  PROVE  ExposureInv'
  <1>1. CASE ReconcileSkipped(c)
    <2>1. PICK r : r = [snap[c] EXCEPT !.pc = "propose"]
      OBVIOUS
    <2>2. r \in Readings /\ r.pc = "propose" /\ r.pos = snap[c].pos /\ snap[c].pc = "reconcile"
      BY <1>1, <2>1 DEF ExposureInv, StateTypes, Readings, ReconcileSkipped
    <2>3. snap' = [snap EXCEPT ![c] = r]
      BY <1>1, <2>1 DEF ReconcileSkipped, ExposureInv, StateTypes
    <2> QED
      BY <1>1, <2>2, <2>3, SnapshotMovesOn DEF ReconcileSkipped
  <1>2. CASE ProposeRefused(c)
    <2>1. PICK r : r = [pc |-> "idle", current |-> FALSE, pos |-> 0]
      OBVIOUS
    <2>2. r \in Readings /\ r.pc = "idle"
      BY <2>1 DEF Readings
    <2> QED
      BY <1>2, <2>1, <2>2, SnapshotMovesOn DEF ProposeRefused
  <1> QED
    BY <1>1, <1>2

\* A read-model request: its observation, if it is the head, is no authority.
LEMMA LookKeeps ==
  ASSUME ExposureInv, LookStep
  PROVE  ExposureInv'
  <1>1. UNCHANGED <<accountVars, ledgerVars, reduced, byCache, snap>>
    BY DEF LookStep, LookBegins, LookAtPositions, LookRecords, reconVars
  <1>2. UNCHANGED <<position, border, bought, sold, start, tracked, op, gate, importRefused>>
    BY <1>1 DEF accountVars, ledgerVars
  <1>3. look' \in Readings /\ cache' \in [pos : Nat, orders : OrderLists]
    <2>1. CASE LookBegins
      BY <2>1 DEF ExposureInv, StateTypes, LookBegins, Readings
    <2>2. CASE LookAtPositions
      <3>1. PICK pos \in {cache.pos, position} :
              look' = [look EXCEPT !.pc = "orders", !.pos = pos] /\ cache' = [cache EXCEPT !.pos = pos]
        BY <2>2 DEF LookAtPositions
      <3>2. pos \in Nat
        BY <3>1 DEF ExposureInv, StateTypes
      <3> QED
        BY <3>1, <3>2 DEF ExposureInv, StateTypes, Readings
    <2>3. CASE LookRecords
      <3>1. PICK orders \in {cache.orders, WorkingOrders} : cache' = [cache EXCEPT !.orders = orders]
        BY <2>3 DEF LookRecords
      <3>2. orders \in OrderLists
        BY <3>1, WorkingOrdersTyped DEF ExposureInv, StateTypes
      <3>3. look' = [look EXCEPT !.pc = "idle"]
        BY <2>3 DEF LookRecords
      <3> QED
        BY <3>1, <3>2, <3>3 DEF ExposureInv, StateTypes, Readings
    <2> QED
      BY <2>1, <2>2, <2>3 DEF LookStep
  <1>4. head' = head \/ (/\ head' \in Observations /\ head'.source = "read_model"
                         /\ head'.knows = {d \in Closes : op[d].st # "new"})
    <2>1. CASE LookRecords
      <3>1. PICK orders \in {cache.orders, WorkingOrders} :
              head' = Snapshot(look.pos, orders, look.current, "read_model")
        BY <2>1 DEF LookRecords
      <3>2. orders \in OrderLists /\ look.pos \in Nat /\ look.current \in BOOLEAN
        BY <3>1, WorkingOrdersTyped DEF ExposureInv, StateTypes, Readings
      <3> QED
        BY <3>1, <3>2 DEF Snapshot, Observations
    <2>2. CASE LookBegins \/ LookAtPositions
      BY <2>2 DEF LookBegins, LookAtPositions, reconVars
    <2> QED
      BY <2>1, <2>2 DEF LookStep
  <1>5. StateTypes'
    <2>1. head' \in Observations
      BY <1>4 DEF ExposureInv, StateTypes
    <2> QED
      BY <1>1, <1>2, <1>3, <2>1 DEF ExposureInv, StateTypes
  <1>6. HeadFact'
    <2>1. CASE head' = head
      BY <1>1, <1>5, <2>1, ReaderHead
    <2>2. CASE head'.source = "read_model" /\ head'.knows = {d \in Closes : op[d].st # "new"}
      BY <1>2, <2>2 DEF HeadFact
    <2> QED
      BY <1>4, <2>1, <2>2
  <1>7. DecisionsCovered'
    <2>1. \A c \in Closes : Pressing(c)' => Pressing(c)
      BY <1>1, <1>2 DEF Pressing
    <2> QED
      BY <1>1, <1>5, <2>1, ReaderDecisions
  <1>8. None \notin Closes /\ \A d \in Closes \ {None} : snap'[d] = snap[d]
    BY <1>1, OrdersFinite DEF Orders
  <1> QED
    BY <1>1, <1>5, <1>6, <1>7, <1>8, ReaderKeeps

-----------------------------------------------------------------------------
(* The broker and the people                                               *)

LEMMA RestingIsTotal ==
  ASSUME StateTypes, \A o \in Orders : OrderFact(o)
  PROVE  Resting = Total(Rest, Closes) /\ Total(Rest, Closes) \in Nat /\ \A c \in Closes : Rest[c] \in Nat
  <1>1. PICK f : f = [c \in Closes |-> OrderQty[c] - border[c].filled]
    OBVIOUS
  <1>2. PICK W \in SUBSET Closes : W = {c \in Closes : border[c].st = "working"}
    OBVIOUS
  <1>3. \A c \in Closes : border[c].filled \in Int /\ OrderQty[c] \in Int
    BY Typed, OrdersFinite
  <1>4. MapThenSumSet(LAMBDA c : OrderQty[c] - border[c].filled, W) = Total(f, W)
    BY <1>1, <1>3, RestIsTotal
  <1>5. PICK g : g = Rest
    OBVIOUS
  <1>6. (\A c \in W : f[c] \in Int /\ g[c] = f[c]) /\ \A c \in Closes \ W : g[c] = 0
    BY <1>1, <1>2, <1>3, <1>5 DEF Rest
  <1>7. Total(f, W) = Total(g, Closes)
    BY <1>6, OrdersFinite, TotalPart
  <1>8. \A c \in Closes : g[c] \in Nat
    BY <1>5, Typed, OrdersFinite DEF Rest, OrderFact
  <1>9. Total(g, Closes) \in Nat
    BY <1>8, OrdersFinite, TotalNat
  <1> QED
    BY <1>2, <1>4, <1>5, <1>7, <1>8, <1>9 DEF Resting

\* A step of the account alone.
LEMMA AccountKeeps ==
  ASSUME ExposureInv, StateTypes', UNCHANGED <<start, ledgerVars, reconVars, readVars>>,
         bought <= bought', sold <= sold', Alone' => position' <= position,
         \A o \in Orders : border[o].filled <= border'[o].filled,
         \A d \in Closes : op[d].st = "working" /\ border'[d].st = "working" => border[d].st = "working",
         \A o \in Orders : OrderFact(o)', \A o \in Opens : border'[o].st # "rejected",
         BooksBalance', (Total(Rest, Closes) <= position)', DecisionsCovered'
  PROVE  ExposureInv'
  <1>1. UNCHANGED <<start, tracked, op, gate, importRefused, head, reduced, byCache, snap>>
    BY DEF ledgerVars, reconVars, readVars
  <1>2. (\A o \in Opens : OpenFact(o)') /\ \A c \in Closes : CloseFact(c)' /\ PurposeFact(c)'
    BY <1>1 DEF ExposureInv, LedgerInv, OpenFact, CloseFact, PurposeFact
  <1>3. Outside' = Outside
    BY <1>1 DEF Outside
  <1>4. Total(Outside, Closes) \in Int
    <2>1. \A c \in Closes : Outside[c] \in Int
      BY Typed DEF ExposureInv, Outside
    <2> QED
      BY <2>1, OrdersFinite, TotalStep
  <1>5. WriteOffsEarned'
    <2>1. PICK x \in Int : x = Total(Outside, Closes)
      BY <1>4
    <2>2. reduced <= Positive(sold + x - start.external) \/ byCache
      BY <2>1 DEF ExposureInv, LedgerInv, WriteOffsEarned
    <2>3. reduced <= Positive(sold' + x - start.external) \/ byCache
      BY <2>1, <2>2, Typed DEF ExposureInv, StateTypes, Positive
    <2> QED
      BY <1>1, <1>3, <2>1, <2>3 DEF WriteOffsEarned
  <1>6. PromiseKept'
    BY <1>1 DEF ExposureInv, LedgerInv, PromiseKept
  <1>7. FillsAreImported'
    <2>1. FillsAreImported
      BY DEF ExposureInv, LedgerInv
    <2>2. start.external + bought > 0 => start.external + bought' > 0
      BY Typed DEF ExposureInv, StateTypes
    <2>3. \A o \in Opens : border[o].filled > 0 => border'[o].filled > 0
      BY Typed DEF ExposureInv, StateTypes, BrokerOrders
    <2> QED
      BY <1>1, <2>1, <2>2, <2>3 DEF FillsAreImported
  <1>8. Alone' => Alone /\ position' <= position
    <2>1. \A o \in Opens : border'[o].filled = 0 => border[o].filled = 0
      BY Typed DEF ExposureInv
    <2>2. start.external + bought' + sold' = 0 => start.external + bought + sold = 0
      <3>1. bought' \in Nat /\ sold' \in Nat
        BY <1>1, Typed DEF ExposureInv, StateTypes
      <3>2. start.external \in Nat /\ bought \in Nat /\ sold \in Nat
        BY Typed DEF ExposureInv
      <3>3. \A e, b, s, b2, s2 \in Nat : b <= b2 /\ s <= s2 /\ (e + b2 + s2 = 0) => (e + b + s = 0)
        OBVIOUS
      <3> QED
        BY <3>1, <3>2, <3>3
    <2> QED
      BY <1>1, <2>1, <2>2 DEF Alone
  <1>9. ASSUME NEW c \in Closes PROVE AloneFact(c)'
    <2>1. AloneFact(c)
      BY DEF ExposureInv
    <2>2. snap[c].pos \in Nat /\ op[c].decided \in Nat /\ position \in Nat /\ position' \in Nat
      BY Typed DEF ExposureInv, StateTypes
    <2> QED
      BY <1>1, <1>8, <2>1, <2>2 DEF AloneFact
  <1>10. (\A c \in Closes : SnapFact(c)') /\ HeadFact'
    <2>1. \A o \in Orders : op'[o].filled = op[o].filled /\ border[o].filled <= border'[o].filled
      BY <1>1
    <2>2. \A d \in Closes : /\ op'[d].st = "working" => op[d].st = "working"
                            /\ op'[d].st = "working" /\ border'[d].st = "working" => border[d].st = "working"
      BY <1>1
    <2>3. StateTypes /\ start' = start /\ (\A c \in Closes : SnapFact(c)) /\ HeadFact
      BY <1>1 DEF ExposureInv
    <2> QED
      BY <1>1, <2>1, <2>2, <2>3, SightKept
  <1> QED
    BY <1>2, <1>5, <1>6, <1>7, <1>9, <1>10 DEF ExposureInv, LedgerInv

\* The decisions stay covered when the account grows or an order at the broker ends.
LEMMA AccountDecisions ==
  ASSUME ExposureInv, StateTypes', UNCHANGED <<op, snap>>, sold <= sold', position <= position',
         \A c \in Closes : /\ Rem(c)' \in Nat /\ Rem(c)' <= Rem(c)
                           /\ sold = 0 /\ border'[c].st = "rejected" => border[c].st = "rejected"
  PROVE  DecisionsCovered'
  <1>1. \A c \in Closes : Rem(c) \in Nat
    BY RemNat DEF ExposureInv, LedgerInv, Orders
  <1>2. \A c \in Closes : /\ Rem(c) \in Nat /\ Rem(c)' \in Nat /\ Rem(c)' <= Rem(c)
                          /\ Rem(c)' > 0 => /\ op'[c].decided = op[c].decided
                                            /\ Pressing(c)' => Pressing(c)
                          /\ sold = 0 /\ border'[c].st = "rejected" => border[c].st = "rejected"
    BY <1>1 DEF Pressing
  <1> QED
    BY <1>2, DecisionsKept DEF ExposureInv

LEMMA HumansKeep ==
  ASSUME ExposureInv, HumanBuys \/ HumanSells
  PROVE  ExposureInv'
  <1>1. UNCHANGED <<border, start, ledgerVars, reconVars, readVars>>
    BY DEF HumanBuys, HumanSells
  <1>2. \/ bought < start.buys /\ position' = position + 1 /\ bought' = bought + 1 /\ sold' = sold
        \/ sold < start.sells /\ position > Resting /\ position' = position - 1 /\ sold' = sold + 1
             /\ bought' = bought
    BY DEF HumanBuys, HumanSells
  <1>3. UNCHANGED <<start, tracked, op, gate, importRefused, head, reduced, byCache, snap, look, cache>>
    BY <1>1 DEF ledgerVars, reconVars, readVars
  <1>4. Resting = Total(Rest, Closes) /\ Total(Rest, Closes) \in Nat
    BY RestingIsTotal DEF ExposureInv, LedgerInv
  <1>5. StateTypes'
    BY <1>1, <1>2, <1>3, <1>4, Typed DEF ExposureInv, StateTypes
  <1>6. Moved' = Moved /\ Booked' = Booked /\ Outside' = Outside /\ Rest' = Rest
    BY <1>1, <1>3 DEF Moved, Booked, Outside, Rest
  <1>7. BooksBalance'
    <2>1. PICK total : total = Total(Moved, Orders)
      OBVIOUS
    <2>2. total \in Int
      <3>1. \A o \in Orders : Moved[o] \in Int
        BY Typed DEF Moved, ExposureInv
      <3> QED
        BY <2>1, <3>1, OrdersFinite, TotalStep
    <2>3. position = (start.tracked + start.external + bought - sold) + total
      BY <2>1 DEF ExposureInv, LedgerInv, BooksBalance
    <2>4. position' = (start.tracked + start.external + bought' - sold') + total
      BY <1>2, <2>2, <2>3, Typed DEF ExposureInv
    <2> QED
      BY <1>3, <1>6, <2>1, <2>4 DEF ExposureInv, LedgerInv, BooksBalance
  <1>8. (Total(Rest, Closes) <= position)'
    <2>1. Total(Rest, Closes) <= position
      BY DEF ExposureInv, LedgerInv
    <2> QED
      BY <1>2, <1>4, <1>6, <2>1 DEF ExposureInv, StateTypes
  <1>9. DecisionsCovered'
    <2>1. CASE sold' = sold /\ position' = position + 1
      <3>1. \A c \in Closes : Rem(c)' = Rem(c) /\ Rem(c) \in Nat
        BY <1>1, <1>3, RemNat DEF Rem, ExposureInv, LedgerInv, Orders
      <3>2. \A c \in Closes : /\ Rem(c)' \in Nat /\ Rem(c)' <= Rem(c)
                              /\ sold = 0 /\ border'[c].st = "rejected" => border[c].st = "rejected"
        BY <1>1, <3>1
      <3>3. sold <= sold' /\ position <= position'
        BY <2>1, Typed DEF ExposureInv, StateTypes
      <3> QED
        BY <1>3, <1>5, <3>2, <3>3, AccountDecisions
    <2>2. CASE sold' = sold + 1
      <3>1. sold' # 0
        BY <2>2, Typed DEF ExposureInv
      <3> QED
        BY <3>1 DEF DecisionsCovered
    <2> QED
      BY <1>2, <2>1, <2>2
  <1>10. \A o \in Orders : OrderFact(o)'
    BY <1>1, <1>3 DEF ExposureInv, LedgerInv, OrderFact
  <1>11. ~Alone'
    BY <1>2, <1>3, Typed DEF Alone, ExposureInv
  <1>12. bought <= bought' /\ sold <= sold' /\ \A o \in Orders : border[o].filled <= border'[o].filled
    BY <1>1, <1>2, Typed DEF ExposureInv
  <1>13. \A o \in Opens : border'[o].st # "rejected"
    BY <1>1 DEF ExposureInv, LedgerInv, OpenFact
  <1> QED
    BY <1>1, <1>5, <1>7, <1>8, <1>9, <1>10, <1>11, <1>12, <1>13, AccountKeeps

\* The shares asked of the broker are those of decisions that press, so that while
\* nobody else sells, a close is not rejected.
LEMMA RoomForTheNext ==
  ASSUME StateTypes, \A o \in Orders : OrderFact(o), DecisionsCovered, sold = 0,
         NEW c \in Closes, op[c].st = "sent", border[c].st = "none"
  PROVE  Total(Rest, Closes) + OrderQty[c] <= position
  <1>1. PICK rank \in [Closes -> Nat], k \in Nat : Ranked(rank, k)
    BY DEF DecisionsCovered
  <1>2. PICK f : f = Rest
    OBVIOUS
  <1>3. PICK g : g = [d \in Closes |-> IF d = c THEN OrderQty[c] ELSE f[d]]
    OBVIOUS
  <1>4. PICK u : u = UpTo(rank, k)
    OBVIOUS
  <1>5. \A d \in Closes : f[d] \in Nat /\ g[d] \in Nat /\ u[d] \in Nat
    BY <1>2, <1>3, <1>4, RestingIsTotal, RemNat, Typed, OrdersFinite DEF UpTo, Orders
  <1>6. \A d \in Closes : g[d] <= u[d]
    <2> SUFFICES ASSUME NEW d \in Closes PROVE g[d] <= u[d]
      OBVIOUS
    <2>1. OrderFact(d) /\ OrderQty[d] \in Nat /\ OrderQty[d] > 0 /\ border[d].filled \in Nat
      BY Typed, OrdersFinite
    <2>2. CASE border[d].st = "working"
      <3>1. Rem(d) > 0 /\ g[d] = Rem(d) /\ Pressing(d)
        BY <1>2, <1>3, <2>1, <2>2, Typed DEF OrderFact, Rem, Rest, Pressing, OrderStates
      <3>2. rank[d] <= k
        BY <1>1, <3>1 DEF Ranked
      <3> QED
        BY <1>4, <1>5, <3>1, <3>2 DEF UpTo
    <2>3. CASE d = c
      <3>1. Rem(d) > 0 /\ g[d] = Rem(d) /\ Pressing(d)
        BY <1>3, <2>1, <2>3 DEF Rem, Pressing
      <3>2. rank[d] <= k
        BY <1>1, <3>1 DEF Ranked
      <3> QED
        BY <1>4, <1>5, <3>1, <3>2 DEF UpTo
    <2>4. CASE border[d].st # "working" /\ d # c
      BY <1>2, <1>3, <1>5, <2>4 DEF Rest
    <2> QED
      BY <2>2, <2>3, <2>4
  <1>7. Total(g, Closes) <= Total(u, Closes) /\ Total(g, Closes) \in Int /\ Total(u, Closes) \in Int
    BY <1>5, <1>6, OrdersFinite, TotalOrder, TotalStep
  <1>8. Total(g, Closes) = (Total(f, Closes) - f[c]) + g[c]
    <2>1. \A d \in Closes : f[d] \in Int /\ g[d] \in Int /\ (d # c => f[d] = g[d])
      BY <1>3, <1>5
    <2> QED
      BY <2>1, OrdersFinite, TotalChange
  <1>9. f[c] = 0 /\ g[c] = OrderQty[c]
    BY <1>2, <1>3 DEF Rest
  <1>10. Total(u, Closes) <= position
    BY <1>1, <1>4 DEF Ranked
  <1>11. Total(f, Closes) \in Int /\ OrderQty[c] \in Nat /\ position \in Nat
    BY <1>5, OrdersFinite, TotalStep, Typed DEF StateTypes
  <1>12. PICK t \in Int : t = Total(f, Closes)
    BY <1>11
  <1>13. t + OrderQty[c] <= position
    BY <1>7, <1>8, <1>9, <1>10, <1>11, <1>12
  <1> QED
    BY <1>2, <1>12, <1>13

LEMMA BrokerReceivesKeeps ==
  ASSUME ExposureInv, NEW c \in Closes, BrokerReceives(c)
  PROVE  ExposureInv'
  <1>1. UNCHANGED <<position, bought, sold, start, ledgerVars, reconVars, readVars>>
        /\ op[c].st = "sent" /\ border[c].st = "none"
    BY DEF BrokerReceives
  <1>2. PICK st \in {"working", "rejected"} :
          /\ border' = [border EXCEPT ![c].st = st]
          /\ st = IF position >= Resting + OrderQty[c] THEN "working" ELSE "rejected"
    BY DEF BrokerReceives
  <1>3. c \in Orders /\ border[c].filled = 0 /\ OrderQty[c] > 0 /\ OrderQty[c] \in Nat
    BY <1>1, Typed, OrdersFinite DEF ExposureInv, LedgerInv, OrderFact
  <1>4. border'[c].st = st /\ border'[c].filled = 0 /\ border' \in [Orders -> BrokerOrders]
        /\ \A o \in Orders \ {c} : border'[o] = border[o]
    BY <1>2, <1>3 DEF ExposureInv, StateTypes, BrokerOrders
  <1>5. UNCHANGED <<start, tracked, op, gate, importRefused, head, reduced, byCache, snap, look, cache>>
    BY <1>1 DEF ledgerVars, reconVars, readVars
  <1>6. StateTypes'
    BY <1>1, <1>4, <1>5 DEF ExposureInv, StateTypes
  <1>7. \A o \in Orders : border'[o].filled = border[o].filled
    BY <1>3, <1>4
  <1>8. BooksBalance'
    <2>1. Moved' = Moved
      BY <1>7 DEF Moved
    <2>2. Booked' = Booked /\ Outside' = Outside
      BY <1>5 DEF Booked, Outside
    <2> QED
      BY <1>1, <1>5, <2>1, <2>2 DEF ExposureInv, LedgerInv, BooksBalance
  <1>9. \A o \in Orders : OrderFact(o)'
    <2> SUFFICES ASSUME NEW o \in Orders PROVE OrderFact(o)'
      OBVIOUS
    <2>1. OrderFact(o) /\ op' = op
      BY <1>5 DEF ExposureInv, LedgerInv
    <2>2. CASE o = c
      BY <1>1, <1>2, <1>3, <1>4, <2>1, <2>2 DEF OrderFact
    <2>3. CASE o # c
      BY <1>4, <2>1, <2>3 DEF OrderFact
    <2> QED
      BY <2>2, <2>3
  <1>10. Resting = Total(Rest, Closes) /\ Total(Rest, Closes) \in Nat /\ \A d \in Closes : Rest[d] \in Nat
    BY RestingIsTotal DEF ExposureInv, LedgerInv
  <1>11. (Total(Rest, Closes) <= position)'
    <2>1. PICK f : f = Rest
      OBVIOUS
    <2>2. PICK g : g = Rest'
      OBVIOUS
    <2>3. \A d \in Closes : f[d] \in Int /\ g[d] \in Int /\ (d # c => f[d] = g[d])
      <3>1. \A d \in Closes : f[d] \in Int
        BY <1>10, <2>1
      <3>2. \A d \in Closes \ {c} : f[d] = g[d]
        BY <1>4, <2>1, <2>2, Typed DEF Rest, ExposureInv
      <3>3. g[c] \in Int
        BY <1>3, <1>4, <2>2 DEF Rest
      <3> QED
        BY <3>1, <3>2, <3>3
    <2>4. Total(g, Closes) = (Total(f, Closes) - f[c]) + g[c]
      BY <2>3, CloseChanges
    <2>5. f[c] = 0 /\ g[c] = IF st = "working" THEN OrderQty[c] ELSE 0
      BY <1>1, <1>3, <1>4, <2>1, <2>2 DEF Rest
    <2>6. PICK t \in Nat : t = Total(f, Closes)
      BY <1>10, <2>1
    <2>7. t <= position /\ (st = "working" => t + OrderQty[c] <= position) /\ position \in Nat
      <3>1. t <= position /\ position \in Nat
        BY <2>1, <2>6 DEF ExposureInv, LedgerInv, StateTypes
      <3>2. st = "working" => t + OrderQty[c] <= position
        BY <1>2, <1>3, <1>10, <2>1, <2>6, <3>1
      <3> QED
        BY <3>1, <3>2
    <2>8. Total(g, Closes) <= position
      BY <1>2, <1>3, <2>4, <2>5, <2>6, <2>7
    <2> QED
      BY <1>1, <2>2, <2>8
  <1>12. DecisionsCovered'
    <2>1. sold = 0 => st = "working"
      <3>1. sold = 0 => Total(Rest, Closes) + OrderQty[c] <= position
        BY <1>1, RoomForTheNext DEF ExposureInv, LedgerInv
      <3>2. PICK t \in Nat : t = Total(Rest, Closes)
        BY <1>10
      <3> QED
        BY <1>2, <1>3, <1>10, <3>1, <3>2 DEF ExposureInv, StateTypes
    <2>2. \A d \in Closes : Rem(d)' \in Nat
      <3>1. \A d \in Closes : border'[d].filled \in Nat /\ border'[d].filled <= OrderQty[d]
        BY <1>4, <1>9, Typed DEF OrderFact, BrokerOrders, ExposureInv
      <3> QED
        BY <3>1, Typed, OrdersFinite DEF Rem, ExposureInv
    <2>3. \A d \in Closes : Rem(d)' <= Rem(d)
      <3>1. \A d \in Closes \ {c} : Rem(d)' = Rem(d)
        BY <1>4, <1>5, Typed DEF Rem, ExposureInv
      <3>2. Rem(c)' <= Rem(c)
        BY <1>1, <1>2, <1>3, <1>4, <1>5 DEF Rem
      <3>3. \A d \in Closes : Rem(d) \in Nat
        BY RemNat DEF ExposureInv, LedgerInv, Orders
      <3> QED
        BY <3>1, <3>2, <3>3
    <2>4. \A d \in Closes : sold = 0 /\ border'[d].st = "rejected" => border[d].st = "rejected"
      BY <1>4, <2>1, Typed DEF ExposureInv
    <2>5. sold <= sold' /\ position <= position'
      BY <1>1, Typed DEF ExposureInv, StateTypes
    <2> QED
      BY <1>5, <1>6, <2>2, <2>3, <2>4, <2>5, AccountDecisions
  <1>13. bought <= bought' /\ sold <= sold' /\ position' <= position
    BY <1>1, Typed DEF ExposureInv, StateTypes
  <1>14. \A o \in Orders : border[o].filled <= border'[o].filled
    BY <1>7, Typed DEF ExposureInv
  <1>15. \A o \in Opens : border'[o].st # "rejected"
    <2>1. \A o \in Opens : o \in Orders /\ o # c
      BY OrdersFinite DEF Orders
    <2> QED
      BY <1>4, <2>1 DEF ExposureInv, LedgerInv, OpenFact
  <1>16. \A d \in Closes : op[d].st = "working" /\ border'[d].st = "working" => border[d].st = "working"
    BY <1>1, <1>4, Typed DEF ExposureInv
  <1> QED
    BY <1>1, <1>5, <1>6, <1>8, <1>9, <1>11, <1>12, <1>13, <1>14, <1>15, <1>16, AccountKeeps

LEMMA BrokerEndsOrderKeeps ==
  ASSUME ExposureInv, NEW x \in Orders, BrokerEndsOrder(x)
  PROVE  ExposureInv'
  <1>1. UNCHANGED <<position, bought, sold, start, ledgerVars, reconVars, readVars>>
        /\ border[x].st = "working" /\ border' = [border EXCEPT ![x].st = "ended"]
    BY DEF BrokerEndsOrder
  <1>2. border'[x].st = "ended" /\ border'[x].filled = border[x].filled /\ border' \in [Orders -> BrokerOrders]
        /\ \A o \in Orders \ {x} : border'[o] = border[o]
    BY <1>1 DEF ExposureInv, StateTypes, BrokerOrders
  <1>3. UNCHANGED <<start, tracked, op, gate, importRefused, head, reduced, byCache, snap, look, cache>>
    BY <1>1 DEF ledgerVars, reconVars, readVars
  <1>4. StateTypes'
    BY <1>1, <1>2, <1>3 DEF ExposureInv, StateTypes
  <1>5. \A o \in Orders : border'[o].filled = border[o].filled
    BY <1>2
  <1>6. BooksBalance'
    <2>1. Moved' = Moved
      BY <1>5 DEF Moved
    <2>2. Booked' = Booked /\ Outside' = Outside
      BY <1>3 DEF Booked, Outside
    <2> QED
      BY <1>1, <1>3, <2>1, <2>2 DEF ExposureInv, LedgerInv, BooksBalance
  <1>7. \A o \in Orders : OrderFact(o)'
    <2> SUFFICES ASSUME NEW o \in Orders PROVE OrderFact(o)'
      OBVIOUS
    <2>1. OrderFact(o) /\ op' = op
      BY <1>3 DEF ExposureInv, LedgerInv
    <2>2. CASE o = x
      <3>1. op[o].st \notin {"new", "pending", "claimed", "failed", "done"}
        BY <1>1, <2>1, <2>2 DEF OrderFact
      <3> QED
        BY <1>2, <2>1, <2>2, <3>1 DEF OrderFact
    <2>3. CASE o # x
      BY <1>2, <2>1, <2>3 DEF OrderFact
    <2> QED
      BY <2>2, <2>3
  <1>8. \A d \in Closes : Rest[d] \in Nat /\ Rest'[d] \in Nat /\ Rest'[d] <= Rest[d]
    <2>1. \A d \in Closes : Rest[d] \in Nat
      BY RestingIsTotal DEF ExposureInv, LedgerInv
    <2>2. \A d \in Closes : Rest'[d] = IF d = x THEN 0 ELSE Rest[d]
      BY <1>2, Typed DEF Rest, ExposureInv
    <2> QED
      BY <2>1, <2>2
  <1>9. (Total(Rest, Closes) <= position)'
    <2>1. PICK f : f = Rest
      OBVIOUS
    <2>2. PICK g : g = Rest'
      OBVIOUS
    <2>3. \A d \in Closes : g[d] \in Int /\ f[d] \in Int /\ g[d] <= f[d]
      BY <1>8, <2>1, <2>2
    <2>4. Total(g, Closes) <= Total(f, Closes) /\ Total(g, Closes) \in Int /\ Total(f, Closes) \in Int
      BY <2>3, OrdersFinite, TotalOrder, TotalStep
    <2>5. Total(f, Closes) <= position
      BY <2>1 DEF ExposureInv, LedgerInv
    <2> QED
      BY <1>1, <2>2, <2>4, <2>5 DEF ExposureInv, StateTypes
  <1>10. \A d \in Closes : Rem(d)' = IF d = x THEN 0 ELSE Rem(d)
    BY <1>2, <1>3, Typed DEF Rem, ExposureInv
  <1>11. \A d \in Closes : /\ Rem(d)' \in Nat /\ Rem(d)' <= Rem(d)
                           /\ sold = 0 /\ border'[d].st = "rejected" => border[d].st = "rejected"
    <2>1. \A d \in Closes : Rem(d) \in Nat
      BY RemNat DEF ExposureInv, LedgerInv, Orders
    <2>2. \A d \in Closes : border'[d].st = "rejected" => border[d].st = "rejected"
      BY <1>2, Typed DEF ExposureInv
    <2> QED
      BY <1>10, <2>1, <2>2
  <1>12. bought <= bought' /\ sold <= sold' /\ position' <= position /\ position <= position'
    BY <1>1, Typed DEF ExposureInv, StateTypes
  <1>13. DecisionsCovered'
    BY <1>3, <1>4, <1>11, <1>12, AccountDecisions
  <1>14. \A o \in Orders : border[o].filled <= border'[o].filled
    BY <1>5, Typed DEF ExposureInv
  <1>15. \A o \in Opens : border'[o].st # "rejected"
    BY <1>2, Typed DEF ExposureInv, LedgerInv, OpenFact
  <1>16. \A d \in Closes : op[d].st = "working" /\ border'[d].st = "working" => border[d].st = "working"
    BY <1>2, Typed DEF ExposureInv
  <1> QED
    BY <1>1, <1>3, <1>4, <1>6, <1>7, <1>9, <1>12, <1>13, <1>14, <1>15, <1>16, AccountKeeps

LEMMA UpToShrinks ==
  ASSUME NEW rank, NEW n,
         \A c \in Closes : Rem(c) \in Nat /\ Rem(c)' \in Nat /\ Rem(c)' <= Rem(c)
  PROVE  /\ Total(UpTo(rank, n), Closes) \in Int /\ Total(UpTo(rank, n)', Closes) \in Int
         /\ Total(UpTo(rank, n)', Closes) <= Total(UpTo(rank, n), Closes)
  <1>1. PICK f : f = UpTo(rank, n)
    OBVIOUS
  <1>2. PICK g : g = UpTo(rank, n)'
    OBVIOUS
  <1>3. \A c \in Closes : f[c] \in Int /\ g[c] \in Int /\ g[c] <= f[c]
    BY <1>1, <1>2 DEF UpTo
  <1>4. Total(g, Closes) <= Total(f, Closes) /\ Total(f, Closes) \in Int /\ Total(g, Closes) \in Int
    BY <1>3, OrdersFinite, TotalOrder, TotalStep
  <1> QED
    BY <1>1, <1>2, <1>4

\* A fill of a close takes one share from what it can still take and from the account.
LEMMA FillDecisions ==
  ASSUME StateTypes, DecisionsCovered, UNCHANGED <<op, snap, sold>>, NEW x \in Closes, position' = position - 1,
         \A c \in Closes : Rem(c) \in Nat /\ Rem(c)' = IF c = x THEN Rem(c) - 1 ELSE Rem(c),
         Rem(x) > 0, Pressing(x), \A c \in Closes : border'[c].st = "rejected" => border[c].st = "rejected"
  PROVE  DecisionsCovered'
  <1> SUFFICES ASSUME sold = 0
               PROVE  \E rank \in [Closes -> Nat], k \in Nat : Ranked(rank, k)'
    BY DEF DecisionsCovered
  <1>1. PICK rank \in [Closes -> Nat], k \in Nat : Ranked(rank, k)
    BY DEF DecisionsCovered
  <1>2. rank[x] <= k /\ \A c \in Closes : rank[c] \in Nat
    BY <1>1 DEF Ranked
  <1>3. \A c \in Closes : Rem(c) \in Nat /\ Rem(c)' \in Nat /\ Rem(c)' <= Rem(c)
    OBVIOUS
  <1>4. Total(UpTo(rank, k)', Closes) <= position'
    <2>1. PICK f : f = UpTo(rank, k)
      OBVIOUS
    <2>2. PICK g : g = UpTo(rank, k)'
      OBVIOUS
    <2>3. \A c \in Closes : f[c] \in Int /\ g[c] \in Int /\ (c # x => f[c] = g[c])
      BY <1>3, <2>1, <2>2 DEF UpTo
    <2>4. Total(g, Closes) = (Total(f, Closes) - f[x]) + g[x] /\ Total(f, Closes) \in Int
      BY <2>3, CloseChanges
    <2>5. g[x] = f[x] - 1 /\ f[x] \in Int
      BY <1>2, <1>3, <2>1, <2>2 DEF UpTo
    <2>6. Total(f, Closes) <= position
      BY <1>1, <2>1 DEF Ranked
    <2>7. Total(g, Closes) <= position - 1
      BY <2>4, <2>5, <2>6 DEF StateTypes
    <2> QED
      BY <2>2, <2>7
  <1>5. ASSUME NEW c \in Closes, Rem(c)' > 0
        PROVE  Total(UpTo(rank, rank[c])', Closes) <= op'[c].decided /\ (Pressing(c)' => rank[c] <= k)
    <2>1. Rem(c) > 0
      BY <1>3, <1>5
    <2>2. Total(UpTo(rank, rank[c]), Closes) <= op[c].decided /\ (Pressing(c) => rank[c] <= k)
      BY <1>1, <2>1 DEF Ranked
    <2>3. PICK n : n = rank[c]
      OBVIOUS
    <2>4. /\ Total(UpTo(rank, n), Closes) \in Int /\ Total(UpTo(rank, n)', Closes) \in Int
          /\ Total(UpTo(rank, n)', Closes) <= Total(UpTo(rank, n), Closes)
      BY <1>3, UpToShrinks
    <2>5. op'[c].decided = op[c].decided /\ op[c].decided \in Nat /\ (Pressing(c)' => Pressing(c))
      BY Typed DEF Pressing
    <2>6. Total(UpTo(rank, n)', Closes) <= op'[c].decided
      BY <2>2, <2>3, <2>4, <2>5
    <2> QED
      BY <2>2, <2>3, <2>5, <2>6
  <1>6. Ranked(rank, k)'
    BY <1>4, <1>5 DEF Ranked
  <1> QED
    BY <1>6

LEMMA BrokerFillsOrderKeeps ==
  ASSUME ExposureInv, NEW x \in Orders, BrokerFillsOrder(x)
  PROVE  ExposureInv'
  <1>1. UNCHANGED <<bought, sold, start, ledgerVars, reconVars, readVars>>
        /\ border[x].st = "working" /\ position' = position + (IF x \in Opens THEN 1 ELSE -1)
    BY DEF BrokerFillsOrder
  <1>2. PICK st \in {"working", "ended"} :
          /\ border' = [border EXCEPT ![x].filled = @ + 1, ![x].st = st]
          /\ st = IF border[x].filled + 1 = OrderQty[x] THEN "ended" ELSE "working"
    BY <1>1 DEF BrokerFillsOrder
  <1>3. border'[x].st = st /\ border'[x].filled = border[x].filled + 1 /\ border' \in [Orders -> BrokerOrders]
        /\ \A o \in Orders \ {x} : border'[o] = border[o]
    <2>1. border \in [Orders -> BrokerOrders] /\ border[x] \in BrokerOrders /\ border[x].filled \in Nat
      BY Typed DEF ExposureInv, StateTypes
    <2>2. PICK n \in Nat : n = border[x].filled + 1
      BY <2>1
    <2>3. border' = [border EXCEPT ![x].filled = n, ![x].st = st]
      BY <1>2, <2>2
    <2> QED
      BY <2>1, <2>2, <2>3 DEF BrokerOrders
  <1>4. UNCHANGED <<start, tracked, op, gate, importRefused, head, reduced, byCache, snap, look, cache>>
    BY <1>1 DEF ledgerVars, reconVars, readVars
  <1>5. OrderFact(x) /\ OrderQty[x] \in Nat /\ border[x].filled \in Nat /\ border[x].filled < OrderQty[x]
    BY <1>1, Typed, OrdersFinite DEF ExposureInv, LedgerInv, OrderFact
  <1>6. position' \in Nat
    <2>1. CASE x \in Opens
      BY <1>1, <2>1 DEF ExposureInv, StateTypes
    <2>2. CASE x \notin Opens
      <3>1. x \in Closes
        BY <2>2 DEF Orders
      <3>2. OrderQty[x] - border[x].filled <= position
        BY <1>1, <3>1, RestLeavesRoom DEF ExposureInv, LedgerInv
      <3> QED
        BY <1>1, <1>5, <2>2, <3>2 DEF ExposureInv, StateTypes
    <2> QED
      BY <2>1, <2>2
  <1>7. StateTypes'
    BY <1>1, <1>3, <1>4, <1>6 DEF ExposureInv, StateTypes
  <1>8. \A o \in Orders : /\ border'[o].filled = border[o].filled + (IF o = x THEN 1 ELSE 0)
                          /\ border[o].filled <= border'[o].filled /\ border[o].filled \in Nat
    BY <1>3, Typed DEF ExposureInv
  <1>9. BooksBalance'
    <2>1. PICK f : f = Moved
      OBVIOUS
    <2>2. PICK g : g = Moved'
      OBVIOUS
    <2>3. \A o \in Orders : f[o] \in Int /\ g[o] \in Int /\ (o # x => f[o] = g[o])
      BY <1>8, <2>1, <2>2 DEF Moved
    <2>4. Total(g, Orders) = (Total(f, Orders) - f[x]) + g[x] /\ Total(f, Orders) \in Int
      BY <2>3, OrderChanges
    <2>5. g[x] = f[x] + (IF x \in Opens THEN 1 ELSE -1) /\ f[x] \in Int
      BY <1>8, <2>1, <2>2 DEF Moved
    <2>6. position = (start.tracked + start.external + bought - sold) + Total(f, Orders)
      BY <2>1 DEF ExposureInv, LedgerInv, BooksBalance
    <2>7. PICK t \in Int : t = Total(f, Orders)
      BY <2>4
    <2>8. PICK t2 : t2 = Total(g, Orders)
      OBVIOUS
    <2>9. t2 = t + (IF x \in Opens THEN 1 ELSE -1)
      BY <2>4, <2>5, <2>7, <2>8
    <2>10. position' = (start.tracked + start.external + bought - sold) + t2
      BY <1>1, <2>6, <2>7, <2>9, Typed DEF ExposureInv
    <2>11. Booked' = Booked /\ Outside' = Outside
      BY <1>4 DEF Booked, Outside
    <2> QED
      BY <1>1, <1>4, <2>2, <2>8, <2>10, <2>11 DEF ExposureInv, LedgerInv, BooksBalance
  <1>10. \A o \in Orders : OrderFact(o)'
    <2> SUFFICES ASSUME NEW o \in Orders PROVE OrderFact(o)'
      OBVIOUS
    <2>1. OrderFact(o) /\ op' = op /\ op[o].filled \in Nat
      BY <1>4, Typed DEF ExposureInv, LedgerInv
    <2>2. CASE o = x
      <3>1. op[x].st \notin {"new", "pending", "claimed", "failed", "done"}
        BY <1>1, <1>5 DEF OrderFact
      <3>2. border'[x].filled <= OrderQty[x] /\ op[x].filled <= border'[x].filled
            /\ (st = "working" => border'[x].filled < OrderQty[x])
        BY <1>2, <1>3, <1>5, <2>1, <2>2 DEF OrderFact
      <3> QED
        BY <1>2, <1>3, <1>5, <2>1, <2>2, <3>1, <3>2 DEF OrderFact
    <2>3. CASE o # x
      BY <1>3, <2>1, <2>3 DEF OrderFact
    <2> QED
      BY <2>2, <2>3
  <1>11. \A d \in Closes : /\ Rest[d] \in Nat /\ Rem(d) \in Nat
                           /\ Rest'[d] = (IF d = x THEN Rest[d] - 1 ELSE Rest[d])
                           /\ Rem(d)' = (IF d = x THEN Rem(d) - 1 ELSE Rem(d))
                           /\ d = x => Rem(d) > 0 /\ Pressing(d)
    <2> SUFFICES ASSUME NEW d \in Closes
                 PROVE  /\ Rest[d] \in Nat /\ Rem(d) \in Nat
                        /\ Rest'[d] = (IF d = x THEN Rest[d] - 1 ELSE Rest[d])
                        /\ Rem(d)' = (IF d = x THEN Rem(d) - 1 ELSE Rem(d))
                        /\ d = x => Rem(d) > 0 /\ Pressing(d)
      OBVIOUS
    <2>1. Rest[d] \in Nat /\ Rem(d) \in Nat /\ d \in Orders
      BY RestingIsTotal, RemNat DEF ExposureInv, LedgerInv, Orders
    <2>2. CASE d # x
      <3>1. border'[d] = border[d]
        BY <1>3, <2>1, <2>2
      <3> QED
        BY <1>4, <2>1, <2>2, <3>1 DEF Rest, Rem
    <2>3. CASE d = x
      <3>1. op[d].st \in {"sent", "working"}
        BY <1>1, <1>5, <2>1, <2>3, Typed DEF OrderFact, ExposureInv, OrderStates
      <3>2. Rest[d] = OrderQty[d] - border[d].filled /\ Rem(d) = OrderQty[d] - border[d].filled
        BY <1>1, <2>3 DEF Rest, Rem
      <3>3. Rest'[d] = OrderQty[d] - (border[d].filled + 1) /\ Rem(d)' = OrderQty[d] - (border[d].filled + 1)
        BY <1>2, <1>3, <1>5, <2>3 DEF Rest, Rem
      <3> QED
        BY <1>5, <2>1, <2>3, <3>1, <3>2, <3>3 DEF Pressing
    <2> QED
      BY <2>2, <2>3
  <1>12. (Total(Rest, Closes) <= position)'
    <2>1. PICK f : f = Rest
      OBVIOUS
    <2>2. PICK g : g = Rest'
      OBVIOUS
    <2>3. Total(f, Closes) <= position
      BY <2>1 DEF ExposureInv, LedgerInv
    <2>4. CASE x \in Closes
      <3>1. \A d \in Closes : f[d] \in Int /\ g[d] \in Int /\ (d # x => f[d] = g[d])
        BY <1>11, <2>1, <2>2
      <3>2. Total(g, Closes) = (Total(f, Closes) - f[x]) + g[x] /\ Total(f, Closes) \in Int
        BY <2>4, <3>1, CloseChanges
      <3>3. g[x] = f[x] - 1 /\ f[x] \in Int
        BY <1>11, <2>1, <2>2, <2>4
      <3>4. position' = position - 1 /\ position \in Nat
        BY <1>1, <2>4, OrdersFinite DEF ExposureInv, StateTypes
      <3> QED
        BY <2>2, <2>3, <3>2, <3>3, <3>4
    <2>5. CASE x \notin Closes
      <3>1. \A d \in Closes : g[d] = f[d]
        BY <1>11, <2>1, <2>2, <2>5
      <3>2. g = f
        BY <2>1, <2>2, <3>1 DEF Rest
      <3>3. Total(f, Closes) \in Int
        BY <2>1, RestingIsTotal DEF ExposureInv, LedgerInv
      <3>4. position' = position + 1 /\ position \in Nat
        BY <1>1, <2>5 DEF ExposureInv, StateTypes, Orders
      <3> QED
        BY <2>2, <2>3, <3>2, <3>3, <3>4
    <2> QED
      BY <2>4, <2>5
  <1>13. \A d \in Closes : border'[d].st = "rejected" => border[d].st = "rejected"
    BY <1>3, Typed DEF ExposureInv
  <1>14. DecisionsCovered'
    <2>1. CASE x \in Closes
      <3>1. position' = position - 1
        BY <1>1, <2>1, OrdersFinite DEF ExposureInv, StateTypes
      <3>2. \A c \in Closes : Rem(c) \in Nat /\ Rem(c)' = IF c = x THEN Rem(c) - 1 ELSE Rem(c)
        BY <1>11
      <3> QED
        BY <1>1, <1>4, <1>11, <1>13, <2>1, <3>1, <3>2, FillDecisions DEF ExposureInv
    <2>2. CASE x \notin Closes
      <3>1. sold <= sold' /\ position <= position'
        BY <1>1, <2>2, Typed DEF ExposureInv, StateTypes, Orders
      <3>2. \A c \in Closes : /\ Rem(c)' \in Nat /\ Rem(c)' <= Rem(c)
                              /\ sold = 0 /\ border'[c].st = "rejected" => border[c].st = "rejected"
        BY <1>11, <1>13, <2>2
      <3> QED
        BY <1>4, <1>7, <3>1, <3>2, AccountDecisions
    <2> QED
      BY <2>1, <2>2
  <1>15. Alone' => position' <= position
    <2>1. CASE x \in Opens
      BY <1>8, <2>1 DEF Alone
    <2>2. CASE x \notin Opens
      BY <1>1, <2>2 DEF ExposureInv, StateTypes
    <2> QED
      BY <2>1, <2>2
  <1>16. bought <= bought' /\ sold <= sold' /\ \A o \in Orders : border[o].filled <= border'[o].filled
    BY <1>1, <1>8, Typed DEF ExposureInv
  <1>17. \A o \in Opens : border'[o].st # "rejected"
    BY <1>3, Typed DEF ExposureInv, LedgerInv, OpenFact
  <1>18. \A d \in Closes : op[d].st = "working" /\ border'[d].st = "working" => border[d].st = "working"
    BY <1>1, <1>3, Typed DEF ExposureInv
  <1> QED
    BY <1>1, <1>4, <1>7, <1>9, <1>10, <1>12, <1>14, <1>15, <1>16, <1>17, <1>18, AccountKeeps

-----------------------------------------------------------------------------
(* The attempt of a close                                                  *)

LEMMA Blind ==
  ASSUME \A c \in Closes : ~snap'[c].current, ~head'.current
  PROVE  (\A c \in Closes : SnapFact(c)') /\ HeadFact'
  BY DEF SnapFact, HeadFact

\* A step that writes the row of one close and imports nothing.
LEMMA OneCloseKeeps ==
  ASSUME ExposureInv, StateTypes', NEW c \in Closes, NEW q,
         UNCHANGED <<accountVars, tracked, importRefused, reduced, byCache>>,
         \A o \in Orders : op'[o] = IF o = c THEN q ELSE op[o],
         q.filled = op[c].filled, q.usedExternal = op[c].usedExternal, op[c].tracked <= q.tracked,
         \A d \in Closes \ {c} : /\ gate' = d <=> gate = d
                                 /\ snap'[d].pc = snap[d].pc /\ snap'[d].pos = snap[d].pos,
         OrderFact(c)', CloseFact(c)', PurposeFact(c)', AloneFact(c)',
         ~byCache /\ q.st \in Live => q.tracked - q.usedTracked <= tracked
                                      \/ \E d \in Closes \ {c} : op[d].tracked # 0,
         \A d \in Closes : SnapFact(d)', HeadFact', DecisionsCovered'
  PROVE  ExposureInv'
  <1>1. UNCHANGED <<position, border, bought, sold, start, tracked, importRefused, reduced, byCache>>
    BY DEF accountVars
  <1>2. c \in Orders /\ c \notin Opens
    BY OrdersFinite DEF Orders
  <1>3. op'[c] = q /\ \A o \in Orders \ {c} : op'[o] = op[o]
    BY <1>2
  <1>4. \A o \in Orders : OrderFact(o)'
    BY <1>1, <1>3 DEF ExposureInv, LedgerInv, OrderFact
  <1>5. \A o \in Opens : OpenFact(o)'
    <2>1. \A o \in Opens : op'[o] = op[o]
      BY <1>2, <1>3 DEF Orders
    <2> QED
      BY <1>1, <2>1 DEF ExposureInv, LedgerInv, OpenFact
  <1>6. ASSUME NEW d \in Closes, d # c
        PROVE  CloseFact(d)' /\ PurposeFact(d)' /\ AloneFact(d)'
    <2>1. op'[d] = op[d] /\ (gate' = d <=> gate = d) /\ snap'[d].pc = snap[d].pc /\ snap'[d].pos = snap[d].pos
      BY <1>3, <1>6 DEF Orders
    <2>2. CloseFact(d)'
      BY <2>1 DEF ExposureInv, LedgerInv, CloseFact
    <2>3. PurposeFact(d)'
      BY <2>1 DEF ExposureInv, PurposeFact
    <2>4. AloneFact(d)'
      BY <1>1, <2>1 DEF ExposureInv, AloneFact, Alone
    <2> QED
      BY <2>2, <2>3, <2>4
  <1>7. Moved' = Moved /\ Rest' = Rest
    BY <1>1 DEF Moved, Rest
  <1>8. Booked' = Booked /\ Outside' = Outside
    <2>1. \A o \in Orders : op'[o].filled = op[o].filled /\ op'[o].usedExternal = op[o].usedExternal
      BY <1>3
    <2> QED
      BY <2>1 DEF Booked, Outside, Orders
  <1>9. BooksBalance' /\ (Total(Rest, Closes) <= position)' /\ WriteOffsEarned'
    BY <1>1, <1>7, <1>8 DEF ExposureInv, LedgerInv, BooksBalance, WriteOffsEarned
  <1>10. op[c].tracked # 0 => q.tracked # 0 /\ (op[c].tracked > 0 => q.tracked > 0)
    BY <1>2, <1>3, Typed DEF ExposureInv, StateTypes, Operations
  <1>11. PromiseKept'
    <2> SUFFICES ASSUME ~byCache, NEW d \in Closes, op'[d].st \in Live,
                        \A e \in Closes \ {d} : op'[e].tracked = 0
                 PROVE  op'[d].tracked - op'[d].usedTracked <= tracked
      BY <1>1 DEF PromiseKept
    <2>1. CASE d = c
      <3>1. \A e \in Closes \ {c} : op[e].tracked = 0
        BY <1>3, <2>1 DEF Orders
      <3> QED
        BY <1>3, <2>1, <3>1
    <2>2. CASE d # c
      <3>1. op'[d] = op[d] /\ op'[c] = q
        BY <1>3, <2>2 DEF Orders
      <3>2. q.tracked = 0
        BY <2>2, <3>1
      <3>3. op[c].tracked = 0
        BY <1>10, <3>2
      <3>4. \A e \in Closes \ {d} : op[e].tracked = 0
        BY <1>3, <3>3 DEF Orders
      <3> QED
        BY <3>1, <3>4 DEF ExposureInv, LedgerInv, PromiseKept
    <2> QED
      BY <2>1, <2>2
  <1>12. FillsAreImported'
    <2> SUFFICES ASSUME importRefused, ~byCache
                 PROVE  /\ start.external + bought > 0 \/ \E o \in Opens : border[o].filled > 0
                        /\ \E d, e \in Closes : d # e /\ op'[d].tracked > 0 /\ op'[e].tracked > 0
      BY <1>1 DEF FillsAreImported
    <2>1. start.external + bought > 0 \/ \E o \in Opens : border[o].filled > 0
      BY DEF ExposureInv, LedgerInv, FillsAreImported
    <2>2. PICK d \in Closes, e \in Closes : d # e /\ op[d].tracked > 0 /\ op[e].tracked > 0
      BY DEF ExposureInv, LedgerInv, FillsAreImported
    <2>3. \A f \in Closes : op[f].tracked > 0 => op'[f].tracked > 0
      <3> SUFFICES ASSUME NEW f \in Closes, op[f].tracked > 0 PROVE op'[f].tracked > 0
        OBVIOUS
      <3>1. CASE f = c
        <4>1. op[c].tracked # 0
          BY <1>2, <3>1, Typed DEF ExposureInv
        <4> QED
          BY <1>3, <1>10, <3>1, <4>1
      <3>2. CASE f # c
        BY <1>3, <3>2 DEF Orders
      <3> QED
        BY <3>1, <3>2
    <2> QED
      BY <2>1, <2>2, <2>3
  <1>13. LedgerInv'
    BY <1>4, <1>5, <1>6, <1>9, <1>11, <1>12 DEF LedgerInv
  <1>14. \A d \in Closes : PurposeFact(d)' /\ AloneFact(d)'
    BY <1>6
  <1> QED
    BY <1>13, <1>14 DEF ExposureInv

LEMMA ClaimKeeps ==
  ASSUME ExposureInv, NEW c \in Closes, Claim(c)
  PROVE  ExposureInv'
  <1>1. UNCHANGED <<accountVars, tracked, importRefused, head, reduced, byCache, snap, look, cache>>
        /\ op[c].st = "pending" /\ gate = None /\ gate' = c /\ op' = [op EXCEPT ![c].st = "claimed"]
    BY DEF Claim, reconVars, readVars
  <1>2. UNCHANGED <<position, border, bought, sold, start, tracked, importRefused, head, reduced, byCache, snap, look, cache>>
    BY <1>1 DEF accountVars
  <1>3. c \in Orders /\ op[c] \in Operations
    BY Typed DEF ExposureInv
  <1>4. PICK q : q = [op[c] EXCEPT !.st = "claimed"]
    OBVIOUS
  <1>5. q \in Operations /\ q.st = "claimed" /\ q.filled = op[c].filled /\ q.held = op[c].held
        /\ q.decided = op[c].decided /\ q.tracked = op[c].tracked /\ q.external = op[c].external
        /\ q.episode = op[c].episode /\ q.usedTracked = op[c].usedTracked /\ q.usedExternal = op[c].usedExternal
    BY <1>3, <1>4 DEF Operations, OrderStates
  <1>6. op' \in [Orders -> Operations] /\ \A o \in Orders : op'[o] = IF o = c THEN q ELSE op[o]
    BY <1>1, <1>3, <1>4, <1>5 DEF ExposureInv, StateTypes
  <1>7. op'[c] = q /\ \A d \in Closes \ {c} : op'[d] = op[d]
    BY <1>3, <1>6 DEF Orders
  <1>8. StateTypes'
    BY <1>1, <1>2, <1>6 DEF ExposureInv, StateTypes
  <1>9. OrderFact(c)' /\ CloseFact(c)'
    <2>1. OrderFact(c) /\ CloseFact(c)
      BY <1>3 DEF ExposureInv, LedgerInv
    <2> QED
      BY <1>1, <1>2, <1>5, <1>7, <2>1 DEF OrderFact, CloseFact, Live
  <1>10. snap[c].pc \notin {"positions", "orders", "reconcile", "propose", "barrier"}
    BY <1>1 DEF ExposureInv, PurposeFact
  <1>11. PurposeFact(c)'
    BY <1>2, <1>10 DEF PurposeFact
  <1>12. AloneFact(c)'
    <2>1. AloneFact(c)
      BY DEF ExposureInv
    <2> QED
      BY <1>1, <1>2, <1>5, <1>7, <1>10, <2>1 DEF AloneFact, Alone
  <1>13. DecisionsCovered'
    <2>1. \A d \in Closes : Rem(d) \in Nat
      BY RemNat DEF ExposureInv, LedgerInv, Orders
    <2>2. \A d \in Closes : Rem(d)' = Rem(d) /\ op'[d].decided = op[d].decided /\ (Pressing(d)' => Pressing(d))
      BY <1>1, <1>2, <1>5, <1>7, <1>10 DEF Rem, Pressing
    <2>3. \A d \in Closes : /\ Rem(d) \in Nat /\ Rem(d)' \in Nat /\ Rem(d)' <= Rem(d)
                            /\ Rem(d)' > 0 => op'[d].decided = op[d].decided /\ (Pressing(d)' => Pressing(d))
                            /\ sold = 0 /\ border'[d].st = "rejected" => border[d].st = "rejected"
      BY <1>2, <2>1, <2>2
    <2>4. sold <= sold' /\ position <= position'
      BY <1>2, Typed DEF ExposureInv, StateTypes
    <2> QED
      BY <1>8, <2>3, <2>4, DecisionsKept DEF ExposureInv
  <1>14. (\A d \in Closes : SnapFact(d)') /\ HeadFact'
    <2>1. \A o \in Orders : op'[o].filled = op[o].filled /\ border[o].filled <= border'[o].filled
      BY <1>2, <1>5, <1>6, Typed DEF ExposureInv
    <2>2. \A d \in Closes : /\ op'[d].st = "working" => op[d].st = "working"
                            /\ op'[d].st = "working" /\ border'[d].st = "working" => border[d].st = "working"
                            /\ op'[d].st = "pending" => op[d].st = "pending"
      BY <1>2, <1>5, <1>7
    <2>3. StateTypes /\ start' = start /\ sold <= sold' /\ (\A d \in Closes : SnapFact(d)) /\ HeadFact
      BY <1>2, Typed DEF ExposureInv
    <2> QED
      BY <1>2, <1>8, <2>1, <2>2, <2>3, SightKept
  <1>15. ~byCache /\ q.st \in Live => q.tracked - q.usedTracked <= tracked
                                      \/ \E d \in Closes \ {c} : op[d].tracked # 0
    BY <1>1, <1>5 DEF ExposureInv, LedgerInv, PromiseKept, Live
  <1>16. \A d \in Closes \ {c} : /\ gate' = d <=> gate = d
                                 /\ snap'[d].pc = snap[d].pc /\ snap'[d].pos = snap[d].pos
    BY <1>1, OrdersFinite DEF Orders
  <1>17. op[c].tracked <= q.tracked
    BY <1>3, <1>5 DEF Operations
  <1> QED
    BY <1>1, <1>5, <1>6, <1>8, <1>9, <1>11, <1>12, <1>13, <1>14, <1>15, <1>16, <1>17, OneCloseKeeps

LEMMA PassPreEffectKeeps ==
  ASSUME ExposureInv, NEW c \in Closes, PassPreEffect(c)
  PROVE  ExposureInv'
  <1>1. UNCHANGED <<accountVars, tracked, gate, importRefused, head, reduced, byCache, look, cache>>
        /\ snap[c].pc = "barrier" /\ CloseCapacity(c) /\ op' = [op EXCEPT ![c].st = "sent"]
        /\ snap' = [snap EXCEPT ![c].pc = "over"]
    BY DEF PassPreEffect, reconVars
  <1>2. UNCHANGED <<position, border, bought, sold, start, tracked, gate, importRefused, head, reduced, byCache, look, cache>>
    BY <1>1 DEF accountVars
  <1>3. c \in Orders /\ op[c] \in Operations
    BY Typed DEF ExposureInv
  <1>4. PICK q : q = [op[c] EXCEPT !.st = "sent"]
    OBVIOUS
  <1>5. q \in Operations /\ q.st = "sent" /\ q.filled = op[c].filled /\ q.held = op[c].held
        /\ q.decided = op[c].decided /\ q.tracked = op[c].tracked /\ q.external = op[c].external
        /\ q.episode = op[c].episode /\ q.usedTracked = op[c].usedTracked /\ q.usedExternal = op[c].usedExternal
    BY <1>3, <1>4 DEF Operations, OrderStates
  <1>6. op' \in [Orders -> Operations] /\ \A o \in Orders : op'[o] = IF o = c THEN q ELSE op[o]
    BY <1>1, <1>3, <1>4, <1>5 DEF ExposureInv, StateTypes
  <1>7. op'[c] = q /\ \A d \in Closes \ {c} : op'[d] = op[d]
    BY <1>3, <1>6 DEF Orders
  <1>8. snap' \in [Closes -> Readings] /\ snap'[c].pc = "over" /\ snap'[c].pos = snap[c].pos
        /\ \A d \in Closes \ {c} : snap'[d] = snap[d]
    BY <1>1 DEF ExposureInv, StateTypes, Readings
  <1>9. StateTypes'
    BY <1>1, <1>2, <1>6, <1>8 DEF ExposureInv, StateTypes
  <1>10. op[c].st = "claimed" /\ border[c].st = "none" /\ op[c].filled = 0 /\ snap[c].pos = op[c].decided
    <2>1. op[c].st = "claimed" /\ snap[c].pos = op[c].decided
      BY <1>1 DEF ExposureInv, PurposeFact, CloseCapacity
    <2>2. OrderFact(c) /\ op[c].filled \in Nat /\ border[c].filled \in Nat
      BY <1>3, Typed DEF ExposureInv, LedgerInv
    <2> QED
      BY <2>1, <2>2 DEF OrderFact
  <1>11. OrderFact(c)' /\ CloseFact(c)' /\ PurposeFact(c)'
    <2>1. OrderFact(c) /\ CloseFact(c)
      BY <1>3 DEF ExposureInv, LedgerInv
    <2> QED
      BY <1>2, <1>5, <1>7, <1>8, <1>10, <2>1 DEF OrderFact, CloseFact, PurposeFact, Live
  <1>12. AloneFact(c)'
    <2>1. AloneFact(c) /\ op[c].decided \in Nat /\ op[c].external \in Nat
      BY Typed DEF ExposureInv
    <2>2. Alone /\ ~byCache => ~(op[c].external > 0)
      BY <1>1, <1>10, <2>1 DEF AloneFact
    <2> QED
      BY <1>2, <1>5, <1>7, <1>8, <2>2 DEF AloneFact, Alone
  <1>13. DecisionsCovered'
    <2>1. \A d \in Closes : Rem(d) \in Nat
      BY RemNat DEF ExposureInv, LedgerInv, Orders
    <2>2. Pressing(c)
      BY <1>1, <1>10 DEF Pressing
    <2>3. \A d \in Closes : Rem(d)' = Rem(d) /\ op'[d].decided = op[d].decided /\ (Pressing(d)' => Pressing(d))
      BY <1>2, <1>5, <1>7, <1>8, <1>10, <2>2 DEF Rem, Pressing
    <2>4. \A d \in Closes : /\ Rem(d) \in Nat /\ Rem(d)' \in Nat /\ Rem(d)' <= Rem(d)
                            /\ Rem(d)' > 0 => op'[d].decided = op[d].decided /\ (Pressing(d)' => Pressing(d))
                            /\ sold = 0 /\ border'[d].st = "rejected" => border[d].st = "rejected"
      BY <1>2, <2>1, <2>3
    <2>5. sold <= sold' /\ position <= position'
      BY <1>2, Typed DEF ExposureInv, StateTypes
    <2> QED
      BY <1>9, <2>4, <2>5, DecisionsKept DEF ExposureInv
  <1>14. (\A d \in Closes : SnapFact(d)') /\ HeadFact'
    <2>1. \A o \in Orders : op'[o].filled = op[o].filled /\ border[o].filled <= border'[o].filled
      BY <1>2, <1>5, <1>6, Typed DEF ExposureInv
    <2>2. \A d \in Closes : /\ op'[d].st = "working" => op[d].st = "working"
                            /\ op'[d].st = "working" /\ border'[d].st = "working" => border[d].st = "working"
                            /\ op'[d].st = "pending" => op[d].st = "pending"
                            /\ snap'[d].current /\ snap'[d].pc = "orders" => snap'[d] = snap[d]
      BY <1>2, <1>5, <1>7, <1>8
    <2>3. StateTypes /\ start' = start /\ sold <= sold' /\ (\A d \in Closes : SnapFact(d)) /\ HeadFact
      BY <1>2, Typed DEF ExposureInv
    <2> QED
      BY <1>2, <1>9, <2>1, <2>2, <2>3, SightKept
  <1>15. ~byCache /\ q.st \in Live => q.tracked - q.usedTracked <= tracked
                                      \/ \E d \in Closes \ {c} : op[d].tracked # 0
    BY <1>5, <1>10 DEF ExposureInv, LedgerInv, PromiseKept, Live
  <1>16. \A d \in Closes \ {c} : /\ gate' = d <=> gate = d
                                 /\ snap'[d].pc = snap[d].pc /\ snap'[d].pos = snap[d].pos
    BY <1>2, <1>8
  <1>17. op[c].tracked <= q.tracked
    BY <1>3, <1>5 DEF Operations
  <1> QED
    BY <1>1, <1>5, <1>6, <1>9, <1>11, <1>12, <1>13, <1>14, <1>15, <1>16, <1>17, OneCloseKeeps

\* The barrier refuses, or the broker's answer settles the attempt.
LEMMA AttemptOverKeeps ==
  ASSUME ExposureInv, NEW c \in Closes, RefusePreEffect(c) \/ ResolveAttempt(c)
  PROVE  ExposureInv'
  <1>1. UNCHANGED <<accountVars, tracked, importRefused, reduced, byCache, cache>> /\ gate' = None
        /\ op[c].st \in {"claimed", "sent"}
    BY DEF RefusePreEffect, ResolveAttempt, ExposureInv, PurposeFact
  <1>2. UNCHANGED <<position, border, bought, sold, start, tracked, importRefused, reduced, byCache, cache>>
    BY <1>1 DEF accountVars
  <1>3. c \in Orders /\ op[c] \in Operations
    BY Typed DEF ExposureInv
  <1>4. PICK st, h :
          /\ op' = [op EXCEPT ![c] = [op[c] EXCEPT !.st = st, !.held = h]]
          /\ \/ st = "failed" /\ h = 0 /\ (op[c].st = "claimed" \/ border[c].st = "rejected")
             \/ st = "working" /\ h = op[c].held /\ op[c].st = "sent" /\ border[c].st \notin {"none", "rejected"}
    <2>1. CASE RefusePreEffect(c)
      <3>1. op' = [op EXCEPT ![c] = [op[c] EXCEPT !.st = "failed", !.held = 0]]
        BY <2>1 DEF RefusePreEffect
      <3> QED
        BY <2>1, <3>1 DEF RefusePreEffect, ExposureInv, PurposeFact
    <2>2. CASE ResolveAttempt(c) /\ border[c].st = "rejected"
      <3>1. op' = [op EXCEPT ![c] = [op[c] EXCEPT !.st = "failed", !.held = 0]]
        BY <2>2 DEF ResolveAttempt
      <3> QED
        BY <2>2, <3>1
    <2>3. CASE ResolveAttempt(c) /\ border[c].st # "rejected"
      <3>1. op' = [op EXCEPT ![c] = [op[c] EXCEPT !.st = "working"]]
        BY <2>3 DEF ResolveAttempt
      <3>2. [op[c] EXCEPT !.st = "working"] = [op[c] EXCEPT !.st = "working", !.held = op[c].held]
        BY <1>3 DEF Operations
      <3> QED
        BY <2>3, <3>1, <3>2 DEF ResolveAttempt
    <2> QED
      BY <2>1, <2>2, <2>3
  <1>5. PICK q : q = [op[c] EXCEPT !.st = st, !.held = h]
    OBVIOUS
  <1>6. q \in Operations /\ q.st = st /\ q.filled = op[c].filled /\ q.held = h
        /\ q.decided = op[c].decided /\ q.tracked = op[c].tracked /\ q.external = op[c].external
        /\ q.episode = op[c].episode /\ q.usedTracked = op[c].usedTracked /\ q.usedExternal = op[c].usedExternal
    <2>1. h \in Nat /\ st \in OrderStates
      BY <1>3, <1>4, Typed DEF ExposureInv, OrderStates
    <2> QED
      BY <1>3, <1>5, <2>1 DEF Operations
  <1>7. op' \in [Orders -> Operations] /\ \A o \in Orders : op'[o] = IF o = c THEN q ELSE op[o]
    BY <1>3, <1>4, <1>5, <1>6 DEF ExposureInv, StateTypes
  <1>8. op'[c] = q /\ \A d \in Closes \ {c} : op'[d] = op[d]
    BY <1>3, <1>7 DEF Orders
  <1>9. /\ snap' \in [Closes -> Readings] /\ look' \in Readings /\ head' \in Observations
        /\ \A d \in Closes : ~snap'[d].current /\ snap'[d].pos = snap[d].pos /\ (d # c => snap'[d].pc = snap[d].pc)
        /\ ~head'.current /\ snap'[c].pc \notin {"positions", "orders", "reconcile", "propose", "barrier"}
    <2>1. CASE RefusePreEffect(c)
      <3>1. /\ snap' = [d \in Closes |-> [snap[d] EXCEPT !.pc = IF d = c THEN "over" ELSE @, !.current = FALSE]]
            /\ look' = [look EXCEPT !.current = FALSE] /\ head' = [head EXCEPT !.current = FALSE]
        BY <2>1 DEF RefusePreEffect
      <3> QED
        BY <3>1 DEF ExposureInv, StateTypes, Readings, Observations
    <2>2. CASE ResolveAttempt(c)
      <3>1. /\ snap' = [d \in Closes |-> [snap[d] EXCEPT !.current = FALSE]]
            /\ look' = [look EXCEPT !.current = FALSE] /\ head' = [head EXCEPT !.current = FALSE]
            /\ op[c].st = "sent"
        BY <2>2 DEF ResolveAttempt, Outdated
      <3>2. snap[c].pc \notin {"positions", "orders", "reconcile", "propose", "barrier"}
        BY <3>1 DEF ExposureInv, PurposeFact
      <3> QED
        BY <3>1, <3>2 DEF ExposureInv, StateTypes, Readings, Observations
    <2> QED
      BY <2>1, <2>2
  <1>10. StateTypes'
    BY <1>1, <1>2, <1>7, <1>9 DEF ExposureInv, StateTypes
  <1>11. OrderFact(c)' /\ CloseFact(c)' /\ PurposeFact(c)'
    <2>1. OrderFact(c) /\ CloseFact(c) /\ op[c].filled \in Nat /\ border[c].filled \in Nat
          /\ border[c].st \in {"none", "working", "ended", "rejected"}
      BY <1>3, Typed DEF ExposureInv, LedgerInv
    <2>2. c # None
      BY <1>3, OrdersFinite
    <2>3. OrderFact(c)'
      BY <1>1, <1>2, <1>4, <1>6, <1>8, <2>1 DEF OrderFact
    <2>4. CloseFact(c)'
      BY <1>1, <1>2, <1>4, <1>6, <1>8, <2>1, <2>2 DEF CloseFact, Live
    <2> QED
      BY <1>9, <2>3, <2>4 DEF PurposeFact
  <1>12. AloneFact(c)'
    <2>1. AloneFact(c) /\ op[c].decided \in Nat /\ op[c].external \in Nat
      BY Typed DEF ExposureInv
    <2> QED
      BY <1>1, <1>2, <1>4, <1>6, <1>8, <1>9, <2>1 DEF AloneFact, Alone
  <1>13. DecisionsCovered'
    <2>1. \A d \in Closes : Rem(d) \in Nat
      BY RemNat DEF ExposureInv, LedgerInv, Orders
    <2>2. \A d \in Closes \ {c} : Rem(d)' = Rem(d) /\ op'[d].decided = op[d].decided /\ (Pressing(d)' => Pressing(d))
      BY <1>2, <1>8, <1>9 DEF Rem, Pressing
    <2>3. Rem(c)' = (IF st = "working" THEN Rem(c) ELSE 0) /\ (st = "working" => Pressing(c))
      <3>1. OrderFact(c)
        BY <1>3 DEF ExposureInv, LedgerInv
      <3> QED
        BY <1>2, <1>4, <1>6, <1>8, <3>1 DEF Rem, Pressing, OrderFact
    <2>4. \A d \in Closes : /\ Rem(d) \in Nat /\ Rem(d)' \in Nat /\ Rem(d)' <= Rem(d)
                            /\ Rem(d)' > 0 => op'[d].decided = op[d].decided /\ (Pressing(d)' => Pressing(d))
                            /\ sold = 0 /\ border'[d].st = "rejected" => border[d].st = "rejected"
      <3> SUFFICES ASSUME NEW d \in Closes
                   PROVE  /\ Rem(d) \in Nat /\ Rem(d)' \in Nat /\ Rem(d)' <= Rem(d)
                          /\ Rem(d)' > 0 => op'[d].decided = op[d].decided /\ (Pressing(d)' => Pressing(d))
                          /\ border'[d].st = "rejected" => border[d].st = "rejected"
        OBVIOUS
      <3>1. CASE d = c
        BY <1>2, <1>4, <1>6, <1>8, <2>1, <2>3, <3>1
      <3>2. CASE d # c
        BY <1>2, <2>1, <2>2, <3>2
      <3> QED
        BY <3>1, <3>2
    <2>5. sold <= sold' /\ position <= position'
      BY <1>2, Typed DEF ExposureInv, StateTypes
    <2> QED
      BY <1>10, <2>4, <2>5, DecisionsKept DEF ExposureInv
  <1>14. (\A d \in Closes : SnapFact(d)') /\ HeadFact'
    BY <1>9, Blind
  <1>15. ~byCache /\ q.st \in Live => q.tracked - q.usedTracked <= tracked
                                      \/ \E d \in Closes \ {c} : op[d].tracked # 0
    BY <1>1, <1>4, <1>6 DEF ExposureInv, LedgerInv, PromiseKept, Live
  <1>16. \A d \in Closes \ {c} : /\ gate' = d <=> gate = d
                                 /\ snap'[d].pc = snap[d].pc /\ snap'[d].pos = snap[d].pos
    <2>1. gate = c
      BY <1>1 DEF ExposureInv, LedgerInv, CloseFact
    <2>2. \A d \in Closes : d # None
      BY OrdersFinite DEF Orders
    <2> QED
      BY <1>1, <1>9, <2>1, <2>2
  <1>17. op[c].tracked <= q.tracked
    BY <1>3, <1>6 DEF Operations
  <1> QED
    BY <1>1, <1>6, <1>7, <1>10, <1>11, <1>12, <1>13, <1>14, <1>15, <1>16, <1>17, OneCloseKeeps

-----------------------------------------------------------------------------
(* The decision                                                            *)

\* Where nobody else has shares and no opening order got any, the ledger has those
\* of the account and the fills of closes that are not imported yet.
LEMMA NobodyElseTracked ==
  ASSUME ExposureInv, ~byCache, start.external + bought = 0, \A o \in Opens : border[o].filled = 0,
         NEW x \in Closes, NEW n \in Nat, op[x].filled + n <= border[x].filled
  PROVE  position + n <= tracked
  <1>1. PICK f : f = Moved
    OBVIOUS
  <1>2. PICK g : g = Booked
    OBVIOUS
  <1>3. PICK h : h = [o \in Orders |-> IF o = x THEN f[o] + n ELSE f[o]]
    OBVIOUS
  <1>4. x \in Orders
    BY DEF Orders
  <1>5. \A o \in Orders : f[o] \in Int /\ g[o] \in Int /\ h[o] \in Int /\ h[o] <= g[o] /\ (o # x => f[o] = h[o])
    <2> SUFFICES ASSUME NEW o \in Orders
                 PROVE  f[o] \in Int /\ g[o] \in Int /\ h[o] \in Int /\ h[o] <= g[o] /\ (o # x => f[o] = h[o])
      OBVIOUS
    <2>1. op[o].filled \in Nat /\ border[o].filled \in Nat /\ op[o].filled <= border[o].filled
      BY Typed DEF ExposureInv, LedgerInv, OrderFact
    <2>2. o \in Opens => border[o].filled = 0 /\ o # x
      BY OrdersFinite
    <2> QED
      BY <1>1, <1>2, <1>3, <2>1, <2>2 DEF Moved, Booked
  <1>6. Total(h, Orders) = (Total(f, Orders) - f[x]) + h[x] /\ Total(f, Orders) \in Int
    BY <1>4, <1>5, OrderChanges
  <1>7. h[x] = f[x] + n /\ f[x] \in Int
    BY <1>3, <1>4, <1>5
  <1>8. IsFiniteSet(Orders)
    BY OrdersFinite
  <1>9. Total(h, Orders) <= Total(g, Orders)
    BY <1>5, <1>8, TotalOrder
  <1>10. PICK m \in Int : m = Total(f, Orders)
    BY <1>6
  <1>11. PICK b \in Int : b = Total(g, Orders)
    BY <1>5, <1>8, TotalStep
  <1>12. m + n <= b
    BY <1>6, <1>7, <1>9, <1>10, <1>11
  <1>13. Total(Outside, Closes) \in Nat
    <2>1. \A d \in Closes : Outside[d] \in Nat
      BY Typed DEF ExposureInv, Outside
    <2> QED
      BY <2>1, OrdersFinite, TotalNat
  <1>14. PICK e \in Nat : e = Total(Outside, Closes)
    BY <1>13
  <1>15. position = (start.tracked + start.external + bought - sold) + m
    BY <1>1, <1>10 DEF ExposureInv, LedgerInv, BooksBalance
  <1>16. tracked + reduced = start.tracked + b + e
    BY <1>2, <1>11, <1>14 DEF ExposureInv, LedgerInv, BooksBalance
  <1>17. start.external = 0 /\ bought = 0 /\ sold \in Nat /\ start.tracked \in Nat
    BY Typed DEF ExposureInv
  <1>18. reduced <= Positive(sold + e - start.external)
    BY <1>14 DEF ExposureInv, LedgerInv, WriteOffsEarned
  <1>19. reduced <= sold + e
    BY <1>17, <1>18 DEF Positive
  <1> QED
    BY <1>12, <1>15, <1>16, <1>17, <1>19 DEF ExposureInv, StateTypes

\* A close that is decided last ranks last.
LEMMA ProposeDecisions ==
  ASSUME StateTypes, \A d \in Closes : OrderFact(d) /\ CloseFact(d), DecisionsCovered, NEW c \in Closes, NEW q,
         UNCHANGED <<position, border, sold>>, op[c].st = "new",
         \A d \in Closes : op'[d] = IF d = c THEN q ELSE op[d],
         q.st = "pending", q.decided = snap[c].pos, Closable(c),
         \A d \in Closes \ {c} : snap'[d].pc = snap[d].pc /\ snap'[d].pos = snap[d].pos
  PROVE  DecisionsCovered'
  <1> SUFFICES ASSUME sold = 0
               PROVE  \E rank \in [Closes -> Nat], k \in Nat : Ranked(rank, k)'
    BY DEF DecisionsCovered
  <1>1. PICK rank \in [Closes -> Nat], k \in Nat : Ranked(rank, k)
    BY DEF DecisionsCovered
  <1>2. PICK t : t = Total(rank, Closes)
    OBVIOUS
  <1>3. t \in Nat /\ \A d \in Closes : rank[d] <= t /\ rank[d] \in Nat
    BY <1>2, OrdersFinite, TotalNat
  <1>4. PICK m \in Nat : m = t + k + 1
    BY <1>3
  <1>5. k < m /\ \A d \in Closes : rank[d] < m
    BY <1>3, <1>4
  <1>6. PICK r : r = [d \in Closes |-> IF d = c THEN m ELSE rank[d]]
    OBVIOUS
  <1>7. r \in [Closes -> Nat] /\ r[c] = m /\ \A d \in Closes \ {c} : r[d] = rank[d]
    BY <1>6
  <1>8. c \in Orders /\ OrderQty[c] \in Nat /\ OrderQty[c] > 0 /\ border[c].st = "none" /\ Rem(c) = 0 /\ op[c].held = 0
    BY OrdersFinite DEF Orders, OrderFact, Rem, CloseFact, Live
  <1>9. \A d \in Closes : Rem(d) \in Nat
    BY RemNat
  <1>10. Rem(c)' = OrderQty[c] /\ \A d \in Closes \ {c} : Rem(d)' = Rem(d)
    BY <1>8 DEF Rem
  <1>11. ~Pressing(c)' /\ \A d \in Closes \ {c} : Pressing(d)' => Pressing(d)
    BY DEF Pressing
  <1>12. ASSUME NEW n \in Nat, n < m
         PROVE  UpTo(r, n)' = UpTo(rank, n)
    <2>1. ~(m <= n)
      BY <1>12
    <2>2. \A d \in Closes : (IF r[d] <= n THEN Rem(d)' ELSE 0) = (IF rank[d] <= n THEN Rem(d) ELSE 0)
      BY <1>7, <1>8, <1>10, <2>1
    <2> QED
      BY <2>2 DEF UpTo
  <1>13. Total(UpTo(r, k)', Closes) <= position'
    <2>1. UpTo(r, k)' = UpTo(rank, k)
      BY <1>5, <1>12
    <2> QED
      BY <1>1, <2>1 DEF Ranked
  <1>14. Total(UpTo(r, m)', Closes) <= q.decided
    <2>1. PICK f : f = [d \in Closes |-> op[d].held]
      OBVIOUS
    <2>2. PICK g : g = [d \in Closes |-> IF d = c THEN OrderQty[c] ELSE op[d].held]
      OBVIOUS
    <2>3. PICK u : u = UpTo(r, m)'
      OBVIOUS
    <2>4. \A d \in Closes : op[d].held \in Nat /\ op[d].held \in Int
      BY Typed
    <2>5. \A d \in Closes : /\ f[d] \in Int /\ g[d] \in Int /\ u[d] \in Int /\ u[d] <= g[d]
                            /\ (d # c => f[d] = g[d])
      <3> SUFFICES ASSUME NEW d \in Closes
                   PROVE  f[d] \in Int /\ g[d] \in Int /\ u[d] \in Int /\ u[d] <= g[d] /\ (d # c => f[d] = g[d])
        OBVIOUS
      <3>1. f[d] \in Int /\ g[d] \in Int /\ (d # c => f[d] = g[d])
        BY <1>8, <2>1, <2>2, <2>4
      <3>2. CASE d = c
        BY <1>7, <1>8, <1>10, <2>2, <2>3, <3>1, <3>2 DEF UpTo
      <3>3. CASE d # c
        <4>1. u[d] = Rem(d)
          BY <1>3, <1>5, <1>7, <1>10, <2>3, <3>3 DEF UpTo
        <4>2. Rem(d) <= op[d].held
          <5>1. OrderFact(d) /\ CloseFact(d) /\ op[d].filled \in Nat /\ border[d].filled \in Nat
                /\ OrderQty[d] \in Nat /\ op[d].st \in OrderStates
            BY Typed, OrdersFinite
          <5>2. CASE border[d].st = "working"
            <6>1. op[d].st \in Live
              BY <5>1, <5>2 DEF OrderFact, Live, OrderStates
            <6> QED
              BY <5>1, <5>2, <6>1 DEF Rem, CloseFact, OrderFact
          <5>3. CASE border[d].st = "none" /\ op[d].st \in {"pending", "claimed", "sent"}
            BY <5>1, <5>3 DEF Rem, CloseFact, OrderFact, Live
          <5>4. CASE Rem(d) = 0
            BY <2>4, <5>4
          <5> QED
            BY <5>2, <5>3, <5>4 DEF Rem
        <4> QED
          BY <1>9, <2>2, <2>4, <3>1, <3>3, <4>1, <4>2
      <3> QED
        BY <3>1, <3>2, <3>3
    <2>6. Total(g, Closes) = (Total(f, Closes) - f[c]) + g[c] /\ Total(f, Closes) \in Int
      BY <2>5, CloseChanges
    <2>7. f[c] = 0 /\ g[c] = OrderQty[c]
      BY <1>8, <2>1, <2>2
    <2>8. Total(u, Closes) <= Total(g, Closes)
      BY <2>5, OrdersFinite, TotalOrder
    <2>9. Total(u, Closes) \in Int
      BY <2>5, OrdersFinite, TotalStep
    <2>10. HeldBy(Closes) = Total(f, Closes)
      <3>1. PICK W \in SUBSET Closes : W = Closes
        OBVIOUS
      <3>2. MapThenSumSet(LAMBDA d : op[d].held, W) = Total(f, W)
        BY <2>1, <2>4, HeldIsTotal
      <3> QED
        BY <3>1, <3>2 DEF HeldBy
    <2>11. Total(f, Closes) + OrderQty[c] <= snap[c].pos
      BY <2>10 DEF Closable
    <2> QED
      BY <1>8, <2>3, <2>6, <2>7, <2>8, <2>9, <2>11, Typed
  <1>15. ASSUME NEW d \in Closes, Rem(d)' > 0
         PROVE  Total(UpTo(r, r[d])', Closes) <= op'[d].decided /\ (Pressing(d)' => r[d] <= k)
    <2>1. CASE d = c
      BY <1>7, <1>11, <1>14, <2>1
    <2>2. CASE d # c
      <3>1. Rem(d) > 0 /\ r[d] = rank[d] /\ op'[d] = op[d] /\ (Pressing(d)' => Pressing(d))
        BY <1>7, <1>10, <1>11, <1>15, <2>2
      <3>2. Total(UpTo(rank, rank[d]), Closes) <= op[d].decided /\ (Pressing(d) => rank[d] <= k)
        BY <1>1, <3>1 DEF Ranked
      <3>3. PICK n \in Nat : n = rank[d]
        BY <1>3
      <3>4. n < m
        BY <1>5, <3>3
      <3>5. UpTo(r, n)' = UpTo(rank, n)
        BY <1>12, <3>4
      <3> QED
        BY <3>1, <3>2, <3>3, <3>5
    <2> QED
      BY <2>1, <2>2
  <1>16. Ranked(r, k)'
    BY <1>13, <1>15 DEF Ranked
  <1> QED
    BY <1>7, <1>16

LEMMA ProposeKeeps ==
  ASSUME ExposureInv, NEW c \in Closes, Propose(c)
  PROVE  ExposureInv'
  <1>1. UNCHANGED <<accountVars, tracked, gate, importRefused, reduced, byCache, cache>>
        /\ snap[c].pc = "propose" /\ Closable(c) /\ op[c].st = "new"
    BY DEF Propose, ExposureInv, PurposeFact
  <1>2. UNCHANGED <<position, border, bought, sold, start, tracked, gate, importRefused, reduced, byCache, cache>>
    BY <1>1 DEF accountVars
  <1>3. c \in Orders /\ op[c] \in Operations /\ OrderQty[c] \in Nat /\ OrderQty[c] > 0 /\ tracked \in Nat
        /\ snap[c].pos \in Nat
    BY Typed, OrdersFinite DEF ExposureInv, StateTypes
  <1>4. TrackedShare(c) \in Nat /\ TrackedShare(c) <= tracked /\ TrackedShare(c) <= OrderQty[c]
        /\ (TrackedShare(c) < OrderQty[c] => TrackedShare(c) = tracked)
    BY <1>3 DEF TrackedShare, Least
  <1>5. PICK ts \in Nat : ts = TrackedShare(c)
    BY <1>4
  <1>6. PICK q : q = [NewOp EXCEPT !.st = "pending", !.held = OrderQty[c], !.decided = snap[c].pos,
                                   !.tracked = ts, !.external = OrderQty[c] - ts,
                                   !.episode = (snap[c].pos # tracked)]
    OBVIOUS
  <1>7. q = [st |-> "pending", filled |-> 0, held |-> OrderQty[c], decided |-> snap[c].pos, tracked |-> ts,
             external |-> OrderQty[c] - ts, episode |-> (snap[c].pos # tracked),
             usedTracked |-> 0, usedExternal |-> 0]
    BY <1>6 DEF NewOp
  <1>8. q \in Operations /\ q.st = "pending" /\ q.filled = 0 /\ q.held = OrderQty[c] /\ q.decided = snap[c].pos
        /\ q.tracked = ts /\ q.external = OrderQty[c] - ts /\ q.usedTracked = 0 /\ q.usedExternal = 0
        /\ (q.episode <=> snap[c].pos # tracked)
    <2>1. OrderQty[c] - ts \in Nat /\ "pending" \in OrderStates /\ (snap[c].pos # tracked) \in BOOLEAN
      BY <1>3, <1>4, <1>5 DEF OrderStates
    <2> QED
      BY <1>3, <1>7, <2>1 DEF Operations
  <1>9. op' = [op EXCEPT ![c] = q]
    BY <1>5, <1>6 DEF Propose
  <1>10. op' \in [Orders -> Operations] /\ \A o \in Orders : op'[o] = IF o = c THEN q ELSE op[o]
    BY <1>3, <1>8, <1>9 DEF ExposureInv, StateTypes
  <1>11. op'[c] = q /\ \A d \in Closes : op'[d] = IF d = c THEN q ELSE op[d]
    BY <1>3, <1>10 DEF Orders
  <1>12. /\ snap' \in [Closes -> Readings] /\ look' \in Readings /\ head' \in Observations
         /\ \A d \in Closes : ~snap'[d].current /\ snap'[d].pos = snap[d].pos /\ (d # c => snap'[d].pc = snap[d].pc)
         /\ ~head'.current /\ snap'[c].pc = "idle"
    <2>1. /\ snap' = [d \in Closes |-> [snap[d] EXCEPT !.pc = IF d = c THEN "idle" ELSE @, !.current = FALSE]]
          /\ look' = [look EXCEPT !.current = FALSE] /\ head' = [head EXCEPT !.current = FALSE]
      BY DEF Propose
    <2> QED
      BY <2>1 DEF ExposureInv, StateTypes, Readings, Observations
  <1>13. StateTypes'
    BY <1>1, <1>2, <1>10, <1>12 DEF ExposureInv, StateTypes
  <1>14. op[c].filled = 0 /\ op[c].usedExternal = 0 /\ op[c].tracked = 0 /\ border[c].st = "none" /\ gate # c
    <2>1. OrderFact(c) /\ CloseFact(c) /\ op[c].usedTracked \in Nat /\ op[c].usedExternal \in Nat /\ op[c].filled \in Nat
      BY <1>3, Typed DEF ExposureInv, LedgerInv
    <2> QED
      BY <1>1, <2>1 DEF OrderFact, CloseFact
  <1>15. OrderFact(c)' /\ PurposeFact(c)'
    <2>1. OrderFact(c)
      BY <1>3 DEF ExposureInv, LedgerInv
    <2>2. border'[c] = border[c] /\ border[c].filled \in Nat
      BY <1>2, <1>3, Typed DEF ExposureInv
    <2> QED
      BY <1>8, <1>11, <1>12, <1>14, <2>1, <2>2 DEF OrderFact, PurposeFact
  <1>16. Alone /\ ~byCache => position <= tracked
    <2>1. StateTypes /\ op[c].filled <= border[c].filled /\ op[c].filled \in Nat
      BY <1>3, Typed DEF ExposureInv, LedgerInv, OrderFact
    <2>2. op[c].filled + 0 <= border[c].filled
      BY <2>1
    <2>3. start.external \in Nat /\ bought \in Nat /\ sold \in Nat
      BY Typed DEF ExposureInv
    <2>4. Alone => start.external + bought = 0 /\ \A o \in Opens : border[o].filled = 0
      BY <2>3 DEF Alone
    <2>5. PICK n \in Nat : n = 0
      OBVIOUS
    <2>6. Alone /\ ~byCache => position + n <= tracked
      BY <2>2, <2>4, <2>5, NobodyElseTracked
    <2> QED
      BY <2>5, <2>6 DEF ExposureInv, StateTypes
  <1>17. HeldBy(Closes) \in Nat
    <2>1. PICK f : f = [d \in Closes |-> op[d].held]
      OBVIOUS
    <2>2. \A d \in Closes : op[d].held \in Nat /\ op[d].held \in Int
      BY Typed DEF ExposureInv
    <2>3. PICK W \in SUBSET Closes : W = Closes
      OBVIOUS
    <2>4. MapThenSumSet(LAMBDA d : op[d].held, W) = Total(f, W)
      BY <2>1, <2>2, HeldIsTotal
    <2>5. Total(f, Closes) \in Nat
      BY <2>1, <2>2, OrdersFinite, TotalNat
    <2> QED
      BY <2>3, <2>4, <2>5 DEF HeldBy
  <1>18. OrderQty[c] <= snap[c].pos
    BY <1>1, <1>3, <1>17 DEF Closable
  <1>19. CloseFact(c)'
    <2>1. q.held = OrderQty[c] - q.filled /\ q.usedTracked + q.usedExternal = q.filled
          /\ q.usedTracked <= q.tracked /\ q.usedExternal <= q.external /\ q.tracked + q.external = OrderQty[c]
      BY <1>3, <1>4, <1>5, <1>8
    <2>2. ~q.episode => q.external = 0
      BY <1>3, <1>4, <1>5, <1>8, <1>18
    <2> QED
      BY <1>2, <1>8, <1>11, <1>14, <2>1, <2>2 DEF CloseFact, Live
  <1>20. AloneFact(c)'
    <2>1. Alone' => Alone
      BY <1>2 DEF Alone
    <2>2. Alone /\ ~byCache /\ q.external > 0 => position < q.decided
      BY <1>3, <1>4, <1>5, <1>8, <1>16, <1>18 DEF ExposureInv, StateTypes
    <2> QED
      BY <1>2, <1>8, <1>11, <1>12, <2>1, <2>2 DEF AloneFact
  <1>21. DecisionsCovered'
    <2>1. \A d \in Closes : OrderFact(d) /\ CloseFact(d)
      BY DEF ExposureInv, LedgerInv, Orders
    <2>2. \A d \in Closes \ {c} : snap'[d].pc = snap[d].pc /\ snap'[d].pos = snap[d].pos
      BY <1>12
    <2> QED
      BY <1>1, <1>2, <1>8, <1>11, <2>1, <2>2, ProposeDecisions DEF ExposureInv
  <1>22. (\A d \in Closes : SnapFact(d)') /\ HeadFact'
    BY <1>12, Blind
  <1>23. ~byCache /\ q.st \in Live => q.tracked - q.usedTracked <= tracked
                                      \/ \E d \in Closes \ {c} : op[d].tracked # 0
    BY <1>3, <1>4, <1>5, <1>8
  <1>24. \A d \in Closes \ {c} : /\ gate' = d <=> gate = d
                                 /\ snap'[d].pc = snap[d].pc /\ snap'[d].pos = snap[d].pos
    BY <1>2, <1>12
  <1>25. op[c].tracked <= q.tracked /\ q.filled = op[c].filled /\ q.usedExternal = op[c].usedExternal
    BY <1>5, <1>8, <1>14
  <1> QED
    BY <1>1, <1>10, <1>13, <1>15, <1>19, <1>20, <1>21, <1>22, <1>23, <1>24, <1>25, OneCloseKeeps

-----------------------------------------------------------------------------
(* The import of fills                                                     *)

\* The tracked share of an import, and what it leaves of the close's promise.
LEMMA TrackedPartOf ==
  ASSUME StateTypes, NEW x \in Orders, NEW n \in Nat, NEW ended, Reads(x, n, ended), FillAccepted(x, n),
         OrderFact(x), x \in Opens => OpenFact(x), x \in Closes => CloseFact(x)
  PROVE  /\ TrackedPart(x, n) \in Nat /\ TrackedPart(x, n) <= n
         /\ x \in Opens => TrackedPart(x, n) = n
         /\ x \in Closes => /\ TrackedPart(x, n) <= tracked /\ n <= op[x].held
                            /\ op[x].usedTracked + TrackedPart(x, n) <= op[x].tracked
                            /\ op[x].usedExternal + (n - TrackedPart(x, n)) <= op[x].external
  <1>1. /\ op[x].filled \in Nat /\ op[x].held \in Nat /\ op[x].tracked \in Nat /\ op[x].external \in Nat
        /\ op[x].usedTracked \in Nat /\ op[x].usedExternal \in Nat /\ op[x].episode \in BOOLEAN
        /\ border[x].filled \in Nat /\ OrderQty[x] \in Nat
    BY Typed, OrdersFinite
  <1>2. op[x].st = "working" /\ op[x].filled + n <= border[x].filled /\ border[x].filled <= OrderQty[x]
    BY DEF Reads, OrderFact
  <1>3. CASE x \in Opens
    <2>1. ~op[x].episode /\ x \notin Closes
      BY <1>3, OrdersFinite DEF OpenFact
    <2> QED
      BY <1>3, <2>1 DEF TrackedPart
  <1>4. CASE x \in Closes /\ op[x].episode
    <2>1. x \notin Opens
      BY <1>4, OrdersFinite
    <2>2. TrackedPart(x, n) = Least(n, op[x].tracked - op[x].usedTracked)
      BY <1>4 DEF TrackedPart
    <2>3. op[x].usedTracked <= op[x].tracked
      BY <1>4 DEF CloseFact
    <2>4. PICK tp \in Nat : tp = TrackedPart(x, n)
      BY <1>1, <2>2, <2>3 DEF Least
    <2>5. tp <= n /\ op[x].usedTracked + tp <= op[x].tracked
      BY <1>1, <2>2, <2>3, <2>4 DEF Least
    <2>6. tp <= tracked /\ n <= op[x].held /\ n - tp <= op[x].external - op[x].usedExternal
      BY <1>4, <2>1, <2>4 DEF FillAccepted
    <2>7. op[x].usedExternal + (n - tp) <= op[x].external
      BY <1>1, <2>5, <2>6
    <2> QED
      BY <2>1, <2>4, <2>5, <2>6, <2>7
  <1>5. CASE x \in Closes /\ ~op[x].episode
    <2>1. x \notin Opens
      BY <1>5, OrdersFinite
    <2>2. TrackedPart(x, n) = n
      BY <1>5 DEF TrackedPart
    <2>3. n <= tracked /\ n <= op[x].held
      BY <2>1, <2>2 DEF FillAccepted
    <2>4. op[x].external = 0 /\ op[x].tracked = OrderQty[x] /\ op[x].usedExternal = 0 /\ op[x].usedTracked = op[x].filled
      BY <1>1, <1>2, <1>5 DEF CloseFact, Live
    <2> QED
      BY <1>1, <1>2, <2>1, <2>2, <2>3, <2>4
  <1> QED
    BY <1>1, <1>3, <1>4, <1>5 DEF Orders

\* The row an import leaves.
LEMMA ImportedRow ==
  ASSUME ExposureInv, NEW x \in Orders, NEW n \in Nat, NEW ended \in BOOLEAN, Reads(x, n, ended), FillAccepted(x, n),
         NEW q, q = Imported(x, n, ended)
  PROVE  /\ q \in Operations
         /\ q.st = IF ended THEN "done" ELSE "working"
         /\ q.filled = op[x].filled + n
         /\ q.held = IF x \in Opens \/ ended THEN 0 ELSE op[x].held - n
         /\ q.decided = op[x].decided /\ q.tracked = op[x].tracked /\ q.external = op[x].external
         /\ q.episode = op[x].episode /\ q.usedTracked = op[x].usedTracked + TrackedPart(x, n)
         /\ q.usedExternal = op[x].usedExternal + (n - TrackedPart(x, n))
  <1>1. op[x] \in Operations /\ op[x].st = "working"
    BY Typed DEF ExposureInv, Reads
  <1>2. StateTypes /\ OrderFact(x) /\ (x \in Opens => OpenFact(x)) /\ (x \in Closes => CloseFact(x))
    BY DEF ExposureInv, LedgerInv
  <1>3. /\ TrackedPart(x, n) \in Nat /\ TrackedPart(x, n) <= n
        /\ x \in Closes => n <= op[x].held
    BY <1>2, TrackedPartOf
  <1>4. PICK tp \in Nat : tp = TrackedPart(x, n)
    BY <1>3
  <1>5. /\ op[x].filled \in Nat /\ op[x].held \in Nat /\ op[x].usedTracked \in Nat /\ op[x].usedExternal \in Nat
        /\ op[x].decided \in Nat /\ op[x].tracked \in Nat /\ op[x].external \in Nat /\ op[x].episode \in BOOLEAN
    BY <1>1 DEF Operations
  <1>6. PICK st \in OrderStates : st = IF ended THEN "done" ELSE "working"
    BY DEF OrderStates
  <1>7. PICK h \in Nat : h = IF x \in Opens \/ ended THEN 0 ELSE op[x].held - n
    BY <1>3, <1>5 DEF Orders
  <1>8. PICK f \in Nat : f = op[x].filled + n
    BY <1>5
  <1>9. PICK uT \in Nat : uT = op[x].usedTracked + tp
    BY <1>5
  <1>10. PICK uE \in Nat : uE = op[x].usedExternal + (n - tp)
    BY <1>3, <1>4, <1>5
  <1>11. q = [op[x] EXCEPT !.st = st, !.filled = f, !.held = h, !.usedTracked = uT, !.usedExternal = uE]
    <2>1. q = [op[x] EXCEPT !.st = IF ended THEN "done" ELSE op[x].st, !.filled = op[x].filled + n,
                            !.held = IF x \in Opens \/ ended THEN 0 ELSE op[x].held - n,
                            !.usedTracked = op[x].usedTracked + TrackedPart(x, n),
                            !.usedExternal = op[x].usedExternal + n - TrackedPart(x, n)]
      BY DEF Imported
    <2>2. (IF ended THEN "done" ELSE op[x].st) = st /\ (IF x \in Opens \/ ended THEN 0 ELSE op[x].held - n) = h
      BY <1>1, <1>6, <1>7
    <2>3. op[x].filled + n = f /\ op[x].usedTracked + TrackedPart(x, n) = uT
          /\ op[x].usedExternal + n - TrackedPart(x, n) = uE
      BY <1>4, <1>8, <1>9, <1>10
    <2> QED
      BY <2>1, <2>2, <2>3
  <1>12. q = [st |-> st, filled |-> f, held |-> h, decided |-> op[x].decided, tracked |-> op[x].tracked,
              external |-> op[x].external, episode |-> op[x].episode, usedTracked |-> uT, usedExternal |-> uE]
    BY <1>1, <1>11 DEF Operations
  <1> QED
    BY <1>4, <1>5, <1>6, <1>7, <1>8, <1>9, <1>10, <1>12 DEF Operations

\* The books after an import.
LEMMA ImportBooks ==
  ASSUME ExposureInv, NEW x \in Orders, NEW n \in Nat, NEW tp \in Nat, tp <= n, NEW q,
         UNCHANGED <<position, border, bought, sold, start, reduced, byCache>>,
         \A o \in Orders : op'[o] = IF o = x THEN q ELSE op[o],
         q.filled = op[x].filled + n, q.usedExternal = op[x].usedExternal + (n - tp), x \in Opens => tp = n,
         tracked' = IF x \in Opens THEN tracked + n ELSE tracked - tp
  PROVE  BooksBalance' /\ WriteOffsEarned'
  <1>1. PICK f : f = Booked
    OBVIOUS
  <1>2. PICK g : g = Booked'
    OBVIOUS
  <1>3. PICK u : u = Outside
    OBVIOUS
  <1>4. PICK v : v = Outside'
    OBVIOUS
  <1>5. \A o \in Orders : /\ op[o].filled \in Nat /\ op[o].usedExternal \in Nat
                          /\ op'[o].filled = op[o].filled + (IF o = x THEN n ELSE 0)
                          /\ op'[o].usedExternal = op[o].usedExternal + (IF o = x THEN n - tp ELSE 0)
    BY Typed DEF ExposureInv
  <1>6. \A o \in Orders : f[o] \in Int /\ g[o] \in Int /\ (o # x => f[o] = g[o])
    BY <1>1, <1>2, <1>5 DEF Booked
  <1>7. f[x] \in Int /\ g[x] = IF x \in Opens THEN f[x] + n ELSE f[x] - n
    BY <1>1, <1>2, <1>5 DEF Booked
  <1>8. Total(g, Orders) = (Total(f, Orders) - f[x]) + g[x] /\ Total(f, Orders) \in Int
    BY <1>6, OrderChanges
  <1>9. PICK b \in Int : b = Total(f, Orders)
    BY <1>8
  <1>10. PICK b2 \in Int : b2 = Total(g, Orders)
    BY <1>6, <1>7, <1>8
  <1>11. b2 = IF x \in Opens THEN b + n ELSE b - n
    BY <1>7, <1>8, <1>9, <1>10
  <1>12. \A d \in Closes : u[d] \in Nat /\ v[d] = u[d] + (IF d = x THEN n - tp ELSE 0)
    BY <1>3, <1>4, <1>5 DEF Outside, Orders
  <1>13. PICK e \in Nat : e = Total(u, Closes)
    BY <1>12, OrdersFinite, TotalNat
  <1>14. PICK e2 : e2 = Total(v, Closes)
    OBVIOUS
  <1>15. e2 = IF x \in Opens THEN e ELSE e + (n - tp)
    <2>1. CASE x \in Opens
      <3>1. \A d \in Closes : v[d] = u[d]
        BY <1>12, <2>1, OrdersFinite
      <3>2. v = u
        BY <1>3, <1>4, <3>1 DEF Outside
      <3> QED
        BY <1>13, <1>14, <2>1, <3>2
    <2>2. CASE x \notin Opens
      <3>1. x \in Closes
        BY <2>2 DEF Orders
      <3>2. \A d \in Closes : u[d] \in Int /\ v[d] \in Int /\ (d # x => u[d] = v[d])
        BY <1>12
      <3>3. Total(v, Closes) = (Total(u, Closes) - u[x]) + v[x]
        BY <3>1, <3>2, CloseChanges
      <3>4. u[x] \in Nat /\ v[x] = u[x] + (n - tp)
        BY <1>12, <3>1
      <3> QED
        BY <1>13, <1>14, <2>2, <3>3, <3>4
    <2> QED
      BY <2>1, <2>2
  <1>16. tracked \in Nat /\ reduced \in Nat /\ start.tracked \in Nat /\ start.external \in Nat /\ sold \in Nat
    BY Typed DEF ExposureInv, StateTypes
  <1>17. tracked + reduced = start.tracked + b + e
    BY <1>1, <1>3, <1>9, <1>13 DEF ExposureInv, LedgerInv, BooksBalance
  <1>18. tracked' + reduced = start.tracked + b2 + e2
    <2>1. CASE x \in Opens
      <3>1. tracked' = tracked + n /\ b2 = b + n /\ e2 = e
        BY <1>11, <1>15, <2>1
      <3> QED
        BY <1>16, <1>17, <3>1
    <2>2. CASE x \notin Opens
      <3>1. tracked' = tracked - tp /\ b2 = b - n /\ e2 = e + (n - tp)
        BY <1>11, <1>15, <2>2
      <3> QED
        BY <1>16, <1>17, <3>1
    <2> QED
      BY <2>1, <2>2
  <1>19. Moved' = Moved
    BY DEF Moved
  <1>20. BooksBalance'
    <2>1. position' = (start.tracked + start.external + bought - sold)' + Total(Moved', Orders)
      BY <1>19 DEF ExposureInv, LedgerInv, BooksBalance
    <2> QED
      BY <1>2, <1>4, <1>10, <1>14, <1>18, <2>1 DEF BooksBalance
  <1>21. WriteOffsEarned'
    <2>1. reduced <= Positive(sold + e - start.external) \/ byCache
      BY <1>3, <1>13 DEF ExposureInv, LedgerInv, WriteOffsEarned
    <2>2. e <= e2 /\ e2 \in Nat
      BY <1>13, <1>15
    <2>3. reduced <= Positive(sold + e2 - start.external) \/ byCache
      BY <1>16, <2>1, <2>2 DEF Positive
    <2> QED
      BY <1>4, <1>14, <2>3 DEF WriteOffsEarned
  <1> QED
    BY <1>20, <1>21

LEMMA ApplyOrderUpdateKeeps ==
  ASSUME ExposureInv, NEW x \in Orders, NEW n \in 0 .. OrderQty[x], NEW ended \in BOOLEAN,
         ApplyOrderUpdate(x, n, ended)
  PROVE  ExposureInv'
  <1>1. UNCHANGED <<accountVars, gate, importRefused, reduced, byCache, cache>> /\ Outdated
        /\ Reads(x, n, ended) /\ FillAccepted(x, n) /\ op' = [op EXCEPT ![x] = Imported(x, n, ended)]
        /\ tracked' = IF x \in Opens THEN tracked + n ELSE tracked - TrackedPart(x, n)
    BY DEF ApplyOrderUpdate
  <1>2. UNCHANGED <<position, border, bought, sold, start, gate, importRefused, reduced, byCache, cache>>
    BY <1>1 DEF accountVars
  <1>3. n \in Nat /\ OrderQty[x] \in Nat /\ OrderQty[x] > 0
    BY OrdersFinite
  <1>4. StateTypes /\ OrderFact(x) /\ (x \in Opens => OpenFact(x)) /\ (x \in Closes => CloseFact(x))
    BY DEF ExposureInv, LedgerInv
  <1>5. PICK tp \in Nat :
          /\ tp = TrackedPart(x, n) /\ tp <= n
          /\ x \in Opens => tp = n
          /\ x \in Closes => /\ tp <= tracked /\ n <= op[x].held
                             /\ op[x].usedTracked + tp <= op[x].tracked
                             /\ op[x].usedExternal + (n - tp) <= op[x].external
    <2>1. /\ TrackedPart(x, n) \in Nat /\ TrackedPart(x, n) <= n
          /\ x \in Opens => TrackedPart(x, n) = n
          /\ x \in Closes => /\ TrackedPart(x, n) <= tracked /\ n <= op[x].held
                             /\ op[x].usedTracked + TrackedPart(x, n) <= op[x].tracked
                             /\ op[x].usedExternal + (n - TrackedPart(x, n)) <= op[x].external
      BY <1>1, <1>3, <1>4, TrackedPartOf
    <2> QED
      BY <2>1
  <1>6. PICK q : q = Imported(x, n, ended)
    OBVIOUS
  <1>7. /\ q \in Operations
        /\ q.st = IF ended THEN "done" ELSE "working"
        /\ q.filled = op[x].filled + n
        /\ q.held = IF x \in Opens \/ ended THEN 0 ELSE op[x].held - n
        /\ q.decided = op[x].decided /\ q.tracked = op[x].tracked /\ q.external = op[x].external
        /\ q.episode = op[x].episode /\ q.usedTracked = op[x].usedTracked + tp
        /\ q.usedExternal = op[x].usedExternal + (n - tp)
    BY <1>1, <1>3, <1>5, <1>6, ImportedRow
  <1>8. op' \in [Orders -> Operations] /\ \A o \in Orders : op'[o] = IF o = x THEN q ELSE op[o]
    BY <1>1, <1>4, <1>6, <1>7 DEF StateTypes
  <1>9. tracked' \in Nat /\ tracked' = IF x \in Opens THEN tracked + n ELSE tracked - tp
    <2>1. tracked \in Nat
      BY <1>4 DEF StateTypes
    <2>2. CASE x \in Opens
      BY <1>1, <1>3, <2>1, <2>2
    <2>3. CASE x \notin Opens
      <3>1. tp <= tracked /\ tracked' = tracked - tp
        BY <1>1, <1>5, <2>3 DEF Orders
      <3> QED
        BY <2>1, <2>3, <3>1
    <2> QED
      BY <2>2, <2>3
  <1>10. /\ snap' \in [Closes -> Readings] /\ look' \in Readings /\ head' \in Observations
         /\ \A d \in Closes : ~snap'[d].current /\ snap'[d].pos = snap[d].pos /\ snap'[d].pc = snap[d].pc
         /\ ~head'.current
    BY <1>1 DEF Outdated, ExposureInv, StateTypes, Readings, Observations
  <1>11. StateTypes'
    BY <1>2, <1>4, <1>8, <1>9, <1>10 DEF StateTypes
  <1>12. /\ op[x].st = "working" /\ op[x].filled + n <= border[x].filled
         /\ ended => border[x].st = "ended" /\ op[x].filled + n = border[x].filled
         /\ border[x].st \in {"working", "ended"} /\ op[x].filled \in Nat /\ border[x].filled \in Nat
    BY <1>1, <1>4, Typed DEF Reads, OrderFact
  <1>13. \A o \in Orders : OrderFact(o)'
    <2> SUFFICES ASSUME NEW o \in Orders PROVE OrderFact(o)'
      OBVIOUS
    <2>1. OrderFact(o)
      BY DEF ExposureInv, LedgerInv
    <2>2. CASE o = x
      <3>1. op'[o].st = (IF ended THEN "done" ELSE "working") /\ op'[o].filled = op[x].filled + n
        BY <1>7, <1>8, <2>2
      <3> QED
        BY <1>2, <1>12, <2>1, <2>2, <3>1 DEF OrderFact
    <2>3. CASE o # x
      BY <1>2, <1>8, <2>1, <2>3 DEF OrderFact
    <2> QED
      BY <2>2, <2>3
  <1>14. \A o \in Opens : OpenFact(o)'
    <2> SUFFICES ASSUME NEW o \in Opens PROVE OpenFact(o)'
      OBVIOUS
    <2>1. OpenFact(o) /\ o \in Orders
      BY DEF ExposureInv, LedgerInv, Orders
    <2> QED
      BY <1>2, <1>7, <1>8, <2>1 DEF OpenFact
  <1>15. \A d \in Closes : CloseFact(d)'
    <2> SUFFICES ASSUME NEW d \in Closes PROVE CloseFact(d)'
      OBVIOUS
    <2>1. CloseFact(d) /\ d \in Orders /\ d \notin Opens
      BY OrdersFinite DEF ExposureInv, LedgerInv, Orders
    <2>2. CASE d # x
      BY <1>2, <1>8, <2>1, <2>2 DEF CloseFact
    <2>3. CASE d = x
      <3>1. op'[d] = q
        BY <1>8, <2>1, <2>3
      <3>2. /\ op[d].held \in Nat /\ op[d].tracked \in Nat /\ op[d].external \in Nat
            /\ op[d].usedTracked \in Nat /\ op[d].usedExternal \in Nat
        BY <1>4, <2>1, Typed
      <3>3. op[d].held = OrderQty[d] - op[d].filled /\ op[d].tracked + op[d].external = OrderQty[d] /\ gate # d
        BY <1>12, <2>1, <2>3 DEF CloseFact, Live
      <3>4. q.held = IF q.st \in Live THEN OrderQty[d] - q.filled ELSE 0
        <4>1. CASE ended
          BY <1>7, <4>1 DEF Live
        <4>2. CASE ~ended
          <5>1. q.st = "working" /\ q.held = op[d].held - n /\ q.filled = op[d].filled + n
            BY <1>7, <2>1, <2>3, <4>2
          <5> QED
            BY <1>3, <1>12, <2>3, <3>2, <3>3, <5>1 DEF Live
        <4> QED
          BY <4>1, <4>2
      <3>5. q.usedTracked + q.usedExternal = q.filled
        <4>1. op[d].usedTracked + op[d].usedExternal = op[d].filled
          BY <2>1 DEF CloseFact
        <4>2. /\ q.usedTracked = op[d].usedTracked + tp /\ q.usedExternal = op[d].usedExternal + (n - tp)
              /\ q.filled = op[d].filled + n
          BY <1>7, <2>3
        <4>3. PICK uT \in Nat : uT = op[d].usedTracked
          BY <3>2
        <4>4. PICK uE \in Nat : uE = op[d].usedExternal
          BY <3>2
        <4>5. (uT + tp) + (uE + (n - tp)) = (uT + uE) + n
          BY <1>3
        <4> QED
          BY <4>1, <4>2, <4>3, <4>4, <4>5
      <3>6. q.usedTracked <= q.tracked /\ q.usedExternal <= q.external
        BY <1>5, <1>7, <2>3
      <3>7. q.tracked + q.external = OrderQty[d]
        BY <1>7, <2>3, <3>3
      <3>8. ~q.episode => q.external = 0
        BY <1>7, <2>1, <2>3 DEF CloseFact
      <3>9. q.st \in {"done", "working"} /\ gate' # d
        BY <1>2, <1>7, <3>3
      <3> QED
        BY <3>1, <3>4, <3>5, <3>6, <3>7, <3>8, <3>9 DEF CloseFact
    <2> QED
      BY <2>2, <2>3
  <1>16. BooksBalance' /\ WriteOffsEarned'
    BY <1>2, <1>3, <1>5, <1>7, <1>8, <1>9, ImportBooks
  <1>17. (Total(Rest, Closes) <= position)'
    <2>1. Rest' = Rest
      BY <1>2 DEF Rest
    <2> QED
      BY <1>2, <2>1 DEF ExposureInv, LedgerInv
  <1>18. PromiseKept'
    <2> SUFFICES ASSUME ~byCache, NEW d \in Closes, op'[d].st \in Live,
                        \A e \in Closes \ {d} : op'[e].tracked = 0
                 PROVE  op'[d].tracked - op'[d].usedTracked <= tracked'
      BY <1>2 DEF PromiseKept
    <2>1. \A e \in Closes : op'[e].tracked = op[e].tracked
      BY <1>7, <1>8 DEF Orders
    <2>2. op[d].st \in Live
      BY <1>7, <1>8, <1>12 DEF Orders, Live
    <2>3. op[d].tracked - op[d].usedTracked <= tracked /\ op[d].tracked \in Nat /\ op[d].usedTracked \in Nat
          /\ tracked \in Nat
      BY <1>4, <2>1, <2>2, Typed DEF ExposureInv, LedgerInv, PromiseKept, StateTypes
    <2>4. CASE d = x
      <3>1. x \notin Opens /\ op'[d].usedTracked = op[d].usedTracked + tp /\ op'[d].tracked = op[d].tracked
        BY <1>7, <1>8, <2>1, <2>4, OrdersFinite
      <3> QED
        BY <1>9, <2>3, <3>1
    <2>5. CASE d # x
      <3>1. op'[d] = op[d]
        BY <1>8, <2>5 DEF Orders
      <3>2. tracked <= tracked'
        <4>1. CASE x \in Opens
          BY <1>3, <1>9, <2>3, <4>1
        <4>2. CASE x \in Closes
          <5>1. op[x].tracked = 0 /\ op[x].usedTracked \in Nat
            BY <1>4, <2>1, <2>5, <4>2, Typed
          <5>2. tp = 0
            BY <1>5, <4>2, <5>1
          <5>3. x \notin Opens
            BY <4>2, OrdersFinite
          <5> QED
            BY <1>9, <2>3, <5>2, <5>3
        <4> QED
          BY <4>1, <4>2 DEF Orders
      <3> QED
        BY <1>9, <2>3, <3>1, <3>2
    <2> QED
      BY <2>4, <2>5
  <1>19. FillsAreImported'
    <2>1. \A e \in Closes : op'[e].tracked = op[e].tracked
      BY <1>7, <1>8 DEF Orders
    <2> QED
      BY <1>2, <2>1 DEF ExposureInv, LedgerInv, FillsAreImported
  <1>20. \A d \in Closes : PurposeFact(d)'
    BY <1>7, <1>8, <1>10, <1>12 DEF ExposureInv, PurposeFact, Orders
  <1>21. \A d \in Closes : AloneFact(d)'
    <2> SUFFICES ASSUME NEW d \in Closes PROVE AloneFact(d)'
      OBVIOUS
    <2>1. AloneFact(d) /\ d \in Orders
      BY DEF ExposureInv, Orders
    <2>2. CASE d # x
      BY <1>2, <1>8, <1>10, <2>1, <2>2 DEF AloneFact, Alone
    <2>3. CASE d = x
      BY <1>2, <1>7, <1>8, <1>10, <1>12, <2>1, <2>3 DEF AloneFact, Alone
    <2> QED
      BY <2>2, <2>3
  <1>22. DecisionsCovered'
    <2>1. \A d \in Closes : Rem(d) \in Nat
      BY RemNat DEF ExposureInv, LedgerInv, Orders
    <2>2. \A d \in Closes : Rem(d)' = Rem(d) /\ op'[d].decided = op[d].decided /\ (Pressing(d)' => Pressing(d))
      <3> SUFFICES ASSUME NEW d \in Closes
                   PROVE  Rem(d)' = Rem(d) /\ op'[d].decided = op[d].decided /\ (Pressing(d)' => Pressing(d))
        OBVIOUS
      <3>1. CASE d # x
        BY <1>2, <1>8, <1>10, <3>1 DEF Rem, Pressing, Orders
      <3>2. CASE d = x
        BY <1>2, <1>7, <1>8, <1>12, <3>2 DEF Rem, Pressing
      <3> QED
        BY <3>1, <3>2
    <2>3. \A d \in Closes : /\ Rem(d) \in Nat /\ Rem(d)' \in Nat /\ Rem(d)' <= Rem(d)
                            /\ Rem(d)' > 0 => op'[d].decided = op[d].decided /\ (Pressing(d)' => Pressing(d))
                            /\ sold = 0 /\ border'[d].st = "rejected" => border[d].st = "rejected"
      BY <1>2, <2>1, <2>2
    <2>4. sold <= sold' /\ position <= position'
      BY <1>2, Typed DEF ExposureInv, StateTypes
    <2> QED
      BY <1>11, <2>3, <2>4, DecisionsKept DEF ExposureInv
  <1>23. (\A d \in Closes : SnapFact(d)') /\ HeadFact'
    BY <1>10, Blind
  <1>24. LedgerInv'
    BY <1>13, <1>14, <1>15, <1>16, <1>17, <1>18, <1>19 DEF LedgerInv
  <1> QED
    BY <1>11, <1>20, <1>21, <1>22, <1>23, <1>24 DEF ExposureInv

\* An import is refused only where the account holds shares the ledger does not
\* know of, and more than one close was promised tracked ones.
LEMMA RefusedImport ==
  ASSUME ExposureInv, NEW x \in Orders, NEW n \in Nat, NEW ended, Reads(x, n, ended), ~FillAccepted(x, n), ~byCache
  PROVE  /\ start.external + bought > 0 \/ \E o \in Opens : border[o].filled > 0
         /\ \E c, d \in Closes : c # d /\ op[c].tracked > 0 /\ op[d].tracked > 0
  <1>1. x \in Closes /\ x \notin Opens
    BY OrdersFinite DEF FillAccepted, Orders
  <1>2. OrderFact(x) /\ CloseFact(x)
    BY <1>1 DEF ExposureInv, LedgerInv
  <1>3. /\ op[x].filled \in Nat /\ op[x].held \in Nat /\ op[x].tracked \in Nat /\ op[x].external \in Nat
        /\ op[x].usedTracked \in Nat /\ op[x].usedExternal \in Nat /\ op[x].episode \in BOOLEAN
        /\ border[x].filled \in Nat /\ OrderQty[x] \in Nat /\ tracked \in Nat /\ position \in Nat
    BY Typed, OrdersFinite DEF ExposureInv, StateTypes
  <1>4. op[x].st = "working" /\ op[x].filled + n <= border[x].filled /\ border[x].filled <= OrderQty[x]
    BY <1>2 DEF Reads, OrderFact
  <1>5. /\ op[x].held = OrderQty[x] - op[x].filled /\ op[x].tracked + op[x].external = OrderQty[x]
        /\ op[x].usedTracked + op[x].usedExternal = op[x].filled
        /\ op[x].usedTracked <= op[x].tracked /\ op[x].usedExternal <= op[x].external
    BY <1>2, <1>4 DEF CloseFact, Live
  <1>6. tracked < TrackedPart(x, n) /\ TrackedPart(x, n) <= n
        /\ TrackedPart(x, n) <= op[x].tracked - op[x].usedTracked
    <2>1. n <= op[x].held
      BY <1>3, <1>4, <1>5
    <2>2. CASE op[x].episode
      <3>1. TrackedPart(x, n) = Least(n, op[x].tracked - op[x].usedTracked)
        BY <2>2 DEF TrackedPart
      <3>2. PICK tp \in Nat : tp = TrackedPart(x, n)
        BY <1>3, <1>5, <3>1 DEF Least
      <3>3. tp <= n /\ tp <= op[x].tracked - op[x].usedTracked /\ (tp = n \/ tp = op[x].tracked - op[x].usedTracked)
        BY <1>3, <1>5, <3>1, <3>2 DEF Least
      <3>4. n - tp <= op[x].external - op[x].usedExternal
        BY <1>3, <1>4, <1>5, <3>3
      <3>5. ~(tp <= tracked)
        BY <1>1, <2>1, <3>2, <3>4 DEF FillAccepted
      <3> QED
        BY <1>3, <3>2, <3>3, <3>5
    <2>3. CASE ~op[x].episode
      <3>1. TrackedPart(x, n) = n
        BY <2>3 DEF TrackedPart
      <3>2. op[x].external = 0
        BY <1>2, <2>3 DEF CloseFact
      <3>3. n <= op[x].tracked - op[x].usedTracked
        BY <1>3, <1>4, <1>5, <3>2
      <3>4. ~(n <= tracked)
        BY <1>1, <2>1, <2>3, <3>1 DEF FillAccepted
      <3> QED
        BY <1>3, <3>1, <3>3, <3>4
    <2> QED
      BY <1>3, <2>2, <2>3
  <1>7. PICK tp \in Int : tp = TrackedPart(x, n)
    <2>1. TrackedPart(x, n) \in Int
      BY <1>3 DEF TrackedPart, Least
    <2> QED
      BY <2>1
  <1>8. tracked < tp /\ tp <= n /\ tp <= op[x].tracked - op[x].usedTracked
    BY <1>6, <1>7
  <1>9. start.external + bought > 0 \/ \E o \in Opens : border[o].filled > 0
    <2> SUFFICES ASSUME ~(start.external + bought > 0), \A o \in Opens : ~(border[o].filled > 0)
                 PROVE  FALSE
      OBVIOUS
    <2>1. start.external + bought = 0
      BY Typed DEF ExposureInv
    <2>2. \A o \in Opens : border[o].filled = 0
      BY Typed DEF ExposureInv
    <2>3. position + n <= tracked
      BY <1>1, <1>4, <2>1, <2>2, NobodyElseTracked
    <2> QED
      BY <1>3, <1>8, <2>3
  <1>10. op[x].tracked > 0
    BY <1>3, <1>8
  <1>11. PICK d \in Closes \ {x} : op[d].tracked # 0
    <2>1. ~(op[x].tracked - op[x].usedTracked <= tracked)
      BY <1>3, <1>7, <1>8
    <2>2. op[x].st \in Live
      BY <1>4 DEF Live
    <2> QED
      BY <1>1, <2>1, <2>2 DEF ExposureInv, LedgerInv, PromiseKept
  <1>12. op[d].tracked > 0
    BY <1>11, Typed DEF ExposureInv
  <1> QED
    BY <1>1, <1>9, <1>10, <1>11, <1>12

LEMMA IntegrityFailureKeeps ==
  ASSUME ExposureInv, NEW x \in Orders, NEW n \in 0 .. OrderQty[x], NEW ended \in BOOLEAN,
         IntegrityFailure(x, n, ended)
  PROVE  ExposureInv'
  <1>1. UNCHANGED <<accountVars, tracked, op, gate, head, reduced, byCache, readVars>> /\ importRefused' = TRUE
        /\ Reads(x, n, ended) /\ ~FillAccepted(x, n)
    BY DEF IntegrityFailure, reconVars
  <1>2. UNCHANGED <<position, border, bought, sold, start, tracked, op, gate, head, reduced, byCache, snap, look, cache>>
    BY <1>1 DEF accountVars, readVars
  <1>3. n \in Nat
    BY OrdersFinite
  <1>4. FillsAreImported'
    <2> SUFFICES ASSUME ~byCache
                 PROVE  /\ start.external + bought > 0 \/ \E o \in Opens : border[o].filled > 0
                        /\ \E c, d \in Closes : c # d /\ op[c].tracked > 0 /\ op[d].tracked > 0
      BY <1>2 DEF FillsAreImported
    <2> QED
      BY <1>1, <1>3, RefusedImport
  <1>5. StateTypes'
    BY <1>1, <1>2 DEF ExposureInv, StateTypes
  <1>6. Moved' = Moved /\ Booked' = Booked /\ Outside' = Outside /\ Rest' = Rest
    BY <1>2 DEF Moved, Booked, Outside, Rest
  <1>7. (\A o \in Orders : OrderFact(o)') /\ (\A o \in Opens : OpenFact(o)') /\ (\A c \in Closes : CloseFact(c)')
    BY <1>2 DEF ExposureInv, LedgerInv, OrderFact, OpenFact, CloseFact
  <1>8. BooksBalance' /\ (Total(Rest, Closes) <= position)' /\ WriteOffsEarned'
    BY <1>2, <1>6 DEF ExposureInv, LedgerInv, BooksBalance, WriteOffsEarned
  <1>9. PromiseKept'
    BY <1>2 DEF ExposureInv, LedgerInv, PromiseKept
  <1>10. \A c \in Closes : PurposeFact(c)'
    BY <1>2 DEF ExposureInv, PurposeFact
  <1>11. \A c \in Closes : AloneFact(c)'
    BY <1>2 DEF ExposureInv, AloneFact, Alone
  <1>12. (\A c \in Closes : SnapFact(c)') /\ HeadFact'
    <2>1. \A o \in Orders : op'[o].filled = op[o].filled /\ border[o].filled <= border'[o].filled
      BY <1>2, Typed DEF ExposureInv
    <2>2. StateTypes /\ start' = start /\ sold <= sold' /\ (\A d \in Closes : SnapFact(d)) /\ HeadFact
      BY <1>2, Typed DEF ExposureInv
    <2> QED
      BY <1>2, <1>5, <2>1, <2>2, SightKept
  <1>13. DecisionsCovered'
    <2>1. UNCHANGED <<op, snap>> /\ sold <= sold' /\ position <= position'
      BY <1>2, Typed DEF ExposureInv, StateTypes
    <2>2. \A c \in Closes : /\ Rem(c)' \in Nat /\ Rem(c)' <= Rem(c)
                            /\ sold = 0 /\ border'[c].st = "rejected" => border[c].st = "rejected"
      BY <1>2, RemNat DEF Rem, ExposureInv, LedgerInv, Orders
    <2> QED
      BY <1>5, <2>1, <2>2, AccountDecisions
  <1>14. LedgerInv'
    BY <1>4, <1>7, <1>8, <1>9 DEF LedgerInv
  <1> QED
    BY <1>5, <1>10, <1>11, <1>12, <1>13, <1>14 DEF ExposureInv

-----------------------------------------------------------------------------
(* The reconciliation                                                      *)

\* The head that a reconciliation applies shows the fills that are imported.
LEMMA HeadIsTrue ==
  ASSUME ExposureInv, ReconcileAllowed, head.source = "authority"
  PROVE  /\ (start.tracked + start.external - sold) + Total(Booked, Orders) <= head.pos
         /\ \A d \in Closes : op[d].st = "working" => OrderQty[d] - op[d].filled <= head.pos
  <1>1. PICK F \in [Orders -> Nat] :
          /\ Sees(head.pos, F)
          /\ \A o \in Orders : head.orders[o] # None =>
               /\ F[o] <= head.orders[o]
               /\ o \in Closes /\ op[o].st = "working" => OrderQty[o] - F[o] <= head.pos
    BY DEF ExposureInv, HeadFact, ReconcileAllowed
  <1>2. \A o \in Orders : op[o].st = "working" => head.orders[o] = op[o].filled /\ head.orders[o] # None
    BY Typed, OrdersFinite DEF ReconcileAllowed, Lagged, ExposureInv
  <1>3. ASSUME NEW o \in Orders PROVE F[o] = op[o].filled
    <2>1. op[o].filled <= F[o] /\ F[o] <= border[o].filled /\ F[o] \in Nat /\ OrderFact(o)
          /\ op[o].filled \in Nat /\ border[o].filled \in Nat /\ op[o].st \in OrderStates
      BY <1>1, Typed DEF Sees, ExposureInv, LedgerInv
    <2>2. op[o].st # "sent"
      <3>1. CASE o \in Opens
        BY <3>1 DEF ExposureInv, LedgerInv, OpenFact
      <3>2. CASE o \in Closes
        <4>1. gate # o
          BY OrdersFinite DEF ReconcileAllowed
        <4> QED
          BY <3>2, <4>1 DEF ExposureInv, LedgerInv, CloseFact
      <3> QED
        BY <3>1, <3>2 DEF Orders
    <2>3. CASE op[o].st = "working"
      <3>1. F[o] <= op[o].filled
        BY <1>1, <1>2, <2>3
      <3> QED
        BY <2>1, <3>1
    <2>4. CASE op[o].st = "done"
      BY <2>1, <2>4 DEF OrderFact
    <2>5. CASE op[o].st \in {"new", "pending", "claimed", "failed"}
      <3>1. border[o].filled = 0
        BY <2>1, <2>5 DEF OrderFact
      <3> QED
        BY <2>1, <3>1
    <2> QED
      BY <2>1, <2>2, <2>3, <2>4, <2>5 DEF OrderStates
  <1>4. Fills(F) = Booked
    BY <1>3 DEF Fills, Booked
  <1>5. (start.tracked + start.external - sold) + Total(Booked, Orders) <= head.pos
    BY <1>1, <1>4 DEF Sees
  <1>6. ASSUME NEW d \in Closes, op[d].st = "working" PROVE OrderQty[d] - op[d].filled <= head.pos
    <2>1. d \in Orders
      BY DEF Orders
    <2> QED
      BY <1>1, <1>2, <1>3, <1>6, <2>1
  <1> QED
    BY <1>5, <1>6

\* What a reconciliation writes off.
LEMMA WriteOff ==
  ASSUME StateTypes
  PROVE  /\ TrackedAfter \in Nat /\ TrackedAfter <= tracked /\ WrittenOff \in Nat
         /\ tracked - WrittenOff = TrackedAfter
         /\ WrittenOff > 0 => TrackedAfter = head.pos
  <1>1. tracked \in Nat /\ head.pos \in Nat
    BY DEF StateTypes, Observations
  <1> QED
    BY <1>1 DEF TrackedAfter, WrittenOff, Least, Positive

LEMMA ReconcileWriteOffs ==
  ASSUME ExposureInv, ReconcileAllowed, UNCHANGED <<sold, start>>, Outside' = Outside,
         reduced' = reduced + WrittenOff,
         byCache' = (byCache \/ (WrittenOff > 0 /\ head.source = "read_model"))
  PROVE  WriteOffsEarned'
  <1> SUFFICES ASSUME ~byCache' PROVE WriteOffsEarned'
    BY DEF WriteOffsEarned
  <1>1. ~byCache /\ (WrittenOff > 0 => head.source = "authority")
    BY DEF ExposureInv, StateTypes, Observations
  <1>2. /\ start.tracked \in Nat /\ start.external \in Nat /\ sold \in Nat /\ reduced \in Nat /\ tracked \in Nat
        /\ head.pos \in Nat
    BY Typed DEF ExposureInv, StateTypes, Observations
  <1>3. Total(Outside, Closes) \in Int
    <2>1. \A d \in Closes : Outside[d] \in Int
      BY Typed DEF ExposureInv, Outside
    <2> QED
      BY <2>1, OrdersFinite, TotalStep
  <1>4. Total(Booked, Orders) \in Int
    <2>1. \A o \in Orders : Booked[o] \in Int
      BY Typed DEF ExposureInv, Booked
    <2>2. IsFiniteSet(Orders)
      BY OrdersFinite
    <2> QED
      BY <2>1, <2>2, TotalStep
  <1>5. PICK e \in Int : e = Total(Outside, Closes)
    BY <1>3
  <1>6. PICK b \in Int : b = Total(Booked, Orders)
    BY <1>4
  <1>7. reduced <= Positive(sold + e - start.external)
    BY <1>1, <1>5 DEF ExposureInv, LedgerInv, WriteOffsEarned
  <1>8. WrittenOff \in Nat /\ tracked - WrittenOff = TrackedAfter /\ (WrittenOff > 0 => TrackedAfter = head.pos)
    BY WriteOff DEF ExposureInv
  <1>9. PICK w \in Nat : w = WrittenOff
    BY <1>8
  <1>10. reduced + w <= Positive(sold + e - start.external)
    <2>1. CASE w = 0
      BY <1>2, <1>7, <2>1
    <2>2. CASE w > 0
      <3>1. (start.tracked + start.external - sold) + b <= head.pos
        BY <1>1, <1>6, <1>9, <2>2, HeadIsTrue
      <3>2. tracked + reduced = start.tracked + b + e
        BY <1>5, <1>6 DEF ExposureInv, LedgerInv, BooksBalance
      <3>3. tracked - w = head.pos
        BY <1>8, <1>9, <2>2
      <3>4. reduced + w <= sold + e - start.external
        BY <1>2, <3>1, <3>2, <3>3
      <3> QED
        BY <1>2, <3>4 DEF Positive
    <2> QED
      BY <2>1, <2>2
  <1>11. reduced' <= Positive(sold' + Total(Outside, Closes)' - start'.external)
    BY <1>5, <1>9, <1>10
  <1> QED
    BY <1>11 DEF WriteOffsEarned

LEMMA ReconcilePromise ==
  ASSUME ExposureInv, ReconcileAllowed, tracked' = TrackedAfter,
         byCache' = (byCache \/ (WrittenOff > 0 /\ head.source = "read_model")),
         \A d \in Closes : /\ op'[d].st \in Live => op[d].st \in Live /\ ~(EpisodeNeeded /\ d \in StaleWork)
                           /\ op'[d].tracked = op[d].tracked /\ op'[d].usedTracked = op[d].usedTracked
  PROVE  PromiseKept'
  <1> SUFFICES ASSUME ~byCache', NEW d \in Closes, op'[d].st \in Live, \A e \in Closes \ {d} : op'[e].tracked = 0
               PROVE  op'[d].tracked - op'[d].usedTracked <= tracked'
    BY DEF PromiseKept
  <1>1. ~byCache /\ (WrittenOff > 0 => head.source = "authority")
    BY DEF ExposureInv, StateTypes, Observations
  <1>2. ~(EpisodeNeeded /\ d \in StaleWork) /\ op[d].st \in Live /\ CloseFact(d) /\ d \in Orders
    BY DEF ExposureInv, LedgerInv, Orders
  <1>3. op[d].tracked - op[d].usedTracked <= tracked
    BY <1>1, <1>2 DEF ExposureInv, LedgerInv, PromiseKept
  <1>4. /\ op[d].tracked \in Nat /\ op[d].usedTracked \in Nat /\ op[d].external \in Nat /\ op[d].usedExternal \in Nat
        /\ op[d].filled \in Nat /\ OrderQty[d] \in Nat /\ tracked \in Nat /\ head.pos \in Nat
    BY <1>2, Typed, OrdersFinite DEF ExposureInv, StateTypes, Observations
  <1>5. WrittenOff \in Nat /\ tracked - WrittenOff = TrackedAfter /\ (WrittenOff > 0 => TrackedAfter = head.pos)
    BY WriteOff DEF ExposureInv
  <1>6. CASE WrittenOff = 0
    BY <1>3, <1>4, <1>5, <1>6
  <1>7. CASE WrittenOff > 0
    <2>1. d \notin StaleWork
      BY <1>2, <1>7 DEF EpisodeNeeded
    <2>2. op[d].st # "pending"
      BY <1>2, <2>1 DEF StaleWork, ReconcileAllowed, ExposureInv, HeadFact
    <2>3. gate # d
      BY <1>2, OrdersFinite DEF ReconcileAllowed
    <2>4. op[d].st = "working"
      BY <1>2, <2>2, <2>3 DEF Live, CloseFact
    <2>5. OrderQty[d] - op[d].filled <= head.pos
      BY <1>1, <1>7, <2>4, HeadIsTrue
    <2>6. op[d].tracked + op[d].external = OrderQty[d] /\ op[d].usedTracked + op[d].usedExternal = op[d].filled
          /\ op[d].usedExternal <= op[d].external
      BY <1>2 DEF CloseFact
    <2> QED
      BY <1>4, <1>5, <1>7, <2>5, <2>6
  <1> QED
    BY <1>5, <1>6, <1>7

LEMMA ReconcileKeeps ==
  ASSUME ExposureInv, NEW c \in Closes, Reconcile(c)
  PROVE  ExposureInv'
  <1>1. /\ UNCHANGED <<accountVars, gate, importRefused, cache>>
        /\ snap[c].pc = "reconcile" /\ ReconcileAllowed
        /\ tracked' = tracked - WrittenOff /\ reduced' = reduced + WrittenOff
        /\ byCache' = (byCache \/ (WrittenOff > 0 /\ head.source = "read_model"))
    BY DEF Reconcile
  <1>2. UNCHANGED <<position, border, bought, sold, start, gate, importRefused, cache>>
    BY <1>1 DEF accountVars
  <1>3. PICK S : S = IF EpisodeNeeded THEN StaleWork ELSE {}
    OBVIOUS
  <1>4. S \in SUBSET Closes /\ \A d \in S : op[d].st = "pending"
    BY <1>3 DEF StaleWork, ExposureInv, StateTypes, Observations
  <1>5. /\ op' = [o \in Orders |-> IF o \in S THEN [op[o] EXCEPT !.st = "failed", !.held = 0] ELSE op[o]]
        /\ head' = [head EXCEPT !.done = TRUE, !.current = (S = {})]
        /\ snap' = [d \in Closes |-> [snap[d] EXCEPT !.pc = IF d = c THEN "propose" ELSE @,
                                                     !.current = @ /\ S = {}]]
        /\ look' = [look EXCEPT !.current = @ /\ S = {}]
    BY <1>3 DEF Reconcile
  <1>6. op' \in [Orders -> Operations]
        /\ \A o \in Orders : /\ op'[o].st = (IF o \in S THEN "failed" ELSE op[o].st)
                             /\ op'[o].held = (IF o \in S THEN 0 ELSE op[o].held)
                             /\ op'[o].filled = op[o].filled /\ op'[o].decided = op[o].decided
                             /\ op'[o].tracked = op[o].tracked /\ op'[o].external = op[o].external
                             /\ op'[o].episode = op[o].episode /\ op'[o].usedTracked = op[o].usedTracked
                             /\ op'[o].usedExternal = op[o].usedExternal
    <2>1. \A o \in Orders : op[o] \in Operations
      BY Typed DEF ExposureInv
    <2>2. ASSUME NEW o \in Orders
          PROVE  /\ op'[o] \in Operations
                 /\ op'[o].st = (IF o \in S THEN "failed" ELSE op[o].st)
                 /\ op'[o].held = (IF o \in S THEN 0 ELSE op[o].held)
                 /\ op'[o].filled = op[o].filled /\ op'[o].decided = op[o].decided
                 /\ op'[o].tracked = op[o].tracked /\ op'[o].external = op[o].external
                 /\ op'[o].episode = op[o].episode /\ op'[o].usedTracked = op[o].usedTracked
                 /\ op'[o].usedExternal = op[o].usedExternal
      <3>1. CASE o \in S
        <4>1. op'[o] = [op[o] EXCEPT !.st = "failed", !.held = 0]
          BY <1>5, <3>1
        <4>2. op[o] \in Operations
          BY <2>1
        <4>3. PICK w \in Operations : w = op[o]
          BY <4>2
        <4>4. PICK v : v = [w EXCEPT !.st = "failed", !.held = 0]
          OBVIOUS
        <4>5. /\ v \in Operations /\ v.st = "failed" /\ v.held = 0
              /\ v.filled = w.filled /\ v.decided = w.decided /\ v.tracked = w.tracked /\ v.external = w.external
              /\ v.episode = w.episode /\ v.usedTracked = w.usedTracked /\ v.usedExternal = w.usedExternal
          BY <4>3, <4>4 DEF Operations, OrderStates
        <4> QED
          BY <3>1, <4>1, <4>3, <4>4, <4>5
      <3>2. CASE o \notin S
        <4>1. op'[o] = op[o]
          BY <1>5, <3>2
        <4> QED
          BY <2>1, <3>2, <4>1
      <3> QED
        BY <3>1, <3>2
    <2>3. op' = [o \in Orders |-> op'[o]]
      BY <1>5
    <2> QED
      BY <2>2, <2>3
  <1>7. /\ head' \in Observations /\ head'.done /\ (head'.current <=> S = {}) /\ head'.pos = head.pos
        /\ head'.knows = head.knows
    BY <1>5 DEF ExposureInv, StateTypes, Observations
  <1>8. /\ snap' \in [Closes -> Readings] /\ look' \in Readings
        /\ \A d \in Closes : /\ snap'[d].pos = snap[d].pos
                             /\ snap'[d].pc = (IF d = c THEN "propose" ELSE snap[d].pc)
                             /\ snap'[d].current => snap[d].current /\ S = {}
    <2>1. \A d \in Closes : snap[d] \in Readings
      BY Typed DEF ExposureInv
    <2>2. ASSUME NEW d \in Closes
          PROVE  /\ snap'[d] \in Readings /\ snap'[d].pos = snap[d].pos
                 /\ snap'[d].pc = (IF d = c THEN "propose" ELSE snap[d].pc)
                 /\ snap'[d].current => snap[d].current /\ S = {}
      <3>1. PICK p : p = IF d = c THEN "propose" ELSE snap[d].pc
        OBVIOUS
      <3>2. PICK b \in BOOLEAN : b = (snap[d].current /\ S = {})
        OBVIOUS
      <3>3. snap'[d] = [snap[d] EXCEPT !.pc = p, !.current = b]
        BY <1>5, <3>1, <3>2
      <3>4. p \in {"idle", "positions", "orders", "reconcile", "propose", "barrier", "over"}
        BY <2>1, <3>1 DEF Readings
      <3> QED
        BY <2>1, <3>1, <3>2, <3>3, <3>4 DEF Readings
    <2>3. snap' = [d \in Closes |-> snap'[d]]
      BY <1>5
    <2>4. snap' \in [Closes -> Readings]
      BY <2>2, <2>3
    <2>5. look' \in Readings
      <3>1. PICK b \in BOOLEAN : b = (look.current /\ S = {})
        OBVIOUS
      <3>2. look' = [look EXCEPT !.current = b]
        BY <1>5, <3>1
      <3> QED
        BY <3>2 DEF ExposureInv, StateTypes, Readings
    <2> QED
      BY <2>2, <2>4, <2>5
  <1>9. tracked' = TrackedAfter /\ tracked' \in Nat /\ reduced' \in Nat /\ byCache' \in BOOLEAN
        /\ (tracked' + reduced') = tracked + reduced
    <2>1. /\ TrackedAfter \in Nat /\ WrittenOff \in Nat /\ tracked - WrittenOff = TrackedAfter
          /\ tracked \in Nat /\ reduced \in Nat /\ byCache \in BOOLEAN
      BY WriteOff DEF ExposureInv, StateTypes
    <2>2. PICK w \in Nat : w = WrittenOff
      BY <2>1
    <2> QED
      BY <1>1, <2>1, <2>2
  <1>10. StateTypes'
    BY <1>1, <1>2, <1>6, <1>7, <1>8, <1>9 DEF ExposureInv, StateTypes
  <1>11. \A d \in Closes : d \in Orders /\ d \notin Opens
    BY OrdersFinite DEF Orders
  <1>12. \A o \in Orders : OrderFact(o)'
    <2> SUFFICES ASSUME NEW o \in Orders PROVE OrderFact(o)'
      OBVIOUS
    <2>1. OrderFact(o) /\ (o \in S => op[o].st = "pending")
      BY <1>4 DEF ExposureInv, LedgerInv
    <2>2. op'[o].st = (IF o \in S THEN "failed" ELSE op[o].st) /\ op'[o].filled = op[o].filled
      BY <1>6
    <2> QED
      BY <1>2, <2>1, <2>2 DEF OrderFact
  <1>13. \A o \in Opens : OpenFact(o)'
    <2> SUFFICES ASSUME NEW o \in Opens PROVE OpenFact(o)'
      OBVIOUS
    <2>1. OpenFact(o) /\ o \notin S /\ o \in Orders
      BY <1>4, <1>11 DEF ExposureInv, LedgerInv, Orders
    <2>2. /\ op'[o].st = op[o].st /\ op'[o].tracked = op[o].tracked /\ op'[o].external = op[o].external
          /\ op'[o].episode = op[o].episode
      BY <1>6, <2>1
    <2> QED
      BY <1>2, <2>1, <2>2 DEF OpenFact
  <1>14. ASSUME NEW d \in Closes
         PROVE  CloseFact(d)' /\ PurposeFact(d)' /\ AloneFact(d)'
    <2>1. /\ op'[d].st = (IF d \in S THEN "failed" ELSE op[d].st) /\ op'[d].filled = op[d].filled
          /\ op'[d].held = (IF d \in S THEN 0 ELSE op[d].held)
          /\ op'[d].decided = op[d].decided /\ op'[d].tracked = op[d].tracked /\ op'[d].external = op[d].external
          /\ op'[d].episode = op[d].episode /\ op'[d].usedTracked = op[d].usedTracked
          /\ op'[d].usedExternal = op[d].usedExternal
      BY <1>6, <1>11
    <2>2. CloseFact(d) /\ PurposeFact(d) /\ AloneFact(d) /\ (d \in S => op[d].st = "pending")
      BY <1>4 DEF ExposureInv, LedgerInv
    <2>3. snap'[d].pos = snap[d].pos /\ snap'[d].pc = (IF d = c THEN "propose" ELSE snap[d].pc)
      BY <1>8
    <2>4. d = c => op[d].st = "new"
      BY <1>1, <2>2 DEF PurposeFact
    <2>5. CloseFact(d)'
      BY <1>2, <2>1, <2>2 DEF CloseFact, Live
    <2>6. PurposeFact(d)'
      BY <2>1, <2>2, <2>3, <2>4 DEF PurposeFact
    <2>7. AloneFact(d)'
      <3>1. (Alone /\ ~byCache)' => Alone /\ ~byCache
        BY <1>1, <1>2 DEF Alone
      <3>2. snap'[d].pc \in {"orders", "reconcile", "propose", "barrier"}
              => snap[d].pc \in {"orders", "reconcile", "propose", "barrier"}
        BY <1>1, <2>3
      <3> QED
        BY <1>2, <2>1, <2>2, <2>3, <2>4, <3>1, <3>2 DEF AloneFact
    <2> QED
      BY <2>5, <2>6, <2>7
  <1>15. Moved' = Moved /\ Rest' = Rest /\ Booked' = Booked /\ Outside' = Outside
    BY <1>2, <1>6, <1>11 DEF Moved, Rest, Booked, Outside
  <1>16. BooksBalance' /\ (Total(Rest, Closes) <= position)'
    BY <1>2, <1>9, <1>15 DEF ExposureInv, LedgerInv, BooksBalance
  <1>17. WriteOffsEarned'
    BY <1>1, <1>2, <1>15, ReconcileWriteOffs
  <1>18. PromiseKept'
    <2>1. \A d \in Closes :
            /\ op'[d].st \in Live => op[d].st \in Live /\ ~(EpisodeNeeded /\ d \in StaleWork)
            /\ op'[d].tracked = op[d].tracked /\ op'[d].usedTracked = op[d].usedTracked
      BY <1>3, <1>6, <1>11 DEF Live
    <2>2. ReconcileAllowed /\ byCache' = (byCache \/ (WrittenOff > 0 /\ head.source = "read_model"))
      BY <1>1
    <2>3. tracked' = TrackedAfter
      BY <1>9
    <2> QED
      BY <2>1, <2>2, <2>3, ReconcilePromise
  <1>19. FillsAreImported'
    <2>1. \A d \in Closes : op'[d].tracked = op[d].tracked
      BY <1>6, <1>11
    <2>2. ~byCache' => ~byCache
      BY <1>1
    <2>3. FillsAreImported
      BY DEF ExposureInv, LedgerInv
    <2> QED
      BY <1>2, <2>1, <2>2, <2>3 DEF FillsAreImported
  <1>20. \A d \in Closes : SnapFact(d)'
    <2>1. \A o \in Orders : op'[o].filled = op[o].filled /\ border[o].filled <= border'[o].filled
      BY <1>2, <1>6, Typed DEF ExposureInv
    <2>2. \A d \in Closes : /\ op'[d].st = "working" => op[d].st = "working"
                            /\ op'[d].st = "working" /\ border'[d].st = "working" => border[d].st = "working"
      BY <1>2, <1>6, <1>11
    <2>3. ASSUME NEW d \in Closes PROVE snap'[d].current /\ snap'[d].pc = "orders" => snap'[d] = snap[d]
      <3> SUFFICES ASSUME snap'[d].current, snap'[d].pc = "orders" PROVE snap'[d] = snap[d]
        OBVIOUS
      <3>1. d # c /\ S = {} /\ snap[d].current /\ snap[d] \in Readings /\ snap'[d] \in Readings
        BY <1>8, Typed DEF ExposureInv
      <3>2. snap'[d].pc = snap[d].pc /\ snap'[d].pos = snap[d].pos /\ snap'[d].current = snap[d].current
        BY <1>8, <3>1 DEF Readings
      <3> QED
        BY <3>1, <3>2 DEF Readings
    <2>4. StateTypes /\ start' = start /\ sold <= sold' /\ (\A d \in Closes : SnapFact(d))
      BY <1>2, Typed DEF ExposureInv
    <2> QED
      BY <1>10, <2>1, <2>2, <2>3, <2>4, SightKept
  <1>21. HeadFact'
    <2> SUFFICES ASSUME S = {} PROVE \A d \in Closes : op'[d].st = "pending" => d \in head'.knows
      BY <1>7 DEF HeadFact
    <2>1. \A d \in Closes : op'[d].st = op[d].st
      BY <1>6, <1>11
    <2> QED
      BY <1>1, <1>7, <2>1 DEF ExposureInv, HeadFact, ReconcileAllowed
  <1>22. DecisionsCovered'
    <2>1. \A d \in Closes : Rem(d) \in Nat
      BY RemNat DEF ExposureInv, LedgerInv, Orders
    <2>2. ASSUME NEW d \in Closes
          PROVE  /\ Rem(d) \in Nat /\ Rem(d)' \in Nat /\ Rem(d)' <= Rem(d)
                 /\ Rem(d)' > 0 => op'[d].decided = op[d].decided /\ (Pressing(d)' => Pressing(d))
                 /\ sold = 0 /\ border'[d].st = "rejected" => border[d].st = "rejected"
      <3>1. /\ op'[d].st = (IF d \in S THEN "failed" ELSE op[d].st) /\ op'[d].decided = op[d].decided
            /\ (d \in S => op[d].st = "pending") /\ OrderFact(d)
        BY <1>4, <1>6, <1>11 DEF ExposureInv, LedgerInv
      <3>2. snap'[d].pos = snap[d].pos /\ (d # c => snap'[d].pc = snap[d].pc) /\ (d = c => snap'[d].pc = "propose")
        BY <1>8
      <3>3. Rem(d)' = IF d \in S THEN 0 ELSE Rem(d)
        BY <1>2, <3>1 DEF Rem, OrderFact
      <3>4. Pressing(d)' => Pressing(d)
        BY <3>1, <3>2 DEF Pressing
      <3> QED
        BY <1>2, <2>1, <3>1, <3>3, <3>4
    <2>3. sold <= sold' /\ position <= position'
      BY <1>2, Typed DEF ExposureInv, StateTypes
    <2> QED
      BY <1>10, <2>2, <2>3, DecisionsKept DEF ExposureInv
  <1>23. LedgerInv'
    BY <1>12, <1>13, <1>14, <1>16, <1>17, <1>18, <1>19 DEF LedgerInv
  <1> QED
    BY <1>10, <1>14, <1>20, <1>21, <1>22, <1>23 DEF ExposureInv

-----------------------------------------------------------------------------
(* The invariant and the property                                          *)

LEMMA InitExposure ==
  ASSUME ExposureInit
  PROVE  ExposureInv
  <1>1. start \in Holdings /\ start \in AccountType
    BY ExposureBounds DEF ExposureInit
  <1>2. start.tracked \in Nat /\ start.external \in Nat /\ start.buys \in Nat /\ start.sells \in Nat
    BY <1>1 DEF AccountType
  <1>3. /\ position = start.tracked + start.external /\ tracked = start.tracked /\ reduced = 0 /\ ~byCache
        /\ bought = 0 /\ sold = 0 /\ gate = None /\ ~importRefused /\ byCache \in BOOLEAN /\ importRefused \in BOOLEAN
    BY DEF ExposureInit
  <1>4. \A c \in Closes : c \in Orders /\ c \notin Opens /\ c # None
    BY OrdersFinite DEF Orders
  <1>5. /\ border \in [Orders -> BrokerOrders] /\ op \in [Orders -> Operations]
        /\ \A o \in Orders :
             /\ border[o].st = (IF o \in Opens /\ o \in start.orders THEN "working" ELSE "none") /\ border[o].filled = 0
             /\ op[o].st = (IF o \notin start.orders THEN "failed" ELSE IF o \in Opens THEN "working" ELSE "new")
             /\ op[o].filled = 0 /\ op[o].held = 0 /\ op[o].tracked = 0 /\ op[o].external = 0
             /\ op[o].usedTracked = 0 /\ op[o].usedExternal = 0 /\ op[o].episode = FALSE
    <2>1. border \in [Orders -> BrokerOrders]
          /\ \A o \in Orders : /\ border[o].st = (IF o \in Opens /\ o \in start.orders THEN "working" ELSE "none")
                               /\ border[o].filled = 0
      BY DEF ExposureInit, BrokerOrders
    <2>2. ASSUME NEW o \in Orders
          PROVE  /\ op[o] \in Operations
                 /\ op[o].st = (IF o \notin start.orders THEN "failed" ELSE IF o \in Opens THEN "working" ELSE "new")
                 /\ op[o].filled = 0 /\ op[o].held = 0 /\ op[o].tracked = 0 /\ op[o].external = 0
                 /\ op[o].usedTracked = 0 /\ op[o].usedExternal = 0 /\ op[o].episode = FALSE
      <3>1. PICK st \in OrderStates :
              st = IF o \notin start.orders THEN "failed" ELSE IF o \in Opens THEN "working" ELSE "new"
        BY DEF OrderStates
      <3>2. op[o] = [NewOp EXCEPT !.st = st]
        BY <3>1 DEF ExposureInit
      <3>3. op[o] = [st |-> st, filled |-> 0, held |-> 0, decided |-> 0, tracked |-> 0, external |-> 0,
                     episode |-> FALSE, usedTracked |-> 0, usedExternal |-> 0]
        BY <3>2 DEF NewOp
      <3> QED
        BY <3>1, <3>3 DEF Operations
    <2>3. op = [o \in Orders |-> op[o]]
      BY DEF ExposureInit
    <2> QED
      BY <2>1, <2>2, <2>3
  <1>6. /\ snap \in [Closes -> Readings] /\ look \in Readings
        /\ \A c \in Closes : snap[c].pc = "idle" /\ snap[c].current = FALSE
    BY DEF ExposureInit, Readings
  <1>7. WorkingOrders \in OrderLists
    BY <1>5 DEF WorkingOrders, OrderLists
  <1>8. cache \in [pos : Nat, orders : OrderLists]
    BY <1>2, <1>3, <1>7 DEF ExposureInit
  <1>9. head \in Observations /\ head.current = FALSE
    <2>1. head = [Snapshot(position, WorkingOrders, FALSE, "authority") EXCEPT !.done = TRUE]
      BY DEF ExposureInit
    <2>2. head = [pos |-> position, orders |-> WorkingOrders, current |-> FALSE, source |-> "authority",
                  done |-> TRUE, knows |-> {c \in Closes : op[c].st # "new"}]
      BY <2>1 DEF Snapshot
    <2> QED
      BY <1>2, <1>3, <1>7, <2>2 DEF Observations
  <1>10. StateTypes
    BY <1>1, <1>2, <1>3, <1>5, <1>6, <1>8, <1>9 DEF StateTypes
  <1>11. (\A o \in Orders : OrderFact(o)) /\ \A o \in Opens : OpenFact(o)
    BY <1>5, OrdersFinite DEF OrderFact, OpenFact, Orders
  <1>12. \A c \in Closes : CloseFact(c) /\ PurposeFact(c) /\ SnapFact(c) /\ AloneFact(c)
    BY <1>3, <1>4, <1>5, <1>6 DEF CloseFact, PurposeFact, SnapFact, AloneFact, Live
  <1>13. IsFiniteSet(Orders) /\ IsFiniteSet(Closes)
    BY OrdersFinite
  <1>14. Total(Moved, Orders) = 0 /\ Total(Booked, Orders) = 0
    <2>1. \A o \in Orders : Moved[o] = 0 /\ Booked[o] = 0
      BY <1>5 DEF Moved, Booked
    <2> QED
      BY <1>13, <2>1, ZeroTotal
  <1>15. Total(Outside, Closes) = 0 /\ Total(Rest, Closes) = 0
    <2>1. \A c \in Closes : Outside[c] = 0 /\ Rest[c] = 0
      BY <1>4, <1>5 DEF Outside, Rest
    <2> QED
      BY <1>13, <2>1, ZeroTotal
  <1>16. BooksBalance
    BY <1>2, <1>3, <1>14, <1>15 DEF BooksBalance
  <1>17. Total(Rest, Closes) <= position
    BY <1>2, <1>3, <1>15
  <1>18. WriteOffsEarned
    <2>1. 0 <= Positive(0 + 0 - start.external)
      BY <1>2 DEF Positive
    <2> QED
      BY <1>3, <1>15, <2>1 DEF WriteOffsEarned
  <1>19. PromiseKept
    BY <1>4, <1>5 DEF PromiseKept, Live
  <1>20. FillsAreImported /\ HeadFact
    BY <1>3, <1>9 DEF FillsAreImported, HeadFact
  <1>21. DecisionsCovered
    <2>1. \A c \in Closes : Rem(c) = 0 /\ border[c].st = "none"
      BY <1>4, <1>5 DEF Rem
    <2>2. PICK rank : rank = [c \in Closes |-> 0]
      OBVIOUS
    <2>3. PICK k \in Nat : k = 0
      OBVIOUS
    <2>4. \A c \in Closes : UpTo(rank, k)[c] = 0
      BY <2>1 DEF UpTo
    <2>5. Total(UpTo(rank, k), Closes) = 0
      BY <1>13, <2>4, ZeroTotal
    <2>6. Ranked(rank, k)
      BY <1>2, <1>3, <2>1, <2>5 DEF Ranked
    <2>7. rank \in [Closes -> Nat]
      BY <2>2
    <2> QED
      BY <2>1, <2>6, <2>7 DEF DecisionsCovered
  <1> QED
    BY <1>10, <1>11, <1>12, <1>16, <1>17, <1>18, <1>19, <1>20, <1>21 DEF ExposureInv, LedgerInv

LEMMA StutterExposure ==
  ASSUME ExposureInv, UNCHANGED exposureVars
  PROVE  ExposureInv'
  <1>1. UNCHANGED <<accountVars, ledgerVars, reduced, byCache, head, snap, look, cache>>
    BY DEF exposureVars, accountVars, ledgerVars
  <1>2. StateTypes'
    BY <1>1 DEF ExposureInv, StateTypes, accountVars, ledgerVars
  <1>3. \A c \in Closes : Pressing(c)' => Pressing(c)
    BY <1>1 DEF Pressing, ledgerVars
  <1>4. None \notin Closes /\ \A d \in Closes \ {None} : snap'[d] = snap[d]
    BY <1>1, OrdersFinite DEF Orders
  <1>5. DecisionsCovered'
    BY <1>1, <1>2, <1>3, ReaderDecisions
  <1>6. HeadFact'
    BY <1>1, <1>2, ReaderHead
  <1> QED
    BY <1>1, <1>2, <1>4, <1>5, <1>6, ReaderKeeps

LEMMA NextExposure ==
  ASSUME ExposureInv, ExposureNext
  PROVE  ExposureInv'
  <1>1. ASSUME NEW c \in Closes, CloseStep(c) PROVE ExposureInv'
    <2>1. CASE ReadGeneration(c)
      BY <2>1, ReadGenerationKeeps
    <2>2. CASE ReadPositions(c)
      BY <2>2, ReadPositionsKeeps
    <2>3. CASE RecordObservation(c)
      BY <2>3, RecordObservationKeeps
    <2>4. CASE Reconcile(c)
      BY <2>4, ReconcileKeeps
    <2>5. CASE ReconcileSkipped(c) \/ ProposeRefused(c)
      BY <2>5, SkippedKeeps
    <2>6. CASE Propose(c)
      BY <2>6, ProposeKeeps
    <2>7. CASE Claim(c)
      BY <2>7, ClaimKeeps
    <2>8. CASE PassPreEffect(c)
      BY <2>8, PassPreEffectKeeps
    <2>9. CASE RefusePreEffect(c) \/ ResolveAttempt(c)
      BY <2>9, AttemptOverKeeps
    <2>10. CASE BrokerReceives(c)
      BY <2>10, BrokerReceivesKeeps
    <2> QED
      BY <1>1, <2>1, <2>2, <2>3, <2>4, <2>5, <2>6, <2>7, <2>8, <2>9, <2>10 DEF CloseStep
  <1>2. ASSUME NEW o \in Orders, OrderStep(o) PROVE ExposureInv'
    <2>1. CASE BrokerFillsOrder(o)
      BY <2>1, BrokerFillsOrderKeeps
    <2>2. CASE BrokerEndsOrder(o)
      BY <2>2, BrokerEndsOrderKeeps
    <2>3. ASSUME NEW n \in 0 .. OrderQty[o], NEW ended \in BOOLEAN, ApplyOrderUpdate(o, n, ended)
          PROVE  ExposureInv'
      BY <2>3, ApplyOrderUpdateKeeps
    <2>4. ASSUME NEW n \in 0 .. OrderQty[o], NEW ended \in BOOLEAN, IntegrityFailure(o, n, ended)
          PROVE  ExposureInv'
      BY <2>4, IntegrityFailureKeeps
    <2> QED
      BY <1>2, <2>1, <2>2, <2>3, <2>4 DEF OrderStep
  <1>3. CASE LookStep
    BY <1>3, LookKeeps
  <1>4. CASE HumanBuys \/ HumanSells
    BY <1>4, HumansKeep
  <1> QED
    BY <1>1, <1>2, <1>3, <1>4 DEF ExposureNext

LEMMA OwnShares ==
  ASSUME ExposureInv, ~byCache, start.external + bought + sold = 0,
         \A o \in Opens : border[o].filled = 0, \A c \in Closes : border[c].filled = op[c].filled
  PROVE  tracked = position
  <1>1. Alone
    BY DEF Alone
  <1>2. start.external = 0 /\ bought = 0 /\ sold = 0 /\ start.tracked \in Nat
        /\ tracked \in Nat /\ reduced \in Nat /\ position \in Nat
    <2>1. start.external \in Nat /\ bought \in Nat /\ sold \in Nat /\ start.tracked \in Nat
      BY Typed DEF ExposureInv
    <2>2. \A e, b, s \in Nat : e + b + s = 0 => e = 0 /\ b = 0 /\ s = 0
      OBVIOUS
    <2> QED
      BY <2>1, <2>2 DEF ExposureInv, StateTypes
  <1>3. Total(Outside, Closes) = 0
    <2>1. ASSUME NEW c \in Closes PROVE Outside[c] = 0
      <3>1. /\ op[c].external \in Nat /\ op[c].usedTracked \in Nat /\ op[c].usedExternal \in Nat
            /\ op[c].filled \in Nat /\ border[c].filled \in Nat
            /\ op[c].usedExternal <= op[c].external /\ op[c].usedTracked + op[c].usedExternal = op[c].filled
            /\ OrderFact(c) /\ AloneFact(c)
        BY Typed DEF ExposureInv, LedgerInv, CloseFact, Orders
      <3>2. CASE op[c].external > 0
        <4>1. op[c].st \in {"pending", "claimed", "failed"}
          BY <1>1, <3>1, <3>2 DEF AloneFact
        <4>2. op[c].filled = 0
          BY <3>1, <4>1 DEF OrderFact
        <4> QED
          BY <3>1, <4>2 DEF Outside
      <3>3. CASE op[c].external = 0
        BY <3>1, <3>3 DEF Outside
      <3> QED
        BY <3>1, <3>2, <3>3
    <2> QED
      BY <2>1, OrdersFinite, ZeroTotal
  <1>4. reduced = 0
    <2>1. reduced <= Positive(sold + 0 - start.external)
      BY <1>3 DEF ExposureInv, LedgerInv, WriteOffsEarned
    <2> QED
      BY <1>2, <2>1 DEF Positive
  <1>5. Booked = Moved
    <2>1. ASSUME NEW o \in Orders PROVE op[o].filled = border[o].filled
      <3>1. op[o].filled \in Nat /\ border[o].filled \in Nat /\ op[o].filled <= border[o].filled
        BY Typed DEF ExposureInv, LedgerInv, OrderFact
      <3> QED
        BY <3>1 DEF Orders
    <2> QED
      BY <2>1 DEF Booked, Moved
  <1>6. Total(Moved, Orders) \in Int
    <2>1. \A o \in Orders : Moved[o] \in Int
      BY Typed DEF ExposureInv, Moved
    <2>2. IsFiniteSet(Orders)
      BY OrdersFinite
    <2> QED
      BY <2>1, <2>2, TotalStep
  <1>7. PICK m \in Int : m = Total(Moved, Orders)
    BY <1>6
  <1>8. position = (start.tracked + start.external + bought - sold) + m
    BY <1>7 DEF ExposureInv, LedgerInv, BooksBalance
  <1>9. tracked + reduced = start.tracked + m + 0
    BY <1>3, <1>5, <1>7 DEF ExposureInv, LedgerInv, BooksBalance
  <1> QED
    BY <1>2, <1>4, <1>8, <1>9

LEMMA InvariantIsSafe ==
  ASSUME ExposureInv
  PROVE  ExposureSafe
  <1>1. ExposureTypeOK
    <2>1. \A o \in Orders :
            /\ border[o].filled \in 0 .. OrderQty[o] /\ op[o].filled \in 0 .. border[o].filled
            /\ op[o].tracked + op[o].external \in {0, OrderQty[o]}
      <3> SUFFICES ASSUME NEW o \in Orders
                   PROVE  /\ border[o].filled \in 0 .. OrderQty[o] /\ op[o].filled \in 0 .. border[o].filled
                          /\ op[o].tracked + op[o].external \in {0, OrderQty[o]}
        OBVIOUS
      <3>1. op[o].filled \in Nat /\ border[o].filled \in Nat /\ OrderQty[o] \in Nat
            /\ op[o].filled <= border[o].filled /\ border[o].filled <= OrderQty[o]
        BY Typed, OrdersFinite DEF ExposureInv, LedgerInv, OrderFact
      <3>2. op[o].tracked + op[o].external \in {0, OrderQty[o]}
        <4>1. CASE o \in Opens
          BY <4>1 DEF ExposureInv, LedgerInv, OpenFact
        <4>2. CASE o \in Closes
          BY <4>2 DEF ExposureInv, LedgerInv, CloseFact
        <4> QED
          BY <4>1, <4>2 DEF Orders
      <3> QED
        BY <3>1, <3>2
    <2>2. \A c \in Closes :
            op[c].held = IF op[c].st \in {"pending", "claimed", "sent", "working"}
                           THEN OrderQty[c] - op[c].filled ELSE 0
      BY DEF ExposureInv, LedgerInv, CloseFact, Live
    <2> QED
      BY <2>1, <2>2 DEF ExposureInv, StateTypes, ExposureTypeOK
  <1>2. FillsAreImported
    BY DEF ExposureInv, LedgerInv
  <1>3. ReductionIsExternal
    <2>1. PICK f : f = Outside
      OBVIOUS
    <2>2. \A c \in Closes : op[c].usedExternal \in Int
      BY Typed DEF ExposureInv
    <2>3. MapThenSumSet(LAMBDA c : op[c].usedExternal, Closes) = Total(f, Closes)
      BY <2>1, <2>2, OutsideIsTotal DEF Outside
    <2>4. SoldAsExternal = Total(Outside, Closes)
      BY <2>1, <2>3 DEF SoldAsExternal
    <2> QED
      BY <2>4 DEF ExposureInv, LedgerInv, WriteOffsEarned, ReductionIsExternal
  <1>4. RejectedOnlyByPeople
    BY Typed DEF ExposureInv, DecisionsCovered, RejectedOnlyByPeople
  <1>5. OwnSharesStayTracked
    BY OwnShares DEF OwnSharesStayTracked
  <1> QED
    BY <1>1, <1>2, <1>3, <1>4, <1>5 DEF ExposureSafe

\* In every behaviour of the ledger beside a shared account, for any orders,
\* quantities and holdings: fills can be imported, only sales of others are written
\* off, closes never oversell and own shares stay owned (internal/store/exposure.go,
\* broker_reconciliation.go, cmd/kernel/broker_observations.go).
THEOREM ExposureStaysSafe == ExposureSpec => []ExposureSafe
  <1>1. ExposureInit => ExposureInv
    BY InitExposure
  <1>2. ExposureInv /\ [ExposureNext]_exposureVars => ExposureInv'
    BY NextExposure, StutterExposure
  <1>3. ExposureInv => ExposureSafe
    BY InvariantIsSafe
  <1> QED
    BY <1>1, <1>2, <1>3, PTL DEF ExposureSpec
=============================================================================
