---------------------------- MODULE RepriceProofs ----------------------------
(***************************************************************************)
(* Proofs about Reprice, for every quantity, every number of reprices and  *)
(* every set of modes: however the repricer, the reconciler, the policy    *)
(* and the broker interleave, placements follow one another, each for what *)
(* the proved end of the one before it left, under one reservation.        *)
(***************************************************************************)
EXTENDS Reprice, SumTheorems
-----------------------------------------------------------------------------
(* The reprices of an operation: the inductive invariant                   *)

LastGen == MaxReprices + 1
PlaceStates == {"none", "settled", "failed"} \cup PlaceLive
BrokerOrders == [state : {"none"} \cup Working \cup Terminal, filled : 0..Qty]

\* What the broker knows of an order of quantity q.
BrokerFact(g) ==
    /\ broker[g].filled <= qty[g]
    /\ broker[g].state \in {"none", "submitted", "rejected"} => broker[g].filled = 0
    /\ broker[g].state = "partially_filled" => broker[g].filled \in 1..(qty[g] - 1)
    /\ broker[g].state = "filled" => broker[g].filled = qty[g]
    /\ broker[g].state \in {"cancelled", "expired"} => broker[g].filled < qty[g]

\* What the books say of it: never more than the broker.
OrderFact(g) ==
    /\ filled[g] <= broker[g].filled
    /\ order[g] \in {"none", "new", "submitted"} => filled[g] = 0
    /\ order[g] = "partially_filled" => filled[g] > 0
    /\ order[g] \in Terminal /\ broker[g].state # "none" =>
         order[g] = broker[g].state /\ filled[g] = broker[g].filled

\* The order, the broker and the cancels of a placement in each of its states.
PlaceFact(g) ==
    /\ place[g] = "none" => /\ order[g] = "none" /\ qty[g] = 0 /\ reprices[g] = 0
    /\ place[g] \in {"none", "pending", "claimed"} => broker[g].state = "none"
    /\ place[g] \in {"pending", "claimed", "sent"} => order[g] = "new"
    /\ place[g] = "placed" <=> order[g] \in Working
    /\ place[g] = "placed" => broker[g].state # "none"
    /\ place[g] \in {"settled", "failed"} => order[g] \in Terminal \cup {"new"}
    /\ place[g] = "settled" => order[g] \in Terminal /\ broker[g].state # "none"
    /\ broker[g].state \in Working => place[g] \in {"sent", "placed"}
    /\ place[g] = "failed" /\ order[g] = "new" => broker[g].state = "none"
    /\ cancel[g] \in Unresolved => place[g] = "placed"
    /\ cancel[g] = "settled" => place[g] = "settled"

\* Placements follow one another: each has what the one before it left, and all
\* but the last are proved to be over.
Chain(last) ==
    /\ qty[1] = Qty
    /\ \A g \in Gens : (place[g] # "none" <=> g <= last)
    /\ \A g \in Gens : g < last =>
         /\ place[g] = "settled" /\ order[g] # "filled"
         /\ qty[g + 1] = qty[g] - filled[g] /\ reprices[g] = g
    /\ reprices[last] = last - 1

\* The reservation follows the last placement.
Reserved(last) ==
    /\ qty[last] > 0
    /\ place[last] \in PlaceLive =>
         resource = "held" /\ held = qty[last] - filled[last] /\ held > 0
    /\ place[last] \notin PlaceLive =>
         resource # "held" /\ held = 0 /\ status = FailureStatus(filled)

\* A read is the broker's past, and no older than the books while the order works.
ReadFact(p) ==
    LET g == proc[p].gen
        r == proc[p].read
    IN  /\ proc[p].pc \in {"decide", "finalize"} => r = broker[g] /\ r.state \in Terminal
        /\ proc[p].pc \in {"listed", "observed"} =>
             p = "reconciler" /\ (place[g] = "placed" \/ cancel[g] = "settled")
        /\ proc[p].pc = "observed" =>
             /\ r.state \in Terminal => r = broker[g]
             /\ r.filled <= broker[g].filled
             /\ r.state = "submitted" => r.filled = 0
             /\ r.state = "partially_filled" => r.filled \in 1..(qty[g] - 1)
             /\ place[g] = "placed" => filled[g] <= r.filled

Books ==
    /\ \A g \in Gens : BrokerFact(g) /\ OrderFact(g) /\ PlaceFact(g)
    /\ \E last \in Gens : Chain(last) /\ Reserved(last)

RepriceInv ==
    /\ RepriceTypeOK
    /\ Books
    /\ \A p \in Procs : ReadFact(p)
    /\ NoIntegrityHalt

-----------------------------------------------------------------------------
(* The last placement                                                      *)

LEMMA GenNumbers ==
  /\ LastGen \in Nat \ {0} /\ 1 \in Gens /\ Qty \in Nat \ {0}
  /\ \A g \in Gens : g \in Nat \ {0} /\ g <= LastGen
  /\ \A g \in Nat : g >= 1 /\ g <= LastGen => g \in Gens
  BY RepriceQtyAssumption, MaxRepricesAssumption DEF LastGen, Gens

\* A placement that is neither absent nor settled is the last one.
LEMMA LastIs ==
  ASSUME NEW last \in Gens, Chain(last), NEW g \in Gens, place[g] \notin {"none", "settled"}
  PROVE  g = last
  BY GenNumbers DEF Chain

\* A live placement is the last one and owns the reservation.
LEMMA LiveIsLast ==
  ASSUME RepriceInv, NEW g \in Gens, place[g] \in PlaceLive
  PROVE  /\ Chain(g) /\ Reserved(g)
         /\ resource = "held" /\ held = qty[g] - filled[g] /\ held > 0
         /\ qty[g] \in 1..Qty /\ filled[g] \in 0..Qty /\ held \in 1..Qty
  <1>1. PICK last \in Gens : Chain(last) /\ Reserved(last)
    BY DEF RepriceInv, Books
  <1>2. g = last
    BY <1>1, LastIs DEF PlaceLive
  <1>3. resource = "held" /\ held = qty[g] - filled[g] /\ held > 0
    BY <1>1, <1>2 DEF Reserved
  <1>4. qty[g] \in 0..Qty /\ filled[g] \in 0..Qty /\ held \in 0..Qty /\ qty[g] > 0
    BY <1>1, <1>2 DEF RepriceInv, RepriceTypeOK, Reserved
  <1> QED
    BY <1>1, <1>2, <1>3, <1>4, GenNumbers

\* Such a placement is entitled, and a read of what the broker made of it does not
\* contradict the books.
LEMMA ReadFits ==
  ASSUME RepriceInv, NEW g \in Gens, place[g] \in PlaceLive, NEW r \in OrderRead,
         filled[g] <= r.filled, r.filled <= qty[g]
  PROVE  Entitled(g) /\ ~Contradicts(g, r)
  <1>1. /\ resource = "held" /\ held = qty[g] - filled[g] /\ held > 0
        /\ qty[g] \in 1..Qty /\ filled[g] \in 0..Qty /\ held \in 1..Qty
    BY LiveIsLast
  <1>2. order[g] \notin Terminal
    BY DEF RepriceInv, Books, PlaceFact, PlaceLive, Terminal, TerminalUnfilled, Working
  <1>3. Entitled(g)
    BY <1>1, <1>2 DEF Entitled, Remaining
  <1>4. r.filled \in 0..Qty
    BY DEF OrderRead
  <1>5. ~(r.filled < filled[g]) /\ ~(r.filled - filled[g] > held)
    BY <1>1, <1>4, GenNumbers
  <1> QED
    BY <1>3, <1>5 DEF Contradicts

-----------------------------------------------------------------------------
(* Order updates                                                           *)

\* What a read may be that an update is made of: the broker's past.
PastRead(g, r) ==
    /\ r \in OrderRead
    /\ filled[g] <= r.filled /\ r.filled <= broker[g].filled
    /\ r.state \in Terminal => r = broker[g]
    /\ r.state = "submitted" => r.filled = 0
    /\ r.state = "partially_filled" => r.filled \in 1..(qty[g] - 1)

\* An update that lets go of the reservation when the order is over.
LEMMA UpdateKeepsBooks ==
  ASSUME RepriceInv, NEW g \in Gens, place[g] \in {"sent", "placed"}, broker[g].state # "none",
         NEW r, PastRead(g, r), NEW s,
         order' = [order EXCEPT ![g] = r.state], filled' = [filled EXCEPT ![g] = r.filled],
         held' = HeldAfter(g, r, FALSE), resource' = ResourceAfter(g, r, FALSE),
         place' = [place EXCEPT ![g] = s],
         r.state \in Working => s = "placed" /\ status' = status,
         r.state \in Terminal => s \in {"settled", "failed"},
         r.state \in TerminalUnfilled => status' = FailureStatus(filled'),
         r.state = "filled" => status' = "executed",
         UNCHANGED <<qty, reprices, mode, broker>>,
         \A h \in Gens : h # g => cancel'[h] = cancel[h],
         cancel'[g] = "settled" => s = "settled",
         cancel'[g] \in Unresolved => r.state \in Working
  PROVE  /\ Books'
         /\ place' \in [Gens -> PlaceStates] /\ filled' \in [Gens -> 0..Qty]
         /\ order' \in [Gens -> {"none", "new"} \cup Working \cup Terminal]
         /\ held' \in 0..Qty /\ resource' \in {"held", "released", "converted"}
         /\ status' \in {"auto_approved", "executed", "failed"}
  <1>1. /\ Chain(g) /\ Reserved(g)
        /\ resource = "held" /\ held = qty[g] - filled[g] /\ held > 0
        /\ qty[g] \in 1..Qty /\ filled[g] \in 0..Qty /\ held \in 1..Qty
    BY LiveIsLast DEF PlaceLive
  <1>2. /\ place \in [Gens -> PlaceStates] /\ filled \in [Gens -> 0..Qty]
        /\ order \in [Gens -> {"none", "new"} \cup Working \cup Terminal]
        /\ broker \in [Gens -> BrokerOrders] /\ status \in {"auto_approved", "executed", "failed"}
        /\ qty \in [Gens -> 0..Qty]
    BY DEF RepriceInv, RepriceTypeOK, PlaceStates, BrokerOrders
  <1>3. BrokerFact(g) /\ OrderFact(g) /\ PlaceFact(g)
    BY DEF RepriceInv, Books
  <1>4. /\ r.state \in Working \cup Terminal /\ r.filled \in 0..Qty /\ r.filled <= qty[g]
        /\ broker[g].filled \in 0..Qty
    BY <1>1, <1>2, <1>3, GenNumbers DEF PastRead, OrderRead, BrokerFact, BrokerOrders
  <1>5. /\ place'[g] = s /\ order'[g] = r.state /\ filled'[g] = r.filled
        /\ \A h \in Gens : h # g => place'[h] = place[h] /\ order'[h] = order[h] /\ filled'[h] = filled[h]
    BY <1>2
  <1>6. /\ s \in PlaceStates /\ (s = "placed" <=> r.state \in Working)
        /\ s \in {"placed", "settled", "failed"}
    BY <1>4 DEF PlaceStates, PlaceLive, Working, Terminal, TerminalUnfilled
  <1>7. r.state = "filled" <=> r.filled = qty[g]
    <2>1. CASE r.state \in Terminal
      BY <1>1, <1>3, <1>4, <2>1, GenNumbers DEF PastRead, BrokerFact, Terminal, TerminalUnfilled
    <2>2. CASE r.state = "submitted"
      BY <1>1, <2>2, GenNumbers DEF PastRead
    <2>3. CASE r.state = "partially_filled"
      BY <1>1, <2>3, GenNumbers DEF PastRead
    <2> QED
      BY <1>4, <2>1, <2>2, <2>3 DEF Working
  <1>8. r.filled - filled[g] \in 0..Qty /\ (held = r.filled - filled[g] <=> r.filled = qty[g])
    BY <1>1, <1>4, GenNumbers DEF PastRead
  <1>9. /\ r.state \in Working =>
             resource' = "held" /\ held' = qty[g] - r.filled /\ held' > 0
        /\ r.state \in Terminal => resource' \in {"released", "converted"} /\ held' = 0
    <2>1. CASE r.state \in Working
      <3>1. r.filled # qty[g] /\ r.state \notin TerminalUnfilled
        BY <1>7, <2>1 DEF Working, TerminalUnfilled
      <3>2. held' = held - (r.filled - filled[g]) /\ resource' = "held"
        BY <1>1, <1>8, <3>1 DEF HeldAfter, ResourceAfter
      <3>3. PICK q \in Nat, f \in Nat, n \in Nat : q = qty[g] /\ f = filled[g] /\ n = r.filled
        BY <1>1, <1>4, GenNumbers
      <3>4. held' = (q - f) - (n - f) /\ n <= q /\ n # q
        BY <1>1, <1>4, <3>1, <3>2, <3>3
      <3>6. \A a, b, c \in Nat : c <= a /\ c # a => (a - b) - (c - b) = a - c /\ a - c > 0
        OBVIOUS
      <3>7. (q - f) - (n - f) = q - n /\ q - n > 0
        BY <3>4, <3>6, Zenon
      <3>5. held' = q - n /\ held' > 0
        BY <3>4, <3>7, Zenon
      <3> QED
        BY <2>1, <3>2, <3>3, <3>5 DEF Working, Terminal, TerminalUnfilled
    <2>2. CASE r.state \in TerminalUnfilled
      <3>1. r.filled # qty[g]
        BY <1>7, <2>2 DEF TerminalUnfilled
      <3>2. held' = 0 /\ resource' = "released"
        BY <1>1, <1>8, <2>2, <3>1 DEF HeldAfter, ResourceAfter
      <3> QED
        BY <2>2, <3>2 DEF Working, TerminalUnfilled
    <2>3. CASE r.state = "filled"
      <3>1. held' = held - (r.filled - filled[g]) /\ resource' = Consumed
        BY <1>1, <1>7, <1>8, <2>3 DEF HeldAfter, ResourceAfter, TerminalUnfilled
      <3>2. held' = 0
        <4>1. held = r.filled - filled[g] /\ held \in Nat
          BY <1>1, <1>7, <1>8, <2>3, GenNumbers
        <4>2. \A h \in Nat : h - h = 0
          OBVIOUS
        <4> QED
          BY <3>1, <4>1, <4>2
      <3> QED
        BY <2>3, <3>1, <3>2 DEF Working, Consumed
    <2> QED
      BY <1>4, <2>1, <2>2, <2>3 DEF Terminal
  <1>10. r.state \in Terminal => status' = FailureStatus(filled')
    <2>1. CASE r.state = "filled"
      <3>1. filled'[g] > 0
        BY <1>1, <1>5, <1>7, <2>1, GenNumbers
      <3> QED
        BY <2>1, <3>1 DEF FailureStatus, HasFills
    <2> QED
      BY <2>1 DEF Terminal
  <1>11. BrokerFact(g)' /\ OrderFact(g)' /\ PlaceFact(g)'
    <2>1. BrokerFact(g)'
      BY <1>3 DEF BrokerFact
    <2>2. OrderFact(g)'
      BY <1>4, <1>5, <1>7, GenNumbers DEF OrderFact, PastRead, Working, Terminal, TerminalUnfilled
    <2>3. r.state \in Terminal => broker[g].state \notin Working
      BY DEF PastRead, Working, Terminal, TerminalUnfilled
    <2>4. PlaceFact(g)'
      BY <1>3, <1>4, <1>5, <1>6, <2>3 DEF PlaceFact, Working, Terminal, TerminalUnfilled, Unresolved
    <2> QED
      BY <2>1, <2>2, <2>4
  <1>12. ASSUME NEW h \in Gens, h # g PROVE BrokerFact(h)' /\ OrderFact(h)' /\ PlaceFact(h)'
    <2>1. BrokerFact(h) /\ OrderFact(h) /\ PlaceFact(h)
      BY DEF RepriceInv, Books
    <2>2. place'[h] = place[h] /\ order'[h] = order[h] /\ filled'[h] = filled[h] /\ cancel'[h] = cancel[h]
      BY <1>5, <1>12
    <2> QED
      BY <2>1, <2>2 DEF BrokerFact, OrderFact, PlaceFact
  <1>13. Chain(g)'
    <2>1. \A h \in Gens : h < g => h # g /\ place[h] = "settled" /\ order[h] # "filled"
                                 /\ qty[h + 1] = qty[h] - filled[h] /\ reprices[h] = h
      BY <1>1, GenNumbers DEF Chain
    <2>2. \A h \in Gens : place'[h] # "none" <=> place[h] # "none"
      BY <1>5, <1>6
    <2> QED
      BY <1>1, <1>5, <2>1, <2>2 DEF Chain
  <1>14. Reserved(g)'
    BY <1>1, <1>4, <1>5, <1>6, <1>9, <1>10 DEF Reserved, PlaceLive, FailureStatus, HasFills
  <1>15. Books'
    BY <1>11, <1>12, <1>13, <1>14 DEF Books, Gens
  <1>16. held' \in 0..Qty /\ resource' \in {"held", "released", "converted"}
    <2>1. PICK q \in 0..Qty, n \in 0..Qty : q = qty[g] /\ n = r.filled /\ n <= q
      BY <1>1, <1>4, GenNumbers
    <2>2. q - n \in 0..Qty /\ 0 \in 0..Qty
      BY <2>1, GenNumbers
    <2> QED
      BY <1>4, <1>9, <2>1, <2>2
  <1>17. status' \in {"auto_approved", "executed", "failed"}
    BY <1>2, <1>4, <1>10 DEF FailureStatus
  <1> QED
    BY <1>2, <1>4, <1>6, <1>15, <1>16, <1>17

\* A replacement takes over the reservation of the order that is over.
LEMMA ReplaceKeepsBooks ==
  ASSUME RepriceInv, NEW g \in Gens, place[g] = "placed",
         NEW r, PastRead(g, r), r.state \in TerminalUnfilled,
         filled' = [filled EXCEPT ![g] = r.filled], reprices[g] + 1 <= EffectiveMax, Replace(g, r),
         UNCHANGED <<mode, broker>>,
         \A h \in Gens : h # g => cancel'[h] = cancel[h],
         cancel'[g] = "settled"
  PROVE  /\ Books'
         /\ place' \in [Gens -> PlaceStates] /\ filled' \in [Gens -> 0..Qty] /\ qty' \in [Gens -> 0..Qty]
         /\ order' \in [Gens -> {"none", "new"} \cup Working \cup Terminal]
         /\ reprices' \in [Gens -> 0..MaxReprices]
         /\ held' \in 0..Qty /\ resource' \in {"held", "released", "converted"}
         /\ status' \in {"auto_approved", "executed", "failed"}
  <1>1. /\ Chain(g) /\ Reserved(g)
        /\ resource = "held" /\ held = qty[g] - filled[g] /\ held > 0
        /\ qty[g] \in 1..Qty /\ filled[g] \in 0..Qty /\ held \in 1..Qty
    BY LiveIsLast DEF PlaceLive
  <1>2. /\ place \in [Gens -> PlaceStates] /\ filled \in [Gens -> 0..Qty]
        /\ order \in [Gens -> {"none", "new"} \cup Working \cup Terminal]
        /\ broker \in [Gens -> BrokerOrders] /\ status \in {"auto_approved", "executed", "failed"}
        /\ qty \in [Gens -> 0..Qty] /\ reprices \in [Gens -> 0..MaxReprices]
        /\ policyMax \in 0..(MaxReprices + 1)
    BY DEF RepriceInv, RepriceTypeOK, PlaceStates, BrokerOrders
  <1>3. BrokerFact(g) /\ OrderFact(g) /\ PlaceFact(g)
    BY DEF RepriceInv, Books
  <1>4. EffectiveMax \in 0..MaxReprices
    BY <1>2, MaxRepricesAssumption DEF EffectiveMax
  <1>5. PICK n : n = g + 1
    OBVIOUS
  <1>6. reprices[g] = g - 1 /\ g \in Nat \ {0}
    BY <1>1, GenNumbers DEF Chain
  <1>7. g <= MaxReprices
    BY <1>2, <1>4, <1>6, MaxRepricesAssumption
  <1>8. n \in Gens /\ n # g /\ n \in Nat /\ g < n /\ ~(n <= g)
    BY <1>5, <1>6, <1>7, GenNumbers, MaxRepricesAssumption DEF LastGen
  <1>9. place[n] = "none"
    BY <1>1, <1>8 DEF Chain
  <1>10. BrokerFact(n) /\ OrderFact(n) /\ PlaceFact(n)
    BY <1>8 DEF RepriceInv, Books
  <1>11. /\ r = broker[g] /\ r.filled \in 0..Qty /\ r.filled < qty[g] /\ filled[g] <= r.filled
         /\ r.state \in Terminal
    <2>1. r = broker[g] /\ filled[g] <= r.filled /\ r.filled \in 0..Qty /\ r.state \in Terminal
      BY DEF PastRead, OrderRead, Terminal
    <2>2. r.filled < qty[g]
      BY <1>1, <1>3, <2>1, GenNumbers DEF BrokerFact, TerminalUnfilled
    <2> QED
      BY <2>1, <2>2
  <1>12. PICK q : q = qty[g] - r.filled /\ q \in 1..Qty
    <2>1. \A a \in 1..Qty, b \in 0..Qty : b < a => a - b \in 1..Qty
      BY GenNumbers
    <2> QED
      BY <1>1, <1>11, <2>1, Zenon
  <1>13. /\ qty' = [qty EXCEPT ![n] = q] /\ held' = q
         /\ order' = [order EXCEPT ![g] = r.state, ![n] = "new"]
         /\ place' = [place EXCEPT ![g] = "settled", ![n] = "pending"]
         /\ reprices' = [reprices EXCEPT ![g] = @ + 1, ![n] = reprices[g] + 1]
         /\ status' = IF HasFills(filled') THEN "executed" ELSE status
    BY <1>2, <1>5, <1>12 DEF Replace, RemainderOf
  <1>14. resource' = "held"
    <2>1. HeldAfter(g, r, TRUE) = held - (r.filled - filled[g]) /\ HeldAfter(g, r, TRUE) = q
      BY <1>12 DEF HeldAfter, Replace, RemainderOf
    <2>2. \A a, b \in Int : a = b => a - b = 0
      OBVIOUS
    <2>3. r.filled - filled[g] \in Int /\ held \in Int /\ q # 0
      BY <1>1, <1>11, <1>12, GenNumbers
    <2>4. held # r.filled - filled[g]
      BY <2>1, <2>2, <2>3, Zenon
    <2> QED
      BY <1>1, <2>4 DEF Replace, ResourceAfter
  <1>15. /\ place'[g] = "settled" /\ order'[g] = r.state /\ filled'[g] = r.filled /\ qty'[g] = qty[g]
         /\ place'[n] = "pending" /\ order'[n] = "new" /\ filled'[n] = filled[n] /\ qty'[n] = q
         /\ reprices'[g] = reprices[g] + 1 /\ reprices'[n] = reprices[g] + 1
    BY <1>2, <1>8, <1>13
  <1>16. \A h \in Gens : h # g /\ h # n =>
           /\ place'[h] = place[h] /\ order'[h] = order[h] /\ filled'[h] = filled[h]
           /\ qty'[h] = qty[h] /\ reprices'[h] = reprices[h] /\ cancel'[h] = cancel[h]
    BY <1>2, <1>13
  <1>17. reprices'[g] = g /\ reprices'[n] = n - 1 /\ g \in 0..MaxReprices
    BY <1>5, <1>6, <1>7, <1>15, MaxRepricesAssumption
  <1>18. BrokerFact(g)' /\ OrderFact(g)' /\ PlaceFact(g)'
    <2>1. BrokerFact(g)'
      BY <1>3, <1>15 DEF BrokerFact
    <2>2. OrderFact(g)'
      BY <1>11, <1>15, GenNumbers DEF OrderFact, Terminal, TerminalUnfilled
    <2>3. PlaceFact(g)'
      BY <1>3, <1>11, <1>15 DEF PlaceFact, Working, Terminal, TerminalUnfilled, Unresolved
    <2> QED
      BY <2>1, <2>2, <2>3
  <1>19. BrokerFact(n)' /\ OrderFact(n)' /\ PlaceFact(n)'
    <2>1. cancel'[n] = cancel[n] /\ broker[n].state = "none" /\ broker[n].filled = 0 /\ broker'[n] = broker[n]
      BY <1>8, <1>9, <1>10 DEF PlaceFact, BrokerFact
    <2>2. BrokerFact(n)'
      BY <1>12, <1>15, <2>1, GenNumbers DEF BrokerFact
    <2>3. filled[n] = 0 /\ order[n] = "none"
      BY <1>9, <1>10 DEF PlaceFact, OrderFact
    <2>4. OrderFact(n)'
      BY <1>15, <2>1, <2>3 DEF OrderFact, Terminal, TerminalUnfilled
    <2>5. PlaceFact(n)'
      BY <1>9, <1>10, <1>15, <2>1, <2>3 DEF PlaceFact, Working, Terminal, TerminalUnfilled, Unresolved
    <2> QED
      BY <2>2, <2>4, <2>5
  <1>20. ASSUME NEW h \in Gens, h # g, h # n PROVE BrokerFact(h)' /\ OrderFact(h)' /\ PlaceFact(h)'
    <2>1. BrokerFact(h) /\ OrderFact(h) /\ PlaceFact(h)
      BY DEF RepriceInv, Books
    <2>2. /\ place'[h] = place[h] /\ order'[h] = order[h] /\ filled'[h] = filled[h] /\ cancel'[h] = cancel[h]
          /\ qty'[h] = qty[h] /\ reprices'[h] = reprices[h]
      BY <1>16, <1>20
    <2> QED
      BY <2>1, <2>2 DEF BrokerFact, OrderFact, PlaceFact
  <1>21. Chain(n)'
    <2>1. qty'[1] = Qty
      <3>1. n # 1
        BY <1>5, <1>6
      <3> QED
        BY <1>1, <1>2, <1>13, <3>1, GenNumbers DEF Chain
    <2>2. \A h \in Gens : place'[h] # "none" <=> h <= n
      <3>1. \A h \in Gens : h <= n <=> h <= g \/ h = n
        BY <1>5, <1>6, GenNumbers
      <3> QED
        BY <1>1, <1>15, <1>16, <3>1 DEF Chain
    <2>3. ASSUME NEW h \in Gens, h < n
          PROVE  /\ place'[h] = "settled" /\ order'[h] # "filled"
                 /\ qty'[h + 1] = qty'[h] - filled'[h] /\ reprices'[h] = h
      <3>1. CASE h = g
        BY <1>5, <1>12, <1>15, <1>17, <3>1 DEF TerminalUnfilled
      <3>2. CASE h # g
        <4>1. h < g /\ h # n /\ h + 1 # n /\ h + 1 \in Gens
          BY <1>5, <1>6, <2>3, <3>2, GenNumbers
        <4>2. qty'[h + 1] = qty[h + 1]
          BY <1>2, <1>13, <4>1
        <4>3. /\ place[h] = "settled" /\ order[h] # "filled"
              /\ qty[h + 1] = qty[h] - filled[h] /\ reprices[h] = h
          BY <1>1, <4>1 DEF Chain
        <4> QED
          BY <1>16, <3>2, <4>1, <4>2, <4>3
      <3> QED
        BY <3>1, <3>2
    <2> QED
      BY <1>17, <2>1, <2>2, <2>3 DEF Chain
  <1>22. Reserved(n)'
    <2>1. filled'[n] = 0
      BY <1>9, <1>10, <1>15 DEF PlaceFact, OrderFact
    <2>2. \A a \in Nat : a - 0 = a
      OBVIOUS
    <2>3. q > 0 /\ q \in Nat
      BY <1>12, GenNumbers
    <2>4. held' = qty'[n] - filled'[n] /\ held' > 0 /\ qty'[n] > 0
      BY <1>13, <1>15, <2>1, <2>2, <2>3, Zenon
    <2> QED
      BY <1>14, <1>15, <2>4 DEF Reserved, PlaceLive
  <1>23. Books'
    BY <1>8, <1>18, <1>19, <1>20, <1>21, <1>22 DEF Books, Gens
  <1>24. /\ place' \in [Gens -> PlaceStates] /\ filled' \in [Gens -> 0..Qty]
         /\ order' \in [Gens -> {"none", "new"} \cup Working \cup Terminal]
    BY <1>2, <1>11, <1>13 DEF PlaceStates, PlaceLive
  <1>25. qty' \in [Gens -> 0..Qty] /\ held' \in 0..Qty
    <2>1. q \in 0..Qty
      BY <1>12, GenNumbers
    <2> QED
      BY <1>2, <1>13, <2>1
  <1>26. reprices' \in [Gens -> 0..MaxReprices]
    BY <1>2, <1>5, <1>13, <1>15, <1>17, <1>6
  <1> QED
    BY <1>2, <1>13, <1>14, <1>23, <1>24, <1>25, <1>26

-----------------------------------------------------------------------------
(* Steps that write nothing about orders                                   *)

\* Books and broker stand, and a cancel changes at most from one that is not
\* settled to another, of an order that works if it is unresolved.
CancelsMove ==
    /\ cancel' \in [Gens -> {"none", "settled", "failed"} \cup Unresolved]
    /\ \A g \in Gens :
         \/ cancel'[g] = cancel[g]
         \/ cancel'[g] \notin Unresolved \cup {"settled"} /\ cancel[g] # "settled"
         \/ cancel'[g] \in Unresolved /\ place[g] = "placed"

LEMMA SettledIsOver ==
  ASSUME RepriceInv, NEW g \in Gens, place[g] = "placed"
  PROVE  cancel[g] # "settled" /\ order[g] \in Working
  BY DEF RepriceInv, Books, PlaceFact, Working, Terminal, TerminalUnfilled

LEMMA CancelsKeepBooks ==
  ASSUME RepriceInv, UNCHANGED <<bookVars, broker, mode>>, CancelsMove
  PROVE  Books' /\ \A g \in Gens : cancel'[g] = "settled" <=> cancel[g] = "settled"
  <1>0. UNCHANGED <<place, qty, order, filled, reprices, held, resource, status>>
    BY DEF bookVars
  <1>1. ASSUME NEW g \in Gens
        PROVE  /\ BrokerFact(g)' /\ OrderFact(g)' /\ PlaceFact(g)'
               /\ cancel'[g] = "settled" <=> cancel[g] = "settled"
    <2>1. BrokerFact(g) /\ OrderFact(g) /\ PlaceFact(g)
      BY DEF RepriceInv, Books
    <2>2. cancel'[g] = "settled" <=> cancel[g] = "settled"
      BY SettledIsOver DEF CancelsMove, Unresolved
    <2>3. cancel'[g] \in Unresolved => place[g] = "placed"
      BY <2>1 DEF CancelsMove, PlaceFact
    <2>4. BrokerFact(g)' /\ OrderFact(g)'
      BY <1>0, <2>1 DEF BrokerFact, OrderFact
    <2>5. PlaceFact(g)'
      BY <1>0, <2>1, <2>2, <2>3 DEF PlaceFact
    <2> QED
      BY <2>2, <2>4, <2>5
  <1>2. \E last \in Gens : Chain(last)' /\ Reserved(last)'
    BY <1>0 DEF RepriceInv, Books, Chain, Reserved, FailureStatus, HasFills
  <1> QED
    BY <1>1, <1>2 DEF Books, Gens

\* A goroutine that does not move finds what it read still true.
LEMMA ReadsStay ==
  ASSUME RepriceInv, NEW p \in Procs, proc'[p] = proc[p],
         UNCHANGED <<bookVars, broker>>, \A g \in Gens : cancel[g] = "settled" => cancel'[g] = "settled"
  PROVE  ReadFact(p)'
  <1>1. ReadFact(p) /\ proc[p].gen \in Gens
    BY DEF RepriceInv, RepriceTypeOK
  <1> QED
    BY <1>1 DEF ReadFact, bookVars

\* A goroutine that has read nothing has nothing to keep.
LEMMA FreshRead ==
  ASSUME NEW p \in Procs, proc'[p].pc \notin {"decide", "finalize", "listed", "observed"}
  PROVE  ReadFact(p)'
  BY DEF ReadFact

ProcRecords == [pc : Pcs, gen : Gens, reason : BOOLEAN, read : OrderRead]

LEMMA IdleRecord == Idle \in ProcRecords /\ Idle.pc = "idle"
  <1>1. NoRead \in OrderRead
    BY RepriceQtyAssumption DEF NoRead, OrderRead, Working
  <1> QED
    BY <1>1, GenNumbers DEF Idle, ProcRecords, Pcs

\* A step of the goroutine p: books and broker stand.
LEMMA ProcMoves ==
  ASSUME RepriceInv, NEW p \in Procs, NEW r \in ProcRecords, proc' = [proc EXCEPT ![p] = r],
         UNCHANGED <<bookVars, policyVars, broker, integrity>>, CancelsMove,
         owner' \in [Gens -> Procs \cup {"none"}],
         leased' \in [Gens -> BOOLEAN], sent' \in [Gens -> BOOLEAN], cancelSent' \in [Gens -> BOOLEAN],
         ReadFact(p)'
  PROVE  RepriceInv'
  <1>1. RepriceTypeOK /\ NoIntegrityHalt
    BY DEF RepriceInv
  <1>2. RepriceTypeOK'
    <2>1. proc' \in [Procs -> ProcRecords]
      BY <1>1 DEF RepriceTypeOK, ProcRecords
    <2> QED
      BY <1>1, <2>1 DEF RepriceTypeOK, ProcRecords, CancelsMove, bookVars, policyVars, Gens, OrderRead
  <1>3. Books' /\ \A g \in Gens : cancel'[g] = "settled" <=> cancel[g] = "settled"
    BY CancelsKeepBooks DEF policyVars
  <1>4. ASSUME NEW q \in Procs PROVE ReadFact(q)'
    <2>1. CASE q = p
      BY <2>1
    <2>2. CASE q # p
      <3>1. proc'[q] = proc[q]
        BY <1>1, <2>2 DEF RepriceTypeOK
      <3> QED
        BY <1>3, <3>1, ReadsStay
    <2> QED
      BY <2>1, <2>2
  <1>5. NoIntegrityHalt'
    BY <1>1 DEF NoIntegrityHalt
  <1> QED
    BY <1>2, <1>3, <1>4, <1>5 DEF RepriceInv

LEMMA NoCancelMoves ==
  ASSUME RepriceInv, UNCHANGED cancelVars
  PROVE  /\ CancelsMove /\ owner' \in [Gens -> Procs \cup {"none"}]
         /\ leased' \in [Gens -> BOOLEAN] /\ sent' \in [Gens -> BOOLEAN]
  BY DEF RepriceInv, RepriceTypeOK, CancelsMove, cancelVars

\* The goroutine stops, or goes on without a read.
LEMMA ProcGoesOn ==
  ASSUME RepriceInv, NEW p \in Procs, NEW r \in ProcRecords, proc' = [proc EXCEPT ![p] = r],
         r.pc \notin {"decide", "finalize", "listed", "observed"},
         UNCHANGED <<bookVars, policyVars, brokerVars, integrity>>, CancelsMove,
         owner' \in [Gens -> Procs \cup {"none"}],
         leased' \in [Gens -> BOOLEAN], sent' \in [Gens -> BOOLEAN]
  PROVE  RepriceInv'
  <1>1. proc'[p] = r
    BY DEF RepriceInv, RepriceTypeOK
  <1>2. ReadFact(p)'
    BY <1>1, FreshRead
  <1>3. broker' = broker /\ cancelSent' \in [Gens -> BOOLEAN]
    BY DEF brokerVars, RepriceInv, RepriceTypeOK
  <1> QED
    BY <1>2, <1>3, ProcMoves

LEMMA StopKeepsInv ==
  ASSUME RepriceInv, NEW p \in Procs, Stop(p),
         UNCHANGED <<bookVars, policyVars, brokerVars, integrity>>, CancelsMove,
         owner' \in [Gens -> Procs \cup {"none"}],
         leased' \in [Gens -> BOOLEAN], sent' \in [Gens -> BOOLEAN]
  PROVE  RepriceInv'
  BY IdleRecord, ProcGoesOn DEF Stop

LEMMA ProcTyped ==
  ASSUME RepriceInv, NEW p \in Procs
  PROVE  /\ proc \in [Procs -> ProcRecords] /\ proc[p] \in ProcRecords /\ proc[p].gen \in Gens
         /\ ReadFact(p)
  BY DEF RepriceInv, RepriceTypeOK, ProcRecords

\* Only the step of the goroutine changes.
LEMMA StepRecord ==
  ASSUME RepriceInv, NEW p \in Procs, NEW pc \in Pcs
  PROVE  /\ [proc[p] EXCEPT !.pc = pc] \in ProcRecords
         /\ [proc[p] EXCEPT !.pc = pc].pc = pc
         /\ [proc EXCEPT ![p].pc = pc] = [proc EXCEPT ![p] = [proc[p] EXCEPT !.pc = pc]]
  BY ProcTyped DEF ProcRecords

LEMMA ResolvedMoves ==
  ASSUME RepriceInv, NEW p \in Procs, NEW g \in Gens, NEW s \in {"failed", "unknown"}, CancelResolved(p, g, s)
  PROVE  /\ CancelsMove /\ owner' \in [Gens -> Procs \cup {"none"}]
         /\ leased' \in [Gens -> BOOLEAN] /\ sent' \in [Gens -> BOOLEAN]
         /\ UNCHANGED <<bookVars, policyVars, brokerVars, integrity>>
  <1>1. /\ cancel \in [Gens -> {"none", "settled", "failed"} \cup Unresolved]
        /\ owner \in [Gens -> Procs \cup {"none"}]
        /\ leased \in [Gens -> BOOLEAN] /\ sent \in [Gens -> BOOLEAN]
    BY DEF RepriceInv, RepriceTypeOK
  <1>2. cancel[g] \in Unresolved => place[g] = "placed"
    BY DEF RepriceInv, Books, PlaceFact
  <1>3. Holds(p, g) \in BOOLEAN /\ (Holds(p, g) => cancel[g] = "claimed")
    BY DEF Holds
  <1>4. cancel' = [cancel EXCEPT ![g] = IF Holds(p, g) THEN s ELSE cancel[g]]
    BY <1>1 DEF CancelResolved
  <1>5. cancel' \in [Gens -> {"none", "settled", "failed"} \cup Unresolved]
    BY <1>1, <1>4 DEF Unresolved
  <1>6. CancelsMove
    <2>1. CASE Holds(p, g)
      BY <1>1, <1>2, <1>3, <1>4, <1>5, <2>1 DEF CancelsMove, Unresolved
    <2>2. CASE ~Holds(p, g)
      BY <1>1, <1>4, <1>5, <2>2 DEF CancelsMove
    <2> QED
      BY <2>1, <2>2
  <1>7. leased' \in [Gens -> BOOLEAN]
    BY <1>1 DEF CancelResolved
  <1> QED
    BY <1>1, <1>6, <1>7 DEF CancelResolved

LEMMA ClaimedMoves ==
  ASSUME RepriceInv, NEW p \in Procs, NEW g \in Gens, cancel[g] \in Unresolved, Claimed(p, g)
  PROVE  /\ CancelsMove /\ owner' \in [Gens -> Procs \cup {"none"}]
         /\ leased' \in [Gens -> BOOLEAN] /\ sent' \in [Gens -> BOOLEAN]
         /\ UNCHANGED <<bookVars, policyVars, brokerVars, integrity>>
  <1>1. /\ cancel \in [Gens -> {"none", "settled", "failed"} \cup Unresolved]
        /\ owner \in [Gens -> Procs \cup {"none"}]
        /\ leased \in [Gens -> BOOLEAN] /\ sent \in [Gens -> BOOLEAN]
    BY DEF RepriceInv, RepriceTypeOK
  <1>2. place[g] = "placed"
    BY DEF RepriceInv, Books, PlaceFact
  <1>3. CancelsMove
    BY <1>1, <1>2 DEF Claimed, CancelsMove, Unresolved
  <1> QED
    BY <1>1, <1>3 DEF Claimed

-----------------------------------------------------------------------------
(* Staging, claiming and executing a cancel                                *)

LEMMA PolicyChanges ==
  ASSUME RepriceInv, ChangePolicy
  PROVE  RepriceInv'
  <1>1. RepriceTypeOK /\ NoIntegrityHalt
    BY DEF RepriceInv
  <1>2. UNCHANGED <<mode, bookVars, cancelVars, brokerVars, integrity, proc>>
    BY DEF ChangePolicy
  <1>3. policyMax' \in 0..(MaxReprices + 1) /\ ledgerHalted' \in BOOLEAN
    BY <1>1 DEF ChangePolicy, RepriceTypeOK
  <1>4. RepriceTypeOK'
    BY <1>1, <1>2, <1>3 DEF RepriceTypeOK, bookVars, cancelVars, brokerVars, Gens, OrderRead
  <1>5. Books'
    BY <1>2, NoCancelMoves, CancelsKeepBooks DEF brokerVars
  <1>6. \A p \in Procs : ReadFact(p)'
    BY <1>2, ReadsStay DEF brokerVars, cancelVars
  <1> QED
    BY <1>1, <1>2, <1>4, <1>5, <1>6 DEF RepriceInv, NoIntegrityHalt

LEMMA StageKeepsInv ==
  ASSUME RepriceInv, NEW g \in Gens, StageRepriceCancel(g)
  PROVE  RepriceInv'
  <1>1. PICK r : r = [Idle EXCEPT !.pc = "staged", !.gen = g, !.reason = PolicyReason(g)]
    OBVIOUS
  <1>2. r \in ProcRecords /\ r.pc = "staged"
    <2>1. PolicyReason(g) \in BOOLEAN
      BY DEF PolicyReason
    <2> QED
      BY <1>1, <2>1, IdleRecord DEF ProcRecords, Pcs, Idle
  <1>3. "repricer" \in Procs /\ proc' = [proc EXCEPT !["repricer"] = r]
    BY <1>1 DEF StageRepriceCancel, Procs
  <1>4. /\ cancel \in [Gens -> {"none", "settled", "failed"} \cup Unresolved]
        /\ owner \in [Gens -> Procs \cup {"none"}]
        /\ leased \in [Gens -> BOOLEAN] /\ sent \in [Gens -> BOOLEAN]
    BY DEF RepriceInv, RepriceTypeOK
  <1>5. place[g] = "placed"
    BY DEF RepriceInv, Books, PlaceFact, StageRepriceCancel
  <1>6. CancelsMove
    BY <1>4, <1>5 DEF StageRepriceCancel, CancelsMove, Unresolved
  <1>7. /\ owner' \in [Gens -> Procs \cup {"none"}]
        /\ leased' \in [Gens -> BOOLEAN] /\ sent' \in [Gens -> BOOLEAN]
    BY <1>4 DEF StageRepriceCancel
  <1>8. UNCHANGED <<bookVars, policyVars, brokerVars, integrity>>
    BY DEF StageRepriceCancel
  <1> QED
    BY <1>2, <1>3, <1>6, <1>7, <1>8, ProcGoesOn

LEMMA ClaimStagedKeepsInv ==
  ASSUME RepriceInv, ClaimStaged
  PROVE  RepriceInv'
  <1>1. PICK p \in Procs : p = "repricer"
    BY DEF Procs
  <1>2. PICK g \in Gens : g = proc[p].gen
    BY ProcTyped
  <1>3. CASE cancel[g] = "pending" /\ Claimed(p, g) /\ Goto(p, "claimed")
    <2>1. "claimed" \in Pcs
      BY DEF Pcs
    <2>2. PICK r \in ProcRecords : r.pc = "claimed" /\ proc' = [proc EXCEPT ![p] = r]
      BY <1>3, <2>1, StepRecord DEF Goto
    <2>3. cancel[g] \in Unresolved
      BY <1>3 DEF Unresolved
    <2> QED
      BY <1>3, <2>2, <2>3, ClaimedMoves, ProcGoesOn
  <1>4. CASE Stop(p) /\ UNCHANGED <<bookVars, cancelVars, policyVars, brokerVars, integrity>>
    BY <1>4, NoCancelMoves, StopKeepsInv
  <1> QED
    BY <1>1, <1>2, <1>3, <1>4 DEF ClaimStaged

LEMMA RecoverKeepsInv ==
  ASSUME RepriceInv, NEW g \in Gens, Recover(g)
  PROVE  RepriceInv'
  <1>1. PICK p \in Procs : p = "reconciler"
    BY DEF Procs
  <1>2. Claimed(p, g) /\ cancel[g] \in Unresolved
    BY <1>1 DEF Recover, ClaimPendingCancel, ClaimUncertainCancel, Unresolved
  <1>3. PolicyReason(g) \in BOOLEAN
    BY DEF PolicyReason
  <1>4. PICK a : a = [Idle EXCEPT !.pc = "claimed", !.gen = g, !.reason = PolicyReason(g)]
    OBVIOUS
  <1>5. PICK b : b = [Idle EXCEPT !.pc = "query", !.gen = g]
    OBVIOUS
  <1>6. a \in ProcRecords /\ a.pc = "claimed" /\ b \in ProcRecords /\ b.pc = "query"
    BY <1>3, <1>4, <1>5, IdleRecord DEF ProcRecords, Pcs, Idle
  <1>7. proc' = [proc EXCEPT ![p] = a] \/ proc' = [proc EXCEPT ![p] = b]
    BY <1>1, <1>4, <1>5 DEF Recover, ClaimPendingCancel, ClaimUncertainCancel
  <1> QED
    BY <1>2, <1>6, <1>7, ClaimedMoves, ProcGoesOn

LEMMA LeaseKeepsInv ==
  ASSUME RepriceInv, NEW g \in Gens, LeaseExpires(g)
  PROVE  RepriceInv'
  <1>1. RepriceTypeOK /\ NoIntegrityHalt
    BY DEF RepriceInv
  <1>2. UNCHANGED <<cancel, owner, sent, bookVars, policyVars, brokerVars, integrity, proc>>
    BY DEF LeaseExpires
  <1>3. leased' \in [Gens -> BOOLEAN]
    BY <1>1 DEF LeaseExpires, RepriceTypeOK
  <1>4. RepriceTypeOK'
    BY <1>1, <1>2, <1>3 DEF RepriceTypeOK, bookVars, policyVars, brokerVars, Gens, OrderRead
  <1>5. CancelsMove
    BY <1>1, <1>2 DEF CancelsMove, RepriceTypeOK
  <1>6. Books'
    BY <1>2, <1>5, CancelsKeepBooks DEF brokerVars, policyVars
  <1>7. \A p \in Procs : ReadFact(p)'
    BY <1>2, ReadsStay DEF brokerVars
  <1> QED
    BY <1>1, <1>2, <1>4, <1>6, <1>7 DEF RepriceInv, NoIntegrityHalt

LEMMA PreEffectKeepsInv ==
  ASSUME RepriceInv, NEW p \in Procs, PreEffect(p)
  PROVE  RepriceInv'
  <1>1. PICK g \in Gens : g = proc[p].gen
    BY ProcTyped
  <1>2. CASE /\ Goto(p, IF LiveMode THEN "barrier" ELSE "call")
             /\ UNCHANGED <<bookVars, cancelVars, policyVars, brokerVars, integrity>>
    <2>1. PICK s \in {"barrier", "call"} : Goto(p, s)
      BY <1>2
    <2>2. s \in Pcs
      BY DEF Pcs
    <2>3. PICK r \in ProcRecords : r.pc = s /\ proc' = [proc EXCEPT ![p] = r]
      BY <2>1, <2>2, StepRecord DEF Goto
    <2> QED
      BY <1>2, <2>3, NoCancelMoves, ProcGoesOn
  <1>3. CASE CancelResolved(p, g, "failed") /\ Stop(p)
    BY <1>3, ResolvedMoves, StopKeepsInv
  <1> QED
    BY <1>1, <1>2, <1>3 DEF PreEffect

LEMMA MarkSentKeepsInv ==
  ASSUME RepriceInv, NEW p \in Procs, MarkSent(p)
  PROVE  RepriceInv'
  <1>1. PICK g \in Gens : g = proc[p].gen
    BY ProcTyped
  <1>2. CASE /\ sent' = [sent EXCEPT ![g] = TRUE]
             /\ Goto(p, "call")
             /\ UNCHANGED <<cancel, owner, leased, bookVars, policyVars, brokerVars, integrity>>
    <2>1. "call" \in Pcs
      BY DEF Pcs
    <2>2. PICK r \in ProcRecords : r.pc = "call" /\ proc' = [proc EXCEPT ![p] = r]
      BY <1>2, <2>1, StepRecord DEF Goto
    <2>3. /\ CancelsMove /\ owner' \in [Gens -> Procs \cup {"none"}]
          /\ leased' \in [Gens -> BOOLEAN] /\ sent' \in [Gens -> BOOLEAN]
      BY <1>2 DEF RepriceInv, RepriceTypeOK, CancelsMove
    <2> QED
      BY <1>2, <2>2, <2>3, ProcGoesOn
  <1>3. CASE Stop(p) /\ UNCHANGED <<bookVars, cancelVars, policyVars, brokerVars, integrity>>
    BY <1>3, NoCancelMoves, StopKeepsInv
  <1> QED
    BY <1>1, <1>2, <1>3 DEF MarkSent

LEMMA CancelKeepsInv ==
  ASSUME RepriceInv, NEW p \in Procs, CancelOrder(p)
  PROVE  RepriceInv'
  <1>1. "query" \in Pcs
    BY DEF Pcs
  <1>2. PICK r \in ProcRecords : r.pc = "query" /\ proc' = [proc EXCEPT ![p] = r]
    BY <1>1, StepRecord DEF CancelOrder, Goto
  <1>3. proc'[p] = r
    BY <1>2, ProcTyped
  <1>4. ReadFact(p)'
    BY <1>2, <1>3, FreshRead
  <1>5. UNCHANGED <<broker, bookVars, cancelVars, policyVars, integrity>> /\ cancelSent' \in [Gens -> BOOLEAN]
    BY DEF CancelOrder, RepriceInv, RepriceTypeOK
  <1> QED
    BY <1>2, <1>4, <1>5, NoCancelMoves, ProcMoves

LEMMA QueryKeepsInv ==
  ASSUME RepriceInv, NEW p \in Procs, QueryTarget(p)
  PROVE  RepriceInv'
  <1>1. PICK g \in Gens : g = proc[p].gen
    BY ProcTyped
  <1>2. CASE /\ broker[g].state \in Terminal
             /\ proc' = [proc EXCEPT ![p].pc = "decide", ![p].read = broker[g]]
             /\ UNCHANGED <<bookVars, cancelVars, policyVars, brokerVars, integrity>>
    <2>1. PICK r : r = [proc[p] EXCEPT !.pc = "decide", !.read = broker[g]]
      OBVIOUS
    <2>2. broker[g] \in OrderRead
      BY <1>2 DEF RepriceInv, RepriceTypeOK, OrderRead
    <2>3. r \in ProcRecords /\ r.pc = "decide" /\ r.gen = g /\ r.read = broker[g]
      BY <1>1, <2>1, <2>2, ProcTyped DEF ProcRecords, Pcs
    <2>4. proc' = [proc EXCEPT ![p] = r]
      BY <1>2, <2>1, ProcTyped DEF ProcRecords
    <2>5. proc'[p] = r /\ broker' = broker /\ cancelSent' \in [Gens -> BOOLEAN]
      BY <1>2, <2>4, ProcTyped DEF brokerVars, RepriceInv, RepriceTypeOK
    <2>6. ReadFact(p)'
      BY <1>2, <2>3, <2>5 DEF ReadFact
    <2> QED
      BY <1>2, <2>3, <2>4, <2>5, <2>6, NoCancelMoves, ProcMoves
  <1>3. CASE CancelResolved(p, g, "unknown") /\ Stop(p)
    BY <1>3, ResolvedMoves, StopKeepsInv
  <1> QED
    BY <1>1, <1>2, <1>3 DEF QueryTarget

LEMMA DecideKeepsInv ==
  ASSUME RepriceInv, NEW p \in Procs, Decide(p)
  PROVE  RepriceInv'
  <1>1. PICK g \in Gens : g = proc[p].gen
    BY ProcTyped
  <1>2. ASSUME NEW reason \in BOOLEAN,
               proc' = [proc EXCEPT ![p].pc = "finalize", ![p].reason = reason],
               UNCHANGED <<bookVars, cancelVars, policyVars, brokerVars, integrity>>
        PROVE  RepriceInv'
    <2>1. PICK r : r = [proc[p] EXCEPT !.pc = "finalize", !.reason = reason]
      OBVIOUS
    <2>2. r \in ProcRecords /\ r.pc = "finalize" /\ r.gen = g /\ r.read = proc[p].read
      BY <1>1, <2>1, ProcTyped DEF ProcRecords, Pcs
    <2>3. proc' = [proc EXCEPT ![p] = r]
      BY <1>2, <2>1, ProcTyped DEF ProcRecords
    <2>4. proc'[p] = r /\ broker' = broker /\ cancelSent' \in [Gens -> BOOLEAN]
      BY <1>2, <2>3, ProcTyped DEF brokerVars, RepriceInv, RepriceTypeOK
    <2>5. proc[p].read = broker[g] /\ broker[g].state \in Terminal
      BY <1>1, ProcTyped DEF ReadFact, Decide, At
    <2>6. ReadFact(p)'
      BY <2>2, <2>4, <2>5 DEF ReadFact
    <2> QED
      BY <1>2, <2>2, <2>3, <2>4, <2>6, NoCancelMoves, ProcMoves
  <1>3. CASE CancelResolved(p, g, "unknown") /\ Stop(p)
    BY <1>3, ResolvedMoves, StopKeepsInv
  <1>4. \/ CancelResolved(p, g, "unknown") /\ Stop(p)
        \/ /\ \E reason \in BOOLEAN : proc' = [proc EXCEPT ![p].pc = "finalize", ![p].reason = reason]
           /\ UNCHANGED <<bookVars, cancelVars, policyVars, brokerVars, integrity>>
    <2>1. proc[p].reason \in BOOLEAN /\ PolicyReason(g) \in BOOLEAN
      BY ProcTyped DEF ProcRecords, PolicyReason
    <2> QED
      BY <1>1, <2>1, ProcTyped DEF Decide, ProcRecords
  <1> QED
    BY <1>2, <1>3, <1>4

LEMMA CrashKeepsInv ==
  ASSUME RepriceInv, RepriceCrash
  PROVE  RepriceInv'
  <1>1. RepriceTypeOK /\ NoIntegrityHalt
    BY DEF RepriceInv
  <1>2. UNCHANGED <<bookVars, cancelVars, policyVars, brokerVars, integrity>>
    BY DEF RepriceCrash
  <1>3. proc' \in [Procs -> ProcRecords] /\ \A p \in Procs : proc'[p] = Idle
    BY IdleRecord DEF RepriceCrash
  <1>4. RepriceTypeOK'
    BY <1>1, <1>2, <1>3
       DEF RepriceTypeOK, bookVars, cancelVars, policyVars, brokerVars, Gens, OrderRead, ProcRecords
  <1>5. Books'
    BY <1>2, NoCancelMoves, CancelsKeepBooks DEF brokerVars, policyVars
  <1>6. \A p \in Procs : ReadFact(p)'
    BY <1>3, IdleRecord, FreshRead
  <1> QED
    BY <1>1, <1>2, <1>4, <1>5, <1>6 DEF RepriceInv, NoIntegrityHalt

-----------------------------------------------------------------------------
(* The working-order reconciler and a refused finalisation                 *)

LEMMA ListKeepsInv ==
  ASSUME RepriceInv, NEW g \in Gens, ListOrder(g)
  PROVE  RepriceInv'
  <1>1. PICK p \in Procs : p = "reconciler"
    BY DEF Procs
  <1>2. PICK r : r = [Idle EXCEPT !.pc = "listed", !.gen = g]
    OBVIOUS
  <1>3. r \in ProcRecords /\ r.pc = "listed" /\ r.gen = g
    BY <1>2, IdleRecord DEF ProcRecords, Pcs, Idle
  <1>4. /\ proc' = [proc EXCEPT ![p] = r] /\ order[g] \in Working
        /\ UNCHANGED <<bookVars, cancelVars, policyVars, brokerVars, integrity>>
    BY <1>1, <1>2 DEF ListOrder
  <1>5. place[g] = "placed"
    BY <1>4 DEF RepriceInv, Books, PlaceFact
  <1>6. proc'[p] = r /\ place' = place /\ broker' = broker /\ cancelSent' \in [Gens -> BOOLEAN]
    BY <1>4, ProcTyped DEF bookVars, brokerVars, RepriceInv, RepriceTypeOK
  <1>7. ReadFact(p)'
    BY <1>1, <1>3, <1>5, <1>6 DEF ReadFact
  <1> QED
    BY <1>3, <1>4, <1>6, <1>7, NoCancelMoves, ProcMoves

LEMMA ReadKeepsInv ==
  ASSUME RepriceInv, ReadListed
  PROVE  RepriceInv'
  <1>1. PICK p \in Procs : p = "reconciler"
    BY DEF Procs
  <1>2. PICK g \in Gens : g = proc[p].gen
    BY ProcTyped
  <1>3. UNCHANGED <<bookVars, cancelVars, policyVars, brokerVars, integrity>>
    BY DEF ReadListed
  <1>4. CASE Stop(p)
    BY <1>3, <1>4, NoCancelMoves, StopKeepsInv
  <1>5. CASE proc' = [proc EXCEPT ![p].pc = "observed", ![p].read = broker[g]]
    <2>1. PICK r : r = [proc[p] EXCEPT !.pc = "observed", !.read = broker[g]]
      OBVIOUS
    <2>2. place[g] = "placed" \/ cancel[g] = "settled"
      BY <1>1, <1>2, ProcTyped DEF ReadListed, At, ReadFact
    <2>3. BrokerFact(g) /\ OrderFact(g) /\ PlaceFact(g)
      BY DEF RepriceInv, Books
    <2>4. broker[g] \in BrokerOrders /\ broker[g].state # "none"
      <3>1. broker[g] \in BrokerOrders /\ qty[g] \in 0..Qty /\ place[g] \in PlaceStates
        BY DEF RepriceInv, RepriceTypeOK, BrokerOrders, PlaceStates
      <3> QED
        BY <2>2, <2>3, <3>1 DEF PlaceFact
    <2>5. broker[g] \in OrderRead
      BY <2>4 DEF BrokerOrders, OrderRead
    <2>6. r \in ProcRecords /\ r.pc = "observed" /\ r.gen = g /\ r.read = broker[g]
      BY <1>2, <2>1, <2>5, ProcTyped DEF ProcRecords, Pcs
    <2>7. proc' = [proc EXCEPT ![p] = r]
      BY <1>5, <2>1, ProcTyped DEF ProcRecords
    <2>8. proc'[p] = r /\ UNCHANGED <<place, qty, filled, broker, cancel>> /\ cancelSent' \in [Gens -> BOOLEAN]
      BY <1>3, <2>7, ProcTyped DEF bookVars, brokerVars, cancelVars, RepriceInv, RepriceTypeOK
    <2>9. ReadFact(p)'
      <3>1. broker[g].filled <= broker[g].filled
        BY <2>4, GenNumbers DEF BrokerOrders
      <3> QED
        BY <1>1, <2>2, <2>3, <2>6, <2>8, <3>1 DEF ReadFact, BrokerFact, OrderFact
    <2> QED
      BY <1>3, <2>6, <2>7, <2>8, <2>9, NoCancelMoves, ProcMoves
  <1> QED
    BY <1>1, <1>2, <1>4, <1>5 DEF ReadListed

\* A finalisation that is refused is only late: it contradicts nothing.
LEMMA RefusedKeepsInv ==
  ASSUME RepriceInv, NEW p \in Procs, FinalizeRefused(p)
  PROVE  RepriceInv'
  <1>1. PICK g \in Gens : g = proc[p].gen
    BY ProcTyped
  <1>2. PICK r : r = proc[p].read
    OBVIOUS
  <1>3. r = broker[g] /\ r.state \in Terminal /\ r \in OrderRead
    BY <1>1, <1>2, ProcTyped DEF ReadFact, FinalizeRefused, At, ProcRecords
  <1>4. ASSUME Holds(p, g) PROVE ~Contradicts(g, r)
    <2>1. place[g] = "placed"
      BY <1>4 DEF Holds, RepriceInv, Books, PlaceFact, Unresolved
    <2>2. filled[g] <= r.filled /\ r.filled <= qty[g]
      BY <1>3 DEF RepriceInv, Books, BrokerFact, OrderFact
    <2> QED
      BY <1>3, <2>1, <2>2, ReadFits DEF PlaceLive
  <1>5. integrity' = integrity
    BY <1>1, <1>2, <1>4 DEF FinalizeRefused, RepriceInv, RepriceTypeOK
  <1>6. Stop(p) /\ UNCHANGED <<bookVars, cancelVars, policyVars, brokerVars>>
    BY DEF FinalizeRefused
  <1> QED
    BY <1>5, <1>6, NoCancelMoves, StopKeepsInv

-----------------------------------------------------------------------------
(* Steps that write orders                                                 *)

\* What was read of an order stays true while the order keeps its fills, or its
\* cancel is settled.
LEMMA OthersRead ==
  ASSUME RepriceInv, NEW q \in Procs, proc'[q] = proc[q], UNCHANGED broker,
         \A h \in Gens : place[h] = "placed" \/ cancel[h] = "settled" =>
           /\ qty'[h] = qty[h]
           /\ \/ place'[h] = "placed" /\ place[h] = "placed" /\ filled'[h] = filled[h]
              \/ cancel'[h] = "settled" /\ place'[h] # "placed"
  PROVE  ReadFact(q)'
  <1>1. PICK h \in Gens : h = proc[q].gen
    BY ProcTyped
  <1>2. ReadFact(q)
    BY ProcTyped
  <1>3. CASE place[h] = "placed" \/ cancel[h] = "settled"
    BY <1>1, <1>2, <1>3 DEF ReadFact
  <1>4. CASE ~(place[h] = "placed" \/ cancel[h] = "settled")
    BY <1>1, <1>2, <1>4 DEF ReadFact
  <1> QED
    BY <1>3, <1>4

\* Books in their types, reads that stay: the rest of the invariant follows.
LEMMA BooksMove ==
  ASSUME RepriceInv, Books',
         place' \in [Gens -> PlaceStates], filled' \in [Gens -> 0..Qty], qty' \in [Gens -> 0..Qty],
         order' \in [Gens -> {"none", "new"} \cup Working \cup Terminal],
         reprices' \in [Gens -> 0..MaxReprices],
         held' \in 0..Qty, resource' \in {"held", "released", "converted"},
         status' \in {"auto_approved", "executed", "failed"},
         cancel' \in [Gens -> {"none", "settled", "failed"} \cup Unresolved],
         leased' \in [Gens -> BOOLEAN], proc' \in [Procs -> ProcRecords],
         broker' \in [Gens -> BrokerOrders],
         UNCHANGED <<owner, sent, policyVars, cancelSent, integrity>>,
         \A p \in Procs : ReadFact(p)'
  PROVE  RepriceInv'
  <1>1. RepriceTypeOK'
    BY DEF RepriceInv, RepriceTypeOK, policyVars, PlaceStates, ProcRecords, BrokerOrders
  <1> QED
    BY <1>1 DEF RepriceInv, NoIntegrityHalt

\* A replacement that has not been sent, or a send: no order changes at the
\* broker, and the books only if the replacement is over.
LEMMA UnsentMoves ==
  ASSUME RepriceInv, NEW g \in Gens, place[g] \in {"pending", "claimed"},
         NEW s, NEW o, place' = [place EXCEPT ![g] = s], order' = [order EXCEPT ![g] = o],
         UNCHANGED <<qty, filled, reprices, cancelVars, policyVars, brokerVars, integrity, proc>>,
         \/ s \in {"claimed", "sent"} /\ o = "new" /\ UNCHANGED <<held, resource, status>>
         \/ s = "failed" /\ o \in {"new", "rejected"} /\ held' = 0 /\ resource' = "released"
            /\ status' = FailureStatus(filled)
  PROVE  RepriceInv'
  <1>1. Chain(g) /\ Reserved(g)
    BY LiveIsLast DEF PlaceLive
  <1>2. /\ place \in [Gens -> PlaceStates] /\ order \in [Gens -> {"none", "new"} \cup Working \cup Terminal]
        /\ filled \in [Gens -> 0..Qty] /\ qty \in [Gens -> 0..Qty] /\ reprices \in [Gens -> 0..MaxReprices]
        /\ held \in 0..Qty /\ resource \in {"held", "released", "converted"}
        /\ status \in {"auto_approved", "executed", "failed"}
        /\ cancel \in [Gens -> {"none", "settled", "failed"} \cup Unresolved]
        /\ leased \in [Gens -> BOOLEAN] /\ broker \in [Gens -> BrokerOrders]
    BY DEF RepriceInv, RepriceTypeOK, PlaceStates, BrokerOrders
  <1>3. BrokerFact(g) /\ OrderFact(g) /\ PlaceFact(g)
    BY DEF RepriceInv, Books
  <1>4. /\ place'[g] = s /\ order'[g] = o
        /\ \A h \in Gens : h # g => place'[h] = place[h] /\ order'[h] = order[h]
    BY <1>2
  <1>5. UNCHANGED <<qty, filled, reprices, cancel, broker, leased, proc, mode>>
    BY DEF cancelVars, brokerVars, policyVars
  <1>6. broker[g].state = "none" /\ order[g] = "new" /\ cancel[g] \notin Unresolved \cup {"settled"}
    BY <1>2, <1>3 DEF PlaceFact, Unresolved
  <1>7. BrokerFact(g)' /\ OrderFact(g)' /\ PlaceFact(g)'
    <2>1. BrokerFact(g)'
      BY <1>3, <1>5 DEF BrokerFact
    <2>2. OrderFact(g)'
      BY <1>3, <1>4, <1>5, <1>6 DEF OrderFact, Terminal, TerminalUnfilled
    <2>3. PlaceFact(g)'
      BY <1>3, <1>4, <1>5, <1>6 DEF PlaceFact, Working, Terminal, TerminalUnfilled, Unresolved
    <2> QED
      BY <2>1, <2>2, <2>3
  <1>8. ASSUME NEW h \in Gens, h # g PROVE BrokerFact(h)' /\ OrderFact(h)' /\ PlaceFact(h)'
    <2>1. BrokerFact(h) /\ OrderFact(h) /\ PlaceFact(h)
      BY DEF RepriceInv, Books
    <2> QED
      BY <1>4, <1>5, <1>8, <2>1 DEF BrokerFact, OrderFact, PlaceFact
  <1>9. Chain(g)'
    <2>1. \A h \in Gens : place'[h] # "none" <=> place[h] # "none"
      BY <1>4
    <2>2. \A h \in Gens : h < g => h # g
      BY GenNumbers
    <2> QED
      BY <1>1, <1>4, <1>5, <2>1, <2>2 DEF Chain
  <1>10. Reserved(g)'
    <2>1. CASE s \in {"claimed", "sent"} /\ o = "new" /\ UNCHANGED <<held, resource, status>>
      BY <1>1, <1>4, <1>5, <2>1 DEF Reserved, PlaceLive
    <2>2. CASE s = "failed" /\ held' = 0 /\ resource' = "released" /\ status' = FailureStatus(filled)
      BY <1>1, <1>4, <1>5, <2>2 DEF Reserved, PlaceLive, FailureStatus, HasFills
    <2> QED
      BY <2>1, <2>2
  <1>11. Books'
    BY <1>7, <1>8, <1>9, <1>10 DEF Books, Gens
  <1>12. \A q \in Procs : ReadFact(q)'
    <2>1. \A h \in Gens : place[h] = "placed" \/ cancel[h] = "settled" => h # g
      BY <1>6
    <2>2. \A h \in Gens : cancel[h] = "settled" => place[h] # "placed"
      BY SettledIsOver
    <2> QED
      BY <1>4, <1>5, <2>1, <2>2, OthersRead
  <1>13. held' \in 0..Qty /\ resource' \in {"held", "released", "converted"}
         /\ status' \in {"auto_approved", "executed", "failed"}
    BY <1>2, GenNumbers DEF FailureStatus
  <1>14. place' \in [Gens -> PlaceStates] /\ order' \in [Gens -> {"none", "new"} \cup Working \cup Terminal]
    BY <1>2 DEF PlaceStates, PlaceLive, Terminal, TerminalUnfilled
  <1>15. proc' \in [Procs -> ProcRecords]
    BY <1>5 DEF RepriceInv, RepriceTypeOK, ProcRecords
  <1>16. UNCHANGED <<owner, sent, policyVars, cancelSent, integrity>>
    BY DEF cancelVars, brokerVars
  <1> QED
    BY <1>2, <1>5, <1>11, <1>12, <1>13, <1>14, <1>15, <1>16, BooksMove

LEMMA ClaimKeepsInv ==
  ASSUME RepriceInv, NEW g \in Gens, ClaimReplacement(g)
  PROVE  RepriceInv'
  <1>1. place[g] = "pending" /\ place \in [Gens -> PlaceStates]
        /\ order \in [Gens -> {"none", "new"} \cup Working \cup Terminal]
        /\ integrity \in BOOLEAN
    BY DEF ClaimReplacement, RepriceInv, RepriceTypeOK, PlaceStates
  <1>2. order[g] = "new"
    BY <1>1 DEF RepriceInv, Books, PlaceFact
  <1>3. PICK r : r = [state |-> "submitted", filled |-> 0]
    OBVIOUS
  <1>4. r \in OrderRead /\ filled[g] <= r.filled /\ r.filled <= qty[g]
    <2>1. filled[g] = 0
      BY <1>2 DEF RepriceInv, Books, OrderFact
    <2>2. qty[g] \in 0..Qty
      BY DEF RepriceInv, RepriceTypeOK
    <2> QED
      BY <1>3, <2>1, <2>2, GenNumbers DEF OrderRead, Working
  <1>5. Entitled(g)
    BY <1>1, <1>4, ReadFits DEF PlaceLive
  <1>6. place' = [place EXCEPT ![g] = "claimed"] /\ integrity' = integrity
    BY <1>1, <1>5 DEF ClaimReplacement
  <1>7. UNCHANGED <<qty, order, filled, reprices, held, resource, status,
                   cancelVars, policyVars, brokerVars, proc>>
    BY DEF ClaimReplacement
  <1>8. order' = [order EXCEPT ![g] = "new"]
    BY <1>1, <1>2, <1>7
  <1> QED
    BY <1>1, <1>6, <1>7, <1>8, UnsentMoves

LEMMA SendKeepsInv ==
  ASSUME RepriceInv, NEW g \in Gens, SendReplacement(g)
  PROVE  RepriceInv'
  <1>1. place[g] = "claimed" /\ order \in [Gens -> {"none", "new"} \cup Working \cup Terminal]
    BY DEF SendReplacement, RepriceInv, RepriceTypeOK
  <1>2. order[g] = "new"
    BY <1>1 DEF RepriceInv, Books, PlaceFact
  <1>3. order' = [order EXCEPT ![g] = "new"]
    BY <1>1, <1>2 DEF SendReplacement
  <1> QED
    BY <1>1, <1>3, UnsentMoves DEF SendReplacement

LEMMA RefuseKeepsInv ==
  ASSUME RepriceInv, NEW g \in Gens, RefuseReplacement(g)
  PROVE  RepriceInv'
  <1>1. PICK o \in {"new", "rejected"} : order' = [order EXCEPT ![g] = o]
    BY DEF RefuseReplacement
  <1> QED
    BY <1>1, UnsentMoves DEF RefuseReplacement

LEMMA UpdateTyped ==
  ASSUME RepriceInv
  PROVE  /\ place \in [Gens -> PlaceStates] /\ order \in [Gens -> {"none", "new"} \cup Working \cup Terminal]
         /\ filled \in [Gens -> 0..Qty] /\ qty \in [Gens -> 0..Qty] /\ reprices \in [Gens -> 0..MaxReprices]
         /\ cancel \in [Gens -> {"none", "settled", "failed"} \cup Unresolved]
         /\ leased \in [Gens -> BOOLEAN] /\ broker \in [Gens -> BrokerOrders]
         /\ proc \in [Procs -> ProcRecords] /\ integrity = FALSE
  BY DEF RepriceInv, RepriceTypeOK, PlaceStates, BrokerOrders, ProcRecords, NoIntegrityHalt

LEMMA PlacementStates ==
  ASSUME NEW s \in Working \cup Terminal
  PROVE  /\ s \in Working => PlacementAfter(s) = "placed"
         /\ s \in Terminal => PlacementAfter(s) \in {"settled", "failed"}
         /\ \A f : /\ s \in Working => StatusAfterOrder(s, f) = status
                   /\ s \in TerminalUnfilled => StatusAfterOrder(s, f) = FailureStatus(f)
                   /\ s = "filled" => StatusAfterOrder(s, f) = "executed"
  BY DEF PlacementAfter, StatusAfterOrder, Working, Terminal, TerminalUnfilled

LEMMA ResolveKeepsInv ==
  ASSUME RepriceInv, NEW g \in Gens, ResolveReplacement(g)
  PROVE  RepriceInv'
  <1>1. place[g] = "sent" /\ broker[g].state # "none"
    BY DEF ResolveReplacement
  <1>2. BrokerFact(g) /\ OrderFact(g) /\ PlaceFact(g) /\ filled[g] = 0 /\ order[g] = "new"
    BY <1>1 DEF RepriceInv, Books, PlaceFact, OrderFact
  <1>3. PICK r \in {broker[g], NoRead} :
          /\ order' = [order EXCEPT ![g] = r.state]
          /\ filled' = [filled EXCEPT ![g] = r.filled]
          /\ held' = HeldAfter(g, r, FALSE)
          /\ resource' = ResourceAfter(g, r, FALSE)
          /\ place' = [place EXCEPT ![g] = PlacementAfter(r.state)]
          /\ status' = StatusAfterOrder(r.state, filled')
    BY DEF ResolveReplacement
  <1>4. UNCHANGED <<qty, reprices, cancelVars, policyVars, brokerVars, integrity, proc>>
    BY DEF ResolveReplacement
  <1>5. PastRead(g, r)
    <2>1. broker[g] \in BrokerOrders /\ qty[g] \in 0..Qty
      BY UpdateTyped
    <2>2. CASE r = broker[g]
      <3>1. r \in OrderRead
        BY <1>1, <2>1, <2>2 DEF BrokerOrders, OrderRead
      <3>2. filled[g] <= r.filled /\ r.filled <= broker[g].filled
        BY <1>2, <2>1, <2>2, GenNumbers DEF BrokerOrders
      <3> QED
        BY <1>2, <2>2, <3>1, <3>2 DEF PastRead, BrokerFact
    <2>3. CASE r = NoRead
      <3>1. r.state = "submitted" /\ r.filled = 0
        BY <2>3 DEF NoRead
      <3>2. r \in OrderRead
        BY <2>3, GenNumbers DEF NoRead, OrderRead, Working
      <3>3. filled[g] <= r.filled /\ r.filled <= broker[g].filled
        BY <1>2, <2>1, <3>1, GenNumbers DEF BrokerOrders
      <3> QED
        BY <3>1, <3>2, <3>3 DEF PastRead, Terminal, TerminalUnfilled
    <2> QED
      BY <2>2, <2>3
  <1>6. r.state \in Working \cup Terminal
    BY <1>5 DEF PastRead, OrderRead
  <1>7. PICK s : s = PlacementAfter(r.state)
    OBVIOUS
  <1>8. /\ r.state \in Working => s = "placed" /\ status' = status
        /\ r.state \in Terminal => s \in {"settled", "failed"}
        /\ r.state \in TerminalUnfilled => status' = FailureStatus(filled')
        /\ r.state = "filled" => status' = "executed"
    BY <1>3, <1>6, <1>7, PlacementStates
  <1>9. cancel[g] \notin Unresolved \cup {"settled"} /\ cancel' = cancel /\ UNCHANGED <<qty, reprices, mode, broker>>
    BY <1>1, <1>2, <1>4 DEF PlaceFact, cancelVars, policyVars, brokerVars, Unresolved
  <1>10. place' = [place EXCEPT ![g] = s] /\ place[g] \in {"sent", "placed"}
    BY <1>1, <1>3, <1>7
  <1>11. /\ Books'
         /\ place' \in [Gens -> PlaceStates] /\ filled' \in [Gens -> 0..Qty]
         /\ order' \in [Gens -> {"none", "new"} \cup Working \cup Terminal]
         /\ held' \in 0..Qty /\ resource' \in {"held", "released", "converted"}
         /\ status' \in {"auto_approved", "executed", "failed"}
    BY <1>1, <1>3, <1>5, <1>8, <1>9, <1>10, UpdateKeepsBooks
  <1>12. \A q \in Procs : ReadFact(q)'
    <2>1. \A h \in Gens : place[h] = "placed" \/ cancel[h] = "settled" => h # g
      BY <1>1, <1>9
    <2>2. \A h \in Gens : cancel[h] = "settled" => place[h] # "placed"
      BY SettledIsOver
    <2>3. \A h \in Gens : h # g => place'[h] = place[h] /\ filled'[h] = filled[h]
      BY <1>3, UpdateTyped
    <2>4. proc' = proc
      BY <1>4
    <2> QED
      BY <1>9, <2>1, <2>2, <2>3, <2>4, OthersRead
  <1>13. UNCHANGED <<owner, sent, policyVars, cancelSent, integrity>> /\ leased' = leased /\ proc' = proc
    BY <1>4 DEF cancelVars, brokerVars
  <1> QED
    BY <1>9, <1>11, <1>12, <1>13, UpdateTyped, BooksMove

\* A finalisation proves the order is over: all its fills are booked, and either
\* the reservation is let go or a replacement takes it.
LEMMA FinalizeKeepsInv ==
  ASSUME RepriceInv, NEW p \in Procs, FinalizeRepriceCancel(p)
  PROVE  RepriceInv'
  <1>1. PICK g \in Gens : g = proc[p].gen
    BY ProcTyped
  <1>2. PICK r : r = proc[p].read
    OBVIOUS
  <1>3. r = broker[g] /\ r.state \in Terminal /\ r \in OrderRead
    BY <1>1, <1>2, ProcTyped DEF ReadFact, FinalizeRepriceCancel, At, ProcRecords
  <1>4. /\ Holds(p, g) /\ filled' = [filled EXCEPT ![g] = r.filled]
        /\ \/ Finish(g, r)
           \/ r.state # "filled" /\ ReplacementAllowed(p, g) /\ Replace(g, r)
        /\ cancel' = [cancel EXCEPT ![g] = "settled"]
        /\ leased' = [leased EXCEPT ![g] = FALSE]
        /\ Stop(p)
        /\ UNCHANGED <<owner, sent, policyVars, brokerVars, integrity>>
    BY <1>1, <1>2 DEF FinalizeRepriceCancel
  <1>5. place[g] = "placed" /\ broker[g].state # "none"
    BY <1>4 DEF Holds, RepriceInv, Books, PlaceFact, Unresolved
  <1>6. PastRead(g, r)
    <2>1. BrokerFact(g) /\ OrderFact(g) /\ r.filled \in 0..Qty
      BY <1>3 DEF RepriceInv, Books, OrderRead
    <2>2. filled[g] <= r.filled /\ r.filled <= broker[g].filled
      BY <1>3, <2>1, GenNumbers DEF OrderFact
    <2> QED
      BY <1>3, <2>1, <2>2 DEF PastRead, BrokerFact, Terminal, TerminalUnfilled
  <1>7. /\ cancel' \in [Gens -> {"none", "settled", "failed"} \cup Unresolved]
        /\ cancel'[g] = "settled" /\ \A h \in Gens : h # g => cancel'[h] = cancel[h]
        /\ leased' \in [Gens -> BOOLEAN]
    BY <1>4, UpdateTyped
  <1>8. UNCHANGED <<mode, broker, cancelSent>>
    BY <1>4 DEF policyVars, brokerVars
  <1>9. /\ Books' /\ place'[g] = "settled"
        /\ place' \in [Gens -> PlaceStates] /\ filled' \in [Gens -> 0..Qty] /\ qty' \in [Gens -> 0..Qty]
        /\ order' \in [Gens -> {"none", "new"} \cup Working \cup Terminal]
        /\ reprices' \in [Gens -> 0..MaxReprices]
        /\ held' \in 0..Qty /\ resource' \in {"held", "released", "converted"}
        /\ status' \in {"auto_approved", "executed", "failed"}
        /\ \A h \in Gens : h # g /\ place[h] # "none" =>
             place'[h] = place[h] /\ filled'[h] = filled[h] /\ qty'[h] = qty[h]
        /\ qty'[g] = qty[g]
    <2>1. CASE Finish(g, r)
      <3>1. PICK s : s = "settled"
        OBVIOUS
      <3>2. /\ order' = [order EXCEPT ![g] = r.state]
            /\ place' = [place EXCEPT ![g] = s]
            /\ held' = HeldAfter(g, r, FALSE)
            /\ resource' = ResourceAfter(g, r, FALSE)
            /\ status' = IF r.state = "filled" THEN "executed" ELSE FailureStatus(filled')
            /\ UNCHANGED <<qty, reprices>>
        BY <1>5, <2>1, <3>1, UpdateTyped DEF Finish
      <3>3. /\ r.state \in Working => s = "placed" /\ status' = status
            /\ r.state \in Terminal => s \in {"settled", "failed"}
            /\ r.state \in TerminalUnfilled => status' = FailureStatus(filled')
            /\ r.state = "filled" => status' = "executed"
            /\ cancel'[g] \in Unresolved => r.state \in Working
            /\ cancel'[g] = "settled" => s = "settled"
        BY <1>3, <1>7, <3>1, <3>2 DEF Working, Terminal, TerminalUnfilled, Unresolved
      <3>4. place[g] \in {"sent", "placed"} /\ UNCHANGED <<qty, reprices, mode, broker>>
        BY <1>5, <1>8, <3>2
      <3>5. /\ Books'
            /\ place' \in [Gens -> PlaceStates] /\ filled' \in [Gens -> 0..Qty]
            /\ order' \in [Gens -> {"none", "new"} \cup Working \cup Terminal]
            /\ held' \in 0..Qty /\ resource' \in {"held", "released", "converted"}
            /\ status' \in {"auto_approved", "executed", "failed"}
        BY <1>4, <1>5, <1>6, <1>7, <3>2, <3>3, <3>4, UpdateKeepsBooks
      <3> QED
        BY <1>4, <3>1, <3>2, <3>5, UpdateTyped
    <2>2. CASE r.state # "filled" /\ ReplacementAllowed(p, g) /\ Replace(g, r)
      <3>1. r.state \in TerminalUnfilled /\ reprices[g] + 1 <= EffectiveMax
        BY <1>3, <2>2 DEF Terminal, ReplacementAllowed
      <3>2. /\ Books'
            /\ place' \in [Gens -> PlaceStates] /\ filled' \in [Gens -> 0..Qty] /\ qty' \in [Gens -> 0..Qty]
            /\ order' \in [Gens -> {"none", "new"} \cup Working \cup Terminal]
            /\ reprices' \in [Gens -> 0..MaxReprices]
            /\ held' \in 0..Qty /\ resource' \in {"held", "released", "converted"}
            /\ status' \in {"auto_approved", "executed", "failed"}
        BY <1>4, <1>5, <1>6, <1>7, <1>8, <2>2, <3>1, ReplaceKeepsBooks
      <3>3. PICK n : n = g + 1
        OBVIOUS
      <3>4. /\ n # g /\ \A h \in Gens : place[h] # "none" => h # n
        <4>1. Chain(g) /\ g \in Nat
          BY <1>5, LiveIsLast, GenNumbers DEF PlaceLive
        <4> QED
          BY <3>3, <4>1 DEF Chain
      <3>5. /\ qty' = [qty EXCEPT ![n] = RemainderOf(g, r)]
            /\ place' = [place EXCEPT ![g] = "settled", ![n] = "pending"]
        BY <1>5, <2>2, <3>3, UpdateTyped DEF Replace
      <3>6. place'[g] = "settled" /\ qty'[g] = qty[g]
        BY <3>4, <3>5, UpdateTyped
      <3>7. \A h \in Gens : h # g /\ place[h] # "none" =>
              place'[h] = place[h] /\ filled'[h] = filled[h] /\ qty'[h] = qty[h]
        BY <1>4, <3>4, <3>5, UpdateTyped
      <3> QED
        BY <3>2, <3>6, <3>7
    <2> QED
      BY <1>4, <2>1, <2>2
  <1>10. proc' \in [Procs -> ProcRecords] /\ proc'[p] = Idle /\ \A q \in Procs : q # p => proc'[q] = proc[q]
    BY <1>4, IdleRecord, UpdateTyped DEF Stop
  <1>11. ASSUME NEW q \in Procs PROVE ReadFact(q)'
    <2>1. CASE q = p
      BY <1>10, <2>1, IdleRecord, FreshRead
    <2>2. CASE q # p
      <3>1. \A h \in Gens : cancel[h] = "settled" => place[h] = "settled"
        BY DEF RepriceInv, Books, PlaceFact
      <3>2. \A h \in Gens : place[h] = "placed" \/ cancel[h] = "settled" =>
              /\ qty'[h] = qty[h]
              /\ \/ place'[h] = "placed" /\ place[h] = "placed" /\ filled'[h] = filled[h]
                 \/ cancel'[h] = "settled" /\ place'[h] # "placed"
        BY <1>7, <1>9, <3>1
      <3> QED
        BY <1>8, <1>10, <2>2, <3>2, OthersRead
    <2> QED
      BY <2>1, <2>2
  <1>12. UNCHANGED <<owner, sent, policyVars, cancelSent, integrity>> /\ broker' \in [Gens -> BrokerOrders]
    BY <1>4, <1>8, UpdateTyped
  <1> QED
    BY <1>7, <1>9, <1>10, <1>11, <1>12, BooksMove

\* An observation that may be old by now is applied only while no cancel manages
\* the order, and then it is not older than the books.
LEMMA ApplyKeepsInv ==
  ASSUME RepriceInv, ApplyObserved
  PROVE  RepriceInv'
  <1>1. PICK p \in Procs : p = "reconciler"
    BY DEF Procs
  <1>2. PICK g \in Gens : g = proc[p].gen
    BY ProcTyped
  <1>3. PICK r : r = proc[p].read
    OBVIOUS
  <1>4. Stop(p) /\ UNCHANGED <<cancelVars, policyVars, brokerVars>>
    BY <1>1 DEF ApplyObserved
  <1>5. ASSUME ~RepriceManaged(g)
        PROVE  /\ place[g] = "placed" /\ cancel[g] \notin Unresolved \cup {"settled"}
               /\ PastRead(g, r) /\ r.filled <= qty[g] /\ broker[g].state # "none"
    <2>1. place[g] = "placed" /\ cancel[g] \notin Unresolved \cup {"settled"}
      BY <1>1, <1>2, <1>5, ProcTyped DEF RepriceManaged, ApplyObserved, At, ReadFact
    <2>2. PastRead(g, r)
      <3>1. r \in OrderRead
        BY <1>3, ProcTyped DEF ProcRecords
      <3> QED
        BY <1>1, <1>2, <1>3, <2>1, <3>1, ProcTyped DEF ApplyObserved, At, ReadFact, PastRead
    <2>3. BrokerFact(g) /\ PlaceFact(g) /\ broker[g] \in BrokerOrders /\ qty[g] \in 0..Qty
      BY UpdateTyped DEF RepriceInv, Books
    <2>4. r.filled <= qty[g]
      BY <2>2, <2>3, GenNumbers DEF PastRead, BrokerFact, BrokerOrders, OrderRead
    <2> QED
      BY <2>1, <2>2, <2>3, <2>4 DEF PlaceFact
  <1>6. CASE ~RepriceManaged(g) /\ UpdateAccepted(g, r)
    <2>1. /\ order' = [order EXCEPT ![g] = r.state]
          /\ filled' = [filled EXCEPT ![g] = r.filled]
          /\ held' = HeldAfter(g, r, FALSE)
          /\ resource' = ResourceAfter(g, r, FALSE)
          /\ place' = [place EXCEPT ![g] = IF @ = "placed" THEN PlacementAfter(r.state) ELSE @]
          /\ status' = StatusAfterOrder(r.state, filled')
          /\ UNCHANGED <<qty, reprices, integrity>>
      BY <1>1, <1>2, <1>3, <1>6 DEF ApplyObserved
    <2>2. PICK s : s = PlacementAfter(r.state)
      OBVIOUS
    <2>3. place' = [place EXCEPT ![g] = s] /\ place[g] \in {"sent", "placed"}
      BY <1>5, <1>6, <2>1, <2>2, UpdateTyped
    <2>4. r.state \in Working \cup Terminal
      BY <1>5, <1>6 DEF PastRead, OrderRead
    <2>5. UNCHANGED <<qty, reprices, mode, broker, cancel, leased, owner, sent, cancelSent, integrity>>
      BY <1>4, <2>1 DEF cancelVars, policyVars, brokerVars
    <2>6. /\ r.state \in Working => s = "placed" /\ status' = status
          /\ r.state \in Terminal => s \in {"settled", "failed"}
          /\ r.state \in TerminalUnfilled => status' = FailureStatus(filled')
          /\ r.state = "filled" => status' = "executed"
          /\ cancel'[g] \in Unresolved => r.state \in Working
          /\ cancel'[g] = "settled" => s = "settled"
      BY <1>5, <1>6, <2>1, <2>2, <2>4, <2>5, PlacementStates
    <2>7. UNCHANGED <<qty, reprices, mode, broker>> /\ \A h \in Gens : h # g => cancel'[h] = cancel[h]
      BY <2>5
    <2>8. /\ Books'
          /\ place' \in [Gens -> PlaceStates] /\ filled' \in [Gens -> 0..Qty]
          /\ order' \in [Gens -> {"none", "new"} \cup Working \cup Terminal]
          /\ held' \in 0..Qty /\ resource' \in {"held", "released", "converted"}
          /\ status' \in {"auto_approved", "executed", "failed"}
      BY <1>5, <1>6, <2>1, <2>3, <2>6, <2>7, UpdateKeepsBooks
    <2>9. proc' \in [Procs -> ProcRecords] /\ proc'[p] = Idle /\ \A q \in Procs : q # p => proc'[q] = proc[q]
      BY <1>4, IdleRecord, UpdateTyped DEF Stop
    <2>10. ASSUME NEW q \in Procs PROVE ReadFact(q)'
      <3>1. CASE q = p
        BY <2>9, <3>1, IdleRecord, FreshRead
      <3>2. CASE q # p
        <4>1. proc'[q] = proc[q] /\ proc[q].pc \notin {"listed", "observed"}
          BY <1>1, <2>9, <3>2, ProcTyped DEF ReadFact
        <4> QED
          BY <2>5, <4>1, ProcTyped DEF ReadFact
      <3> QED
        BY <3>1, <3>2
    <2>11. policyVars' = policyVars
      BY <1>4
    <2> QED
      BY <2>5, <2>8, <2>9, <2>10, <2>11, UpdateTyped, BooksMove
  <1>7. CASE ~(~RepriceManaged(g) /\ UpdateAccepted(g, r))
    <2>1. integrity' = (integrity \/ (~RepriceManaged(g) /\ Contradicts(g, r))) /\ UNCHANGED bookVars
      BY <1>1, <1>2, <1>3, <1>7 DEF ApplyObserved
    <2>2. ~RepriceManaged(g) => ~Contradicts(g, r)
      BY <1>5, ReadFits DEF PastRead, PlaceLive
    <2>3. integrity' = integrity
      BY <2>1, <2>2, UpdateTyped
    <2> QED
      BY <1>4, <2>1, <2>3, NoCancelMoves, StopKeepsInv
  <1> QED
    BY <1>6, <1>7

-----------------------------------------------------------------------------
(* The broker                                                              *)

LEMMA BrokerMoveKeepsInv ==
  ASSUME RepriceInv, NEW g \in Gens, place[g] \in {"sent", "placed"}, broker[g].state \notin Terminal,
         NEW s \in Working \cup Terminal, NEW f \in 0..Qty, BrokerMoves(g, s, f),
         broker[g].filled <= f, f <= qty[g],
         s \in {"submitted", "rejected"} => f = 0,
         s = "partially_filled" => f \in 1..(qty[g] - 1),
         s = "filled" => f = qty[g],
         s \in {"cancelled", "expired"} => f < qty[g]
  PROVE  RepriceInv'
  <1>1. UNCHANGED <<cancelSent, bookVars, cancelVars, policyVars, integrity, proc>>
    BY DEF BrokerMoves
  <1>2. PICK b : b = [state |-> s, filled |-> f]
    OBVIOUS
  <1>3. broker' = [broker EXCEPT ![g] = b] /\ b.state = s /\ b.filled = f /\ b \in BrokerOrders
    BY <1>2 DEF BrokerMoves, BrokerOrders
  <1>4. broker'[g] = b /\ \A h \in Gens : h # g => broker'[h] = broker[h]
    BY <1>3, UpdateTyped
  <1>5. UNCHANGED <<place, qty, order, filled, reprices, held, resource, status, cancel>>
    BY <1>1 DEF bookVars, cancelVars
  <1>6. BrokerFact(g)' /\ OrderFact(g)' /\ PlaceFact(g)'
    <2>1. BrokerFact(g) /\ OrderFact(g) /\ PlaceFact(g)
      BY DEF RepriceInv, Books
    <2>2. order[g] \notin Terminal
      BY <2>1 DEF PlaceFact, Working, Terminal, TerminalUnfilled
    <2>3. filled[g] <= f
      <3>1. filled[g] \in 0..Qty /\ broker[g].filled \in 0..Qty /\ filled[g] <= broker[g].filled
        BY <2>1, UpdateTyped DEF BrokerOrders, OrderFact
      <3> QED
        BY <3>1, GenNumbers
    <2>4. BrokerFact(g)'
      BY <1>3, <1>4, <1>5 DEF BrokerFact, Working, Terminal, TerminalUnfilled
    <2>5. OrderFact(g)'
      BY <1>3, <1>4, <1>5, <2>1, <2>2, <2>3 DEF OrderFact
    <2>6. PlaceFact(g)'
      BY <1>3, <1>4, <1>5, <2>1 DEF PlaceFact, Working, Terminal, TerminalUnfilled
    <2> QED
      BY <2>4, <2>5, <2>6
  <1>7. ASSUME NEW h \in Gens, h # g PROVE BrokerFact(h)' /\ OrderFact(h)' /\ PlaceFact(h)'
    <2>1. BrokerFact(h) /\ OrderFact(h) /\ PlaceFact(h)
      BY DEF RepriceInv, Books
    <2> QED
      BY <1>4, <1>5, <1>7, <2>1 DEF BrokerFact, OrderFact, PlaceFact
  <1>8. \E last \in Gens : Chain(last)' /\ Reserved(last)'
    BY <1>5 DEF RepriceInv, Books, Chain, Reserved, FailureStatus, HasFills
  <1>9. Books'
    BY <1>6, <1>7, <1>8 DEF Books, Gens
  <1>10. ASSUME NEW q \in Procs PROVE ReadFact(q)'
    <2>1. PICK h \in Gens : h = proc[q].gen
      BY ProcTyped
    <2>2. ReadFact(q) /\ proc' = proc
      BY <1>1, ProcTyped
    <2>3. CASE h # g
      BY <1>4, <1>5, <2>1, <2>2, <2>3 DEF ReadFact
    <2>4. CASE h = g
      <3>1. proc[q].read.filled <= broker[g].filled => proc[q].read.filled <= f
        <4>1. proc[q].read.filled \in 0..Qty /\ broker[g].filled \in 0..Qty
          BY UpdateTyped DEF ProcRecords, OrderRead, BrokerOrders
        <4> QED
          BY <4>1, GenNumbers
      <3> QED
        BY <1>3, <1>4, <1>5, <2>1, <2>2, <2>4, <3>1 DEF ReadFact
    <2> QED
      BY <2>3, <2>4
  <1>11. RepriceTypeOK'
    <2>1. broker' \in [Gens -> BrokerOrders]
      BY <1>3, UpdateTyped
    <2> QED
      BY <1>1, <2>1 DEF RepriceInv, RepriceTypeOK, bookVars, cancelVars, policyVars, BrokerOrders, Gens, OrderRead
  <1> QED
    BY <1>1, <1>9, <1>10, <1>11 DEF RepriceInv, NoIntegrityHalt

LEMMA BrokerKeepsInv ==
  ASSUME RepriceInv, NEW g \in Gens,
         BrokerAccepts(g) \/ BrokerFills(g) \/ BrokerEnds(g) \/ BrokerCancels(g)
  PROVE  RepriceInv'
  <1>1. BrokerFact(g) /\ PlaceFact(g)
    BY DEF RepriceInv, Books
  <1>2. place[g] \in {"sent", "placed"} /\ broker[g].state \notin Terminal
    BY <1>1 DEF BrokerAccepts, BrokerFills, BrokerEnds, BrokerCancels, PlaceFact, Working, Terminal, TerminalUnfilled
  <1>3. PICK q \in 1..Qty : q = qty[g]
    BY <1>2, LiveIsLast DEF PlaceLive
  <1>4. PICK n \in 0..Qty : n = broker[g].filled
    BY UpdateTyped DEF BrokerOrders
  <1>5. broker[g].state \in Working => n < q
    BY <1>1, <1>3, <1>4, GenNumbers DEF BrokerFact, Working
  <1>6. n <= n /\ 0 \in 0..Qty /\ q \in Nat /\ n \in Nat /\ (n < q => n <= q)
    BY <1>3, <1>4, GenNumbers
  <1>7. CASE BrokerAccepts(g)
    <2>1. n = 0 /\ n <= q
      BY <1>1, <1>3, <1>4, <1>7, GenNumbers DEF BrokerAccepts, BrokerFact
    <2>2. PICK s \in {"submitted", "rejected"} : BrokerMoves(g, s, n)
      BY <1>7, <2>1 DEF BrokerAccepts
    <2>3. /\ s \in Working \cup Terminal
          /\ s \in {"submitted", "rejected"} => n = 0
          /\ s = "partially_filled" => n \in 1..(q - 1)
          /\ s = "filled" => n = q
          /\ s \in {"cancelled", "expired"} => n < q
      BY <2>1 DEF Working, Terminal, TerminalUnfilled
    <2> QED
      BY <1>2, <1>3, <1>4, <1>6, <2>1, <2>2, <2>3, BrokerMoveKeepsInv
  <1>8. CASE BrokerFills(g)
    <2>1. PICK f : f = n + 1
      OBVIOUS
    <2>2. n < q
      BY <1>5, <1>8 DEF BrokerFills
    <2>3. f \in 0..Qty /\ n <= f /\ f <= q /\ (f # q => f \in 1..(q - 1))
      BY <1>3, <1>4, <2>1, <2>2, GenNumbers
    <2>4. PICK s : s = IF f = q THEN "filled" ELSE "partially_filled"
      OBVIOUS
    <2>5. BrokerMoves(g, s, f)
      BY <1>3, <1>4, <1>8, <2>1, <2>4 DEF BrokerFills
    <2>6. /\ s \in Working \cup Terminal
          /\ s \in {"submitted", "rejected"} => f = 0
          /\ s = "partially_filled" => f \in 1..(q - 1)
          /\ s = "filled" => f = q
          /\ s \in {"cancelled", "expired"} => f < q
      BY <2>3, <2>4 DEF Working, Terminal, TerminalUnfilled
    <2> QED
      BY <1>2, <1>3, <1>4, <2>3, <2>5, <2>6, BrokerMoveKeepsInv
  <1>9. CASE BrokerEnds(g) \/ BrokerCancels(g)
    <2>1. n < q
      BY <1>5, <1>9 DEF BrokerEnds, BrokerCancels
    <2>2. PICK s \in {"cancelled", "expired", "rejected"} :
            BrokerMoves(g, s, n) /\ (s = "rejected" => n = 0)
      BY <1>4, <1>9 DEF BrokerEnds, BrokerCancels
    <2>3. /\ s \in Working \cup Terminal
          /\ s \in {"submitted", "rejected"} => n = 0
          /\ s = "partially_filled" => n \in 1..(q - 1)
          /\ s = "filled" => n = q
          /\ s \in {"cancelled", "expired"} => n < q
      BY <2>1, <2>2 DEF Working, Terminal, TerminalUnfilled
    <2> QED
      BY <1>2, <1>3, <1>4, <1>6, <2>1, <2>2, <2>3, BrokerMoveKeepsInv
  <1> QED
    BY <1>7, <1>8, <1>9

-----------------------------------------------------------------------------
(* The invariant and the properties                                        *)

LEMMA RepriceInitInv == RepriceInit => RepriceInv
  <1> SUFFICES ASSUME RepriceInit PROVE RepriceInv
    OBVIOUS
  <1>1. /\ place = [g \in Gens |-> IF g = 1 THEN "placed" ELSE "none"]
        /\ qty = [g \in Gens |-> IF g = 1 THEN Qty ELSE 0]
        /\ order = [g \in Gens |-> IF g = 1 THEN "submitted" ELSE "none"]
        /\ filled = [g \in Gens |-> 0] /\ reprices = [g \in Gens |-> 0]
        /\ cancel = [g \in Gens |-> "none"] /\ owner = [g \in Gens |-> "none"]
        /\ leased = [g \in Gens |-> FALSE] /\ sent = [g \in Gens |-> FALSE]
        /\ held = Qty /\ resource = "held" /\ status = "auto_approved" /\ integrity = FALSE
        /\ mode \in Modes /\ policyMax = MaxReprices /\ ledgerHalted = FALSE
        /\ cancelSent = [g \in Gens |-> FALSE] /\ proc = [p \in Procs |-> Idle]
    BY DEF RepriceInit
  <1>2. \A g \in Gens : broker[g].state = (IF g = 1 THEN "submitted" ELSE "none") /\ broker[g].filled = 0
    BY DEF RepriceInit
  <1>3. 0 \in 0..Qty /\ Qty \in 0..Qty /\ 0 \in 0..MaxReprices /\ MaxReprices \in 0..(MaxReprices + 1)
        /\ Qty > 0 /\ Qty - 0 = Qty /\ 0 <= 0 /\ 0 <= Qty
    BY RepriceQtyAssumption, MaxRepricesAssumption
  <1>4. broker \in [Gens -> BrokerOrders]
    BY <1>3 DEF RepriceInit, BrokerOrders, Working
  <1>5. RepriceTypeOK
    <2>1. proc \in [Procs -> ProcRecords]
      BY <1>1, IdleRecord
    <2> QED
      BY <1>1, <1>3, <1>4, <2>1 DEF RepriceTypeOK, ProcRecords, BrokerOrders, PlaceLive, Working
  <1>6. ASSUME NEW g \in Gens PROVE BrokerFact(g) /\ OrderFact(g) /\ PlaceFact(g)
    <2>1. BrokerFact(g) /\ OrderFact(g)
      BY <1>1, <1>2, <1>3 DEF BrokerFact, OrderFact, Terminal, TerminalUnfilled
    <2>2. PlaceFact(g)
      BY <1>1, <1>2 DEF PlaceFact, Working, Terminal, TerminalUnfilled, Unresolved
    <2> QED
      BY <2>1, <2>2
  <1>7. Chain(1)
    <2>1. \A g \in Gens : (g <= 1 <=> g = 1) /\ ~(g < 1)
      BY GenNumbers
    <2> QED
      BY <1>1, <2>1, GenNumbers DEF Chain
  <1>8. Reserved(1)
    BY <1>1, <1>3, GenNumbers DEF Reserved, PlaceLive
  <1>9. \A p \in Procs : ReadFact(p)
    BY <1>1, IdleRecord DEF ReadFact
  <1> QED
    BY <1>1, <1>5, <1>6, <1>7, <1>8, <1>9, GenNumbers DEF RepriceInv, Books, NoIntegrityHalt

LEMMA RepriceNextInv == RepriceInv /\ [RepriceNext]_repriceVars => RepriceInv'
  <1> SUFFICES ASSUME RepriceInv, [RepriceNext]_repriceVars PROVE RepriceInv'
    OBVIOUS
  <1>1. CASE RepriceCrash
    BY <1>1, CrashKeepsInv
  <1>2. CASE ChangePolicy \/ ClaimStaged \/ ReadListed \/ ApplyObserved
    BY <1>2, PolicyChanges, ClaimStagedKeepsInv, ReadKeepsInv, ApplyKeepsInv
  <1>3. ASSUME NEW p \in Procs, ProcStep(p) PROVE RepriceInv'
    BY <1>3, PreEffectKeepsInv, MarkSentKeepsInv, CancelKeepsInv, QueryKeepsInv, DecideKeepsInv,
       FinalizeKeepsInv, RefusedKeepsInv DEF ProcStep
  <1>4. ASSUME NEW g \in Gens,
               StageRepriceCancel(g) \/ Recover(g) \/ LeaseExpires(g) \/ ListOrder(g)
        PROVE  RepriceInv'
    BY <1>4, StageKeepsInv, RecoverKeepsInv, LeaseKeepsInv, ListKeepsInv
  <1>5. ASSUME NEW g \in Gens,
               ClaimReplacement(g) \/ RefuseReplacement(g) \/ SendReplacement(g) \/ ResolveReplacement(g)
        PROVE  RepriceInv'
    BY <1>5, ClaimKeepsInv, RefuseKeepsInv, SendKeepsInv, ResolveKeepsInv
  <1>6. ASSUME NEW g \in Gens,
               BrokerAccepts(g) \/ BrokerFills(g) \/ BrokerEnds(g) \/ BrokerCancels(g)
        PROVE  RepriceInv'
    BY <1>6, BrokerKeepsInv
  <1>7. CASE UNCHANGED repriceVars
    <2>1. UNCHANGED <<bookVars, cancelVars, policyVars, brokerVars, integrity, proc>>
      BY <1>7 DEF repriceVars
    <2>2. PICK p \in Procs : p = "repricer"
      BY DEF Procs
    <2>3. proc[p] \in ProcRecords /\ ReadFact(p) /\ proc' = [proc EXCEPT ![p] = proc[p]]
      BY <2>1, ProcTyped
    <2>4. proc'[p] = proc[p] /\ broker' = broker /\ cancelSent' \in [Gens -> BOOLEAN]
      BY <2>1 DEF brokerVars, RepriceInv, RepriceTypeOK
    <2>5. ReadFact(p)'
      BY <2>1, <2>4, ReadsStay DEF cancelVars
    <2> QED
      BY <2>1, <2>3, <2>4, <2>5, NoCancelMoves, ProcMoves
  <1> QED
    BY <1>1, <1>2, <1>3, <1>4, <1>5, <1>6, <1>7 DEF RepriceNext, RepriceRunning

\* What the placements filled and may fill, added up: all but the last are over,
\* and each began with what the one before it left.
LEMMA FillsFit ==
  ASSUME RepriceInv PROVE NeverOverfill
  <1>1. PICK last \in Gens : Chain(last) /\ Reserved(last)
    BY DEF RepriceInv, Books
  <1>2. PICK use : use = [g \in Gens |-> broker[g].filled + MayFill(g)]
    OBVIOUS
  <1>3. PICK left : left = [g \in Gens |-> qty[g]]
    OBVIOUS
  <1>4. /\ \A g \in Gens : use[g] \in Nat /\ left[g] \in Nat /\ use[g] <= left[g]
        /\ left[1] = Qty
        /\ \A g \in Gens : g < last => g + 1 \in Gens /\ left[g + 1] = left[g] - use[g]
        /\ \A g \in Gens : last < g => use[g] = 0
    <2>1. ASSUME NEW g \in Gens
          PROVE  /\ use[g] \in Nat /\ left[g] \in Nat /\ use[g] <= left[g]
                 /\ place[g] \in {"none", "settled"} => use[g] = broker[g].filled
                 /\ place[g] = "none" => use[g] = 0
      <3>1. BrokerFact(g) /\ PlaceFact(g)
        BY DEF RepriceInv, Books
      <3>2. PICK q \in 0..Qty, n \in 0..Qty : q = qty[g] /\ n = broker[g].filled
        BY UpdateTyped DEF BrokerOrders
      <3>3. n <= q /\ (broker[g].state = "none" => n = 0)
        BY <3>1, <3>2 DEF BrokerFact
      <3>4. n \in Nat /\ q \in Nat
        BY GenNumbers
      <3>5. \A a, b \in Nat : a <= b => /\ a + (b - a) = b /\ a + 0 = a /\ 0 + b = b
                                        /\ b <= b /\ a \in Nat /\ b \in Nat
        OBVIOUS
      <3>6. MayFill(g) = IF broker[g].state \in Working THEN q - n
                         ELSE IF broker[g].state = "none" /\ place[g] \in {"pending", "claimed", "sent"} THEN q
                         ELSE 0
        BY <3>2 DEF MayFill
      <3>7. use[g] = n + MayFill(g) /\ left[g] = q
        BY <1>2, <1>3, <3>2
      <3>8. MayFill(g) \in {q - n, 0} \/ (n = 0 /\ MayFill(g) = q)
        BY <3>3, <3>6
      <3>9. use[g] \in {n, q}
        BY <3>3, <3>4, <3>5, <3>7, <3>8
      <3>10. place[g] \in {"none", "settled"} => MayFill(g) = 0
        BY <3>1, <3>6 DEF PlaceFact
      <3>11. place[g] = "none" => n = 0
        BY <3>1, <3>3 DEF PlaceFact
      <3>12. use[g] \in Nat /\ left[g] \in Nat /\ use[g] <= left[g]
        BY <3>3, <3>4, <3>5, <3>7, <3>9
      <3> QED
        BY <3>2, <3>3, <3>4, <3>5, <3>7, <3>10, <3>11, <3>12
    <2>2. left[1] = Qty
      BY <1>1, <1>3, GenNumbers DEF Chain
    <2>3. ASSUME NEW g \in Gens, g < last PROVE g + 1 \in Gens /\ left[g + 1] = left[g] - use[g]
      <3>1. g + 1 \in Gens
        BY <2>3, GenNumbers
      <3>2. place[g] = "settled" /\ order[g] # "filled" /\ qty[g + 1] = qty[g] - filled[g]
        BY <1>1, <2>3 DEF Chain
      <3>3. OrderFact(g) /\ PlaceFact(g)
        BY DEF RepriceInv, Books
      <3>4. filled[g] = broker[g].filled
        BY <3>2, <3>3 DEF OrderFact, PlaceFact
      <3> QED
        BY <1>3, <2>1, <3>1, <3>2, <3>4
    <2>4. ASSUME NEW g \in Gens, last < g PROVE use[g] = 0
      <3>1. ~(g <= last)
        BY <2>4, GenNumbers
      <3> QED
        BY <1>1, <2>1, <3>1 DEF Chain
    <2> QED
      BY <2>1, <2>2, <2>3, <2>4
  <1>5. PICK sum : sum = CHOOSE f : f = [g \in 0..(MaxReprices + 1) |->
                                          IF g = 0 THEN 0 ELSE f[g - 1] + broker[g].filled + MayFill(g)]
    OBVIOUS
  <1>6. NeverOverfill <=> sum[MaxReprices + 1] <= Qty
    BY <1>5 DEF NeverOverfill
  <1>7. PICK h : h = [g \in 0..(MaxReprices + 1) |->
                        IF g < last THEN Qty - left[g + 1] ELSE (Qty - left[last]) + use[last]]
    OBVIOUS
  <1>8. /\ MaxReprices + 1 \in Nat /\ last \in Nat /\ 0 < last /\ last <= MaxReprices + 1
        /\ \A g \in Gens : g \in Nat /\ g # 0 /\ g - 1 \in Nat /\ (g - 1) + 1 = g /\ g <= MaxReprices + 1
                           /\ g \in 0..(MaxReprices + 1) /\ g - 1 \in 0..(MaxReprices + 1)
        /\ \A g \in 0..(MaxReprices + 1) : g # 0 => g \in Gens
        /\ 0 \in 0..(MaxReprices + 1) /\ 0 + 1 = 1 /\ Qty \in Nat /\ Qty - Qty = 0
    BY GenNumbers, MaxRepricesAssumption DEF Gens, LastGen
  <1>9. \A g \in Gens : left[g] <= Qty /\ Qty - left[g] \in Nat
    <2>1. \A g \in Gens : left[g] \in 0..Qty
      <3>1. \A g \in Gens : qty[g] \in 0..Qty
        BY DEF RepriceInv, RepriceTypeOK
      <3> QED
        BY <1>3, <3>1
    <2>2. \A a \in 0..Qty : a <= Qty /\ Qty - a \in Nat
      BY <1>8
    <2> QED
      BY <2>1, <2>2
  <1>10. h[0] = 0
    BY <1>4, <1>7, <1>8
  <1>11. ASSUME NEW g \in Gens PROVE h[g - 1] \in Nat /\ h[g] = h[g - 1] + use[g] /\ h[g] \in Nat
    <2>1. g \in Nat /\ last \in Nat /\ (g - 1) + 1 = g
      BY <1>8
    <2>2. \A a, b, q \in Nat : q - a \in Nat /\ b <= a => q - (a - b) = (q - a) + b
      OBVIOUS
    <2>3. \A n \in Nat : n + 0 = n
      OBVIOUS
    <2>4. \A n, m \in Nat : n + m \in Nat
      OBVIOUS
    <2>5. CASE g < last
      <3>1. g - 1 < last
        BY <2>1, <2>5
      <3>2. h[g] = Qty - left[g + 1] /\ h[g - 1] = Qty - left[g]
        BY <1>7, <1>8, <2>1, <2>5, <3>1
      <3>3. left[g + 1] = left[g] - use[g] /\ use[g] <= left[g] /\ use[g] \in Nat /\ left[g] \in Nat
        BY <1>4, <2>5
      <3>4. h[g - 1] \in Nat
        BY <1>9, <3>2
      <3>5. Qty - left[g] \in Nat /\ Qty \in Nat
        BY <1>8, <1>9
      <3>6. Qty - (left[g] - use[g]) = (Qty - left[g]) + use[g]
        BY <2>2, <3>3, <3>5, Zenon
      <3>7. h[g] = h[g - 1] + use[g]
        BY <3>2, <3>3, <3>6
      <3> QED
        BY <2>4, <3>3, <3>4, <3>7
    <2>6. CASE g = last
      <3>1. g - 1 < last /\ ~(g < last)
        BY <2>1, <2>6
      <3>2. h[g] = (Qty - left[last]) + use[last] /\ h[g - 1] = Qty - left[g]
        BY <1>7, <1>8, <2>1, <3>1
      <3> QED
        BY <1>4, <1>9, <2>4, <2>6, <3>2
    <2>7. CASE last < g
      <3>1. ~(g - 1 < last) /\ ~(g < last)
        BY <2>1, <2>7
      <3>2. h[g] = (Qty - left[last]) + use[last] /\ h[g - 1] = (Qty - left[last]) + use[last]
        BY <1>7, <1>8, <2>1, <3>1
      <3>3. use[g] = 0 /\ h[g - 1] \in Nat
        BY <1>4, <1>9, <2>4, <2>7, <3>2
      <3> QED
        BY <2>3, <3>2, <3>3
    <2> QED
      BY <2>1, <2>5, <2>6, <2>7
  <1>12. \A g \in Gens : \A n \in Nat : n + broker[g].filled + MayFill(g) = n + use[g]
    <2>1. ASSUME NEW g \in Gens PROVE broker[g].filled \in Nat /\ MayFill(g) \in Nat
      <3>1. BrokerFact(g) /\ broker[g].filled \in 0..Qty /\ qty[g] \in 0..Qty
        BY UpdateTyped DEF RepriceInv, Books, BrokerOrders
      <3>2. PICK q \in 0..Qty, n \in 0..Qty : q = qty[g] /\ n = broker[g].filled
        BY <3>1
      <3>3. n <= q
        BY <3>1, <3>2 DEF BrokerFact
      <3>4. n \in Nat /\ q \in Nat /\ q - n \in Nat /\ 0 \in Nat
        BY <1>8, <3>3
      <3>5. MayFill(g) \in {q - n, q, 0}
        BY <3>2 DEF MayFill
      <3> QED
        BY <3>2, <3>4, <3>5
    <2>2. \A n, a, b \in Nat : n + a + b = n + (a + b)
      OBVIOUS
    <2>3. \A g \in Gens : use[g] = broker[g].filled + MayFill(g)
      BY <1>2
    <2> QED
      BY <2>1, <2>2, <2>3
  <1>13. h = [g \in 0..(MaxReprices + 1) |->
                IF g = 0 THEN 0 ELSE h[g - 1] + broker[g].filled + MayFill(g)]
    <2>1. ASSUME NEW g \in 0..(MaxReprices + 1)
          PROVE  h[g] = IF g = 0 THEN 0 ELSE h[g - 1] + broker[g].filled + MayFill(g)
      <3>1. CASE g = 0
        BY <1>10, <3>1
      <3>2. CASE g # 0
        <4>1. g \in Gens
          BY <1>8, <3>2
        <4> QED
          BY <1>11, <1>12, <3>2, <4>1
      <3> QED
        BY <3>1, <3>2
    <2>2. h = [g \in 0..(MaxReprices + 1) |-> h[g]]
      BY <1>7
    <2> QED
      BY <2>1, <2>2
  <1>14. sum = [g \in 0..(MaxReprices + 1) |->
                  IF g = 0 THEN 0 ELSE sum[g - 1] + broker[g].filled + MayFill(g)]
    BY <1>5, <1>13
  <1>15. PICK T : T = {n \in Nat : n <= MaxReprices + 1 => sum[n] = h[n]}
    OBVIOUS
  <1>16. T = Nat
    <2>1. 0 \in T
      BY <1>8, <1>10, <1>14, <1>15
    <2>2. ASSUME NEW n \in T PROVE n + 1 \in T
      <3>1. n \in Nat /\ n + 1 \in Nat /\ (n + 1) - 1 = n /\ n + 1 # 0
        BY <1>15
      <3>2. ASSUME n + 1 <= MaxReprices + 1 PROVE sum[n + 1] = h[n + 1]
        <4>1. n + 1 \in Gens /\ n + 1 \in 0..(MaxReprices + 1) /\ n <= MaxReprices + 1
          BY <1>8, <3>1, <3>2, GenNumbers DEF LastGen
        <4>2. sum[n] = h[n]
          BY <1>15, <4>1
        <4>3. PICK g \in Gens : g = n + 1 /\ g - 1 = n /\ g # 0
          BY <3>1, <4>1
        <4>4. sum[g] = sum[g - 1] + broker[g].filled + MayFill(g)
          BY <1>14, <4>1, <4>3
        <4>5. h[g] = h[g - 1] + broker[g].filled + MayFill(g)
          BY <1>13, <4>1, <4>3
        <4> QED
          BY <4>2, <4>3, <4>4, <4>5
      <3> QED
        BY <1>15, <3>1, <3>2
    <2>3. T \subseteq Nat
      BY <1>15
    <2> QED
      BY <2>1, <2>2, <2>3, NatByStep
  <1>17. sum[MaxReprices + 1] = h[MaxReprices + 1]
    BY <1>8, <1>15, <1>16
  <1>18. h[MaxReprices + 1] = (Qty - left[last]) + use[last]
    <2>1. ~(MaxReprices + 1 < last) /\ MaxReprices + 1 \in 0..(MaxReprices + 1)
      BY <1>8
    <2> QED
      BY <1>7, <2>1
  <1>19. (Qty - left[last]) + use[last] <= Qty
    <2>1. \A q, a, b \in Nat : b <= a => (q - a) + b <= q
      OBVIOUS
    <2> QED
      BY <1>4, <1>8, <2>1
  <1> QED
    BY <1>6, <1>17, <1>18, <1>19

\* What the invariant says of working orders, terminal orders and of the end.
LEMMA RepriceInvIsSafe == RepriceInv => RepriceSafe
  <1> SUFFICES ASSUME RepriceInv PROVE RepriceSafe
    OBVIOUS
  <1>1. RepriceTypeOK /\ NoIntegrityHalt
    BY DEF RepriceInv
  <1>2. WorkingIsBacked
    <2> SUFFICES ASSUME NEW g \in Gens, broker[g].state \in Working \/ place[g] \in PlaceLive
                 PROVE  resource = "held" /\ held = Remaining(g)
      BY DEF WorkingIsBacked
    <2>1. PlaceFact(g)
      BY DEF RepriceInv, Books
    <2>2. place[g] \in PlaceLive
      BY <2>1 DEF PlaceFact, PlaceLive
    <2> QED
      BY <2>2, LiveIsLast DEF Remaining
  <1>3. BooksFinal
    BY DEF RepriceInv, Books, OrderFact, BooksFinal
  <1>4. OverIsSettled
    <2>1. PICK last \in Gens : Reserved(last)
      BY DEF RepriceInv, Books
    <2> QED
      BY <2>1 DEF OverIsSettled, Reserved
  <1> QED
    BY <1>1, <1>2, <1>3, <1>4, FillsFit DEF RepriceSafe

\* A reprice never fills more than the operation's quantity, works unbacked, books
\* what the broker did not say, halts its own kernel, or ends with resources held,
\* whatever the quantity, the number of reprices, the kinds of operation and the
\* order of the repricer's, the reconciler's and the broker's steps (repricer.go,
\* repricing.go).
THEOREM RepricesStaySafe == RepriceSpec => []RepriceSafe
  <1>1. RepriceSpec => []RepriceInv
    BY RepriceInitInv, RepriceNextInv, PTL DEF RepriceSpec
  <1> QED
    BY <1>1, RepriceInvIsSafe, PTL

\* Only FinalizeRepriceCancel stages a placement, and it counts again under the
\* policy in force.
LEMMA StagedWithinPolicy ==
  ASSUME RepriceInv, RepriceNext, NEW g \in Gens, place[g] = "none", place'[g] = "pending"
  PROVE  reprices'[g] <= EffectiveMax
  <1>1. PICK p \in Procs : FinalizeRepriceCancel(p)
    <2>1. CASE \E p \in Procs : FinalizeRepriceCancel(p)
      BY <2>1
    <2>2. CASE place' = place
      BY <2>2
    <2>3. ASSUME NEW h \in Gens,
                 \/ ClaimReplacement(h) \/ RefuseReplacement(h) \/ SendReplacement(h)
                 \/ ResolveReplacement(h)
          PROVE  FALSE
      <3>1. place[h] # "none"
        BY <2>3 DEF ClaimReplacement, RefuseReplacement, SendReplacement, ResolveReplacement
      <3>2. \E s : place' = [place EXCEPT ![h] = s]
        BY <2>3 DEF ClaimReplacement, RefuseReplacement, SendReplacement, ResolveReplacement
      <3> QED
        BY <3>1, <3>2
    <2>4. CASE ApplyObserved
      <3>1. PICK h \in Gens : h = proc["reconciler"].gen
        BY ProcTyped DEF Procs
      <3>2. PICK s : s = IF place[h] = "placed" THEN PlacementAfter(proc["reconciler"].read.state)
                         ELSE place[h]
        OBVIOUS
      <3>3. place' = place \/ place' = [place EXCEPT ![h] = s]
        BY <2>4, <3>1, <3>2 DEF ApplyObserved, bookVars
      <3>4. s = place[h] \/ s \in {"failed", "settled", "placed"}
        BY <3>2 DEF PlacementAfter
      <3>5. place'[g] = place[g] \/ place'[g] = s
        BY <3>3, UpdateTyped
      <3> QED
        BY <3>3, <3>4, UpdateTyped
    <2>5. \/ \E p \in Procs : FinalizeRepriceCancel(p)
          \/ place' = place \/ ApplyObserved
          \/ \E h \in Gens : \/ ClaimReplacement(h) \/ RefuseReplacement(h) \/ SendReplacement(h)
                             \/ ResolveReplacement(h)
      BY DEF RepriceNext, RepriceRunning, RepriceCrash, ChangePolicy, ClaimStaged, ReadListed, ProcStep,
             PreEffect, MarkSent, CancelOrder, QueryTarget, Decide, FinalizeRefused, StageRepriceCancel,
             Recover, ClaimPendingCancel, ClaimUncertainCancel, LeaseExpires, ListOrder, BrokerAccepts,
             BrokerFills, BrokerEnds, BrokerCancels, BrokerMoves, CancelResolved, Claimed, bookVars
    <2> QED
      BY <2>1, <2>2, <2>3, <2>4, <2>5
  <1>2. PICK h \in Gens : h = proc[p].gen
    BY ProcTyped
  <1>3. ~Finish(h, proc[p].read)
    BY <1>1, <1>2, UpdateTyped DEF Finish
  <1>4. ReplacementAllowed(p, h) /\ Replace(h, proc[p].read)
    BY <1>1, <1>2, <1>3 DEF FinalizeRepriceCancel
  <1>5. g = h + 1
    BY <1>4, UpdateTyped DEF Replace
  <1>6. reprices'[g] = reprices[h] + 1
    BY <1>4, <1>5, UpdateTyped, GenNumbers DEF Replace, RepriceInv, RepriceTypeOK
  <1> QED
    BY <1>4, <1>6 DEF ReplacementAllowed

\* A replacement is staged only within the number of reprices authorised with the
\* operation and the number in force at that moment (FinalizeRepriceCancel's recheck).
THEOREM ReplacementsStayWithinPolicy == RepriceSpec => WithinPolicy
  <1>1. RepriceInv /\ [RepriceNext]_repriceVars =>
          [\A g \in Gens : place[g] = "none" /\ place'[g] = "pending" => reprices'[g] <= EffectiveMax]_repriceVars
    BY StagedWithinPolicy
  <1>2. RepriceSpec => []RepriceInv
    BY RepriceInitInv, RepriceNextInv, PTL DEF RepriceSpec
  <1> QED
    BY <1>1, <1>2, PTL DEF RepriceSpec, WithinPolicy
=============================================================================
