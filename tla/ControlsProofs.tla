--------------------------- MODULE ControlsProofs ---------------------------
(***************************************************************************)
(* Proofs about controls of the kernel that share no state.                *)
(*                                                                         *)
(* The connection to the broker: however requests, refreshes, callbacks    *)
(* and restarts interleave, a code is exchanged once, only a confirmed     *)
(* account is served, and a record whose writers did not cross is what the *)
(* last of each of them stored.                                            *)
(*                                                                         *)
(* The PnL breaker: every limit, every set of readings and any number of   *)
(* market days.                                                            *)
(*                                                                         *)
(* The prices of orders, for every tick schedule and every range of        *)
(* prices.  Pricing: a replacement price is a price of its instrument,     *)
(* never crosses the approved bound and covers half of the way to the      *)
(* market; with ticks that meet at the cutoff the walk does not stop       *)
(* before it.  OpenOrder: the cash an opening order holds pays for what    *)
(* may still fill, and a review derives the very terms that were proposed. *)
(***************************************************************************)
EXTENDS BrokerConnection, Breaker, OpenOrder, FiniteSetTheorems, TLAPS

-----------------------------------------------------------------------------
(* The inductive invariant                                                 *)

RequestKinds == {"none", "read", "callback", "bind", "activate", "startup"}
RequestSteps == {"idle", "activate", "exchange", "merge", "store", "call", "loaded", "refreshed", "saving",
                 "answered", "marker", "snapshot"}
RequestRecords == [kind : RequestKinds, at : RequestSteps, conn : Record, base : Record, token : 0..MaxTokens,
                   flow : SUBSET Flows, account : Holder]

StateTypeOK ==
    /\ flow \in [Flows -> {"none", "pending", "consumed", "expired"}]
    /\ connection \in Record /\ issued \in 0..MaxTokens
    /\ served \in Holder /\ baseline \in Holder /\ chosen \in Holder
    /\ phase \in {"starting", "up", "down"}
    /\ newest \in 0..MaxTokens /\ confirmed \subseteq Listed /\ crossed \in BOOLEAN
    /\ request \in [Clients -> RequestRecords]
    /\ exchanges \in [Flows -> {0, 1}]

Known(account) == account \in confirmed \cup {Unbound}

\* What a request holds was confirmed; the code it is about to exchange is one
\* nobody has exchanged.
RequestFact(c) ==
    /\ Known(request[c].conn.bound) /\ Known(request[c].base.bound) /\ Known(request[c].account)
    /\ request[c].at = "exchange" =>
         \A f \in request[c].flow : flow[f] = "consumed" /\ exchanges[f] = 0

\* A claimed flow belongs to one callback.
ClaimsApart ==
    \A c, d \in Clients :
        c # d /\ request[c].at = "exchange" /\ request[d].at = "exchange" =>
            request[c].flow \cap request[d].flow = {}

RecordFact ==
    /\ Known(served) /\ Known(baseline) /\ Known(connection.bound)
    /\ crossed = TRUE \/ (connection.token = newest /\ connection.bound = chosen)

ConnectionInv ==
    /\ StateTypeOK /\ RecordFact /\ ClaimsApart
    /\ \A c \in Clients : RequestFact(c)
    /\ \A f \in Flows : flow[f] # "consumed" => exchanges[f] = 0

-----------------------------------------------------------------------------
(* Lemmas about records and the requests that do not move                  *)

LEMMA NoRequestTyped ==
    /\ NoConnection \in Record /\ NoConnection.bound = Unbound /\ NoConnection.token = 0
    /\ NoRequest \in RequestRecords /\ NoRequest.at = "idle" /\ NoRequest.kind = "none"
    /\ NoRequest.conn = NoConnection /\ NoRequest.base = NoConnection /\ NoRequest.account = Unbound
    /\ NoRequest.flow = {}
BY ConnectionAssumption
   DEF NoConnection, Record, Holder, NoRequest, RequestRecords, RequestKinds, RequestSteps

\* The request of c moves on to anything but an exchange.
LEMMA RequestMoves ==
    ASSUME ConnectionInv, NEW c \in Clients, NEW r \in RequestRecords,
           request' = [request EXCEPT ![c] = r], r.at # "exchange",
           Known(r.conn.bound)', Known(r.base.bound)', Known(r.account)', confirmed \subseteq confirmed',
           UNCHANGED <<flow, exchanges>>,
           connection' \in Record, issued' \in 0..MaxTokens,
           served' \in Holder, baseline' \in Holder, chosen' \in Holder,
           phase' \in {"starting", "up", "down"}, newest' \in 0..MaxTokens,
           confirmed' \subseteq Listed, crossed' \in BOOLEAN, RecordFact'
    PROVE  ConnectionInv'
<1>1. StateTypeOK'
    BY DEF ConnectionInv, StateTypeOK
<1>2. request'[c] = r /\ \A d \in Clients \ {c} : request'[d] = request[d]
    BY DEF ConnectionInv, StateTypeOK
<1>3. ASSUME NEW d \in Clients PROVE RequestFact(d)'
  <2>1. CASE d = c
    BY <1>2, <2>1 DEF RequestFact
  <2>2. CASE d # c
    BY <1>2, <2>2 DEF ConnectionInv, RequestFact, Known
  <2> QED
    BY <2>1, <2>2
<1>4. ClaimsApart'
    BY <1>2 DEF ConnectionInv, ClaimsApart
<1>5. \A f \in Flows : flow'[f] # "consumed" => exchanges'[f] = 0
    BY DEF ConnectionInv
<1> QED
    BY <1>1, <1>3, <1>4, <1>5 DEF ConnectionInv

\* Only the request of c moves, and what it holds it had or finds in the record.
LEMMA QuietRequest ==
    ASSUME ConnectionInv, NEW c \in Clients, NEW r \in RequestRecords,
           request' = [request EXCEPT ![c] = r], r.at # "exchange",
           Known(r.conn.bound), Known(r.base.bound), Known(r.account),
           UNCHANGED <<flow, connection, served, baseline, newest, chosen, confirmed, crossed, exchanges>>,
           issued' \in 0..MaxTokens, phase' \in {"starting", "up", "down"}
    PROVE  ConnectionInv'
<1>1. Known(r.conn.bound)' /\ Known(r.base.bound)' /\ Known(r.account)' /\ RecordFact'
    BY DEF Known, ConnectionInv, RecordFact
<1>2. /\ connection' \in Record /\ served' \in Holder /\ baseline' \in Holder /\ chosen' \in Holder
      /\ newest' \in 0..MaxTokens /\ confirmed' \subseteq Listed /\ crossed' \in BOOLEAN
      /\ UNCHANGED <<flow, exchanges>> /\ confirmed \subseteq confirmed'
    BY DEF ConnectionInv, StateTypeOK
<1> QED
    BY <1>1, <1>2, RequestMoves

\* A writer puts the whole record back: what the last one stored, unless the
\* record it had read is no longer there.
LEMMA PutKeepsRecord ==
    ASSUME ConnectionInv, NEW rec \in Record, NEW read \in Record, Puts(rec, read), Known(rec.bound)',
           UNCHANGED <<served, baseline>>, confirmed \subseteq confirmed',
           read = connection /\ connection.token = newest /\ connection.bound = chosen =>
             rec.token = newest' /\ rec.bound = chosen'
    PROVE  RecordFact' /\ crossed' \in BOOLEAN /\ connection' \in Record
<1>1. connection' = rec /\ crossed' \in BOOLEAN /\ connection' \in Record
    BY DEF Puts
<1>2. Known(served)' /\ Known(baseline)' /\ Known(connection.bound)'
    BY <1>1 DEF ConnectionInv, RecordFact, Known
<1>3. CASE crossed = TRUE \/ read # connection
    BY <1>2, <1>3 DEF Puts, RecordFact
<1>4. CASE ~(crossed = TRUE) /\ read = connection
    BY <1>1, <1>2, <1>4 DEF ConnectionInv, RecordFact
<1> QED
    BY <1>1, <1>3, <1>4

-----------------------------------------------------------------------------
(* The steps                                                               *)

LEMMA ConnectionInitInv == ConnectionInit => ConnectionInv
<1> SUFFICES ASSUME ConnectionInit PROVE ConnectionInv
    OBVIOUS
<1>1. PICK c \in Clients : request = Startup(c)
    BY DEF ConnectionInit
<1>2. PICK r : r = [NoRequest EXCEPT !.kind = "startup", !.at = "activate"]
    OBVIOUS
<1>3. /\ r \in RequestRecords /\ r.at = "activate" /\ r.conn = NoConnection /\ r.base = NoConnection
      /\ r.account = Unbound
    BY <1>2, NoRequestTyped DEF RequestRecords, RequestKinds, RequestSteps
<1>4. request \in [Clients -> RequestRecords] /\ \A d \in Clients : request[d] \in {r, NoRequest}
    BY <1>1, <1>2, <1>3, NoRequestTyped DEF Startup
<1>5. \A d \in Clients : RequestFact(d)
    BY <1>3, <1>4, NoRequestTyped DEF RequestFact, Known
<1>6. ClaimsApart
    BY <1>3, <1>4, NoRequestTyped DEF ClaimsApart
<1>7. StateTypeOK
  <2>1. 0 \in 0..MaxTokens
    BY ConnectionAssumption
  <2>2. flow \in [Flows -> {"none", "pending", "consumed", "expired"}] /\ exchanges \in [Flows -> {0, 1}]
    BY DEF ConnectionInit
  <2>3. /\ connection \in Record /\ issued \in 0..MaxTokens /\ newest \in 0..MaxTokens
        /\ served \in Holder /\ baseline \in Holder /\ chosen \in Holder
    BY <2>1, NoRequestTyped DEF ConnectionInit, Holder
  <2>4. phase \in {"starting", "up", "down"} /\ confirmed \subseteq Listed /\ crossed \in BOOLEAN
    BY DEF ConnectionInit
  <2> QED
    BY <1>4, <2>2, <2>3, <2>4 DEF StateTypeOK
<1>8. RecordFact
    BY NoRequestTyped DEF ConnectionInit, RecordFact, Known
<1> QED
    BY <1>5, <1>6, <1>7, <1>8 DEF ConnectionInit, ConnectionInv

LEMMA RestartKeepsConnection == ASSUME ConnectionInv, RestartConnection PROVE ConnectionInv'
<1>1. PICK c \in Clients : request' = Startup(c)
    BY DEF RestartConnection
<1>2. PICK r : r = [NoRequest EXCEPT !.kind = "startup", !.at = "activate"]
    OBVIOUS
<1>3. /\ r \in RequestRecords /\ r.at = "activate" /\ r.conn = NoConnection /\ r.base = NoConnection
      /\ r.account = Unbound
    BY <1>2, NoRequestTyped DEF RequestRecords, RequestKinds, RequestSteps
<1>4. request' \in [Clients -> RequestRecords] /\ \A d \in Clients : request'[d] \in {r, NoRequest}
    BY <1>1, <1>2, <1>3, NoRequestTyped DEF Startup
<1>5. \A d \in Clients : RequestFact(d)'
    BY <1>3, <1>4, NoRequestTyped DEF RequestFact, Known
<1>6. ClaimsApart'
    BY <1>3, <1>4, NoRequestTyped DEF ClaimsApart
<1>7. StateTypeOK'
    BY <1>4 DEF ConnectionInv, StateTypeOK, RestartConnection, histories, Holder
<1>8. RecordFact'
    BY DEF ConnectionInv, RecordFact, RestartConnection, histories, Known
<1> QED
    BY <1>5, <1>6, <1>7, <1>8 DEF RestartConnection, histories, ConnectionInv

\* A flow that starts or expires was never claimed.
LEMMA FlowsKeepConnection ==
    ASSUME ConnectionInv, NEW f \in Flows, StartFlow(f) \/ ExpireFlow(f) PROVE ConnectionInv'
<1>1. /\ flow[f] # "consumed" /\ flow' = [flow EXCEPT ![f] = flow'[f]] /\ flow'[f] \in {"pending", "expired"}
      /\ UNCHANGED <<connection, issued, served, baseline, phase, request, newest, chosen, confirmed, crossed,
                     exchanges>>
    BY DEF StartFlow, ExpireFlow, ConnectionInv, StateTypeOK, histories
<1>2. StateTypeOK' /\ \A g \in Flows : g # f => flow'[g] = flow[g]
    BY <1>1 DEF ConnectionInv, StateTypeOK
<1>3. ASSUME NEW c \in Clients PROVE RequestFact(c)'
  <2>1. request[c] \in RequestRecords
    BY DEF ConnectionInv, StateTypeOK
  <2> QED
    BY <1>1, <1>2, <2>1 DEF ConnectionInv, RequestFact, Known, RequestRecords
<1>4. ClaimsApart' /\ RecordFact'
    BY <1>1 DEF ConnectionInv, ClaimsApart, RecordFact, Known
<1> QED
    BY <1>1, <1>2, <1>3, <1>4 DEF ConnectionInv

\* One statement claims the state, so no other callback has it.
LEMMA ConsumeKeepsConnection ==
    ASSUME ConnectionInv, NEW c \in Clients, NEW f \in Flows, ConsumeFlow(c, f) PROVE ConnectionInv'
<1>1. /\ flow[f] = "pending" /\ flow' = [flow EXCEPT ![f] = "consumed"]
      /\ UNCHANGED <<connection, issued, served, baseline, phase, newest, chosen, confirmed, crossed, exchanges>>
    BY DEF ConsumeFlow, Consumable, histories
<1>2. PICK r : r = [NoRequest EXCEPT !.kind = "callback", !.at = "exchange", !.flow = {f}]
    OBVIOUS
<1>3. /\ r \in RequestRecords /\ r.at = "exchange" /\ r.flow = {f} /\ r.conn = NoConnection
      /\ r.base = NoConnection /\ r.account = Unbound
    BY <1>2, NoRequestTyped DEF RequestRecords, RequestKinds, RequestSteps
<1>4. request' = [request EXCEPT ![c] = r]
    BY <1>2 DEF ConsumeFlow, Begins
<1>5. /\ request'[c] = r /\ \A d \in Clients \ {c} : request'[d] = request[d]
      /\ flow'[f] = "consumed" /\ \A g \in Flows \ {f} : flow'[g] = flow[g]
      /\ \A d \in Clients : request[d] \in RequestRecords
    BY <1>1, <1>4 DEF ConnectionInv, StateTypeOK
<1>6. StateTypeOK'
    BY <1>1, <1>3, <1>4 DEF ConnectionInv, StateTypeOK
<1>7. \A d \in Clients : request[d].at = "exchange" => f \notin request[d].flow
    BY <1>1 DEF ConnectionInv, RequestFact
<1>8. ASSUME NEW d \in Clients PROVE RequestFact(d)'
  <2>1. CASE d = c
    BY <1>1, <1>3, <1>5, <2>1, NoRequestTyped DEF ConnectionInv, RequestFact, Known
  <2>2. CASE d # c
    BY <1>1, <1>5, <2>2 DEF ConnectionInv, RequestFact, Known, RequestRecords
  <2> QED
    BY <2>1, <2>2
<1>9. ClaimsApart'
    BY <1>3, <1>5, <1>7 DEF ConnectionInv, ClaimsApart
<1>10. RecordFact'
    BY <1>1 DEF ConnectionInv, RecordFact, Known
<1> QED
    BY <1>1, <1>5, <1>6, <1>8, <1>9, <1>10 DEF ConnectionInv

\* The callback that claimed the flow exchanges its code, and leaves that step.
LEMMA ExchangeKeepsConnection ==
    ASSUME ConnectionInv, NEW c \in Clients, ExchangeCode(c) PROVE ConnectionInv'
<1>1. /\ request[c].at = "exchange" /\ issued' = issued + 1 /\ issued < MaxTokens
      /\ exchanges' = [f \in Flows |-> exchanges[f] + IF f \in request[c].flow THEN 1 ELSE 0]
      /\ UNCHANGED <<flow, connection, served, baseline, phase, newest, chosen, confirmed, crossed>>
    BY DEF ExchangeCode, AtStep
<1>2. PICK r : r = [request[c] EXCEPT !.token = issued + 1, !.at = "merge"]
    OBVIOUS
<1>3. request[c] \in RequestRecords /\ issued' \in 0..MaxTokens
    BY <1>1, ConnectionAssumption DEF ConnectionInv, StateTypeOK
<1>4. /\ r \in RequestRecords /\ r.at = "merge" /\ r.conn = request[c].conn /\ r.base = request[c].base
      /\ r.account = request[c].account
    BY <1>1, <1>2, <1>3 DEF RequestRecords, RequestSteps
<1>5. request' = [request EXCEPT ![c] = r]
    BY <1>2 DEF ExchangeCode
<1>6. request'[c] = r /\ \A d \in Clients \ {c} : request'[d] = request[d]
    BY <1>5 DEF ConnectionInv, StateTypeOK
<1>7. \A f \in Flows : IF f \in request[c].flow THEN exchanges[f] = 0 /\ exchanges'[f] = 1 /\ flow[f] = "consumed"
                                                ELSE exchanges'[f] = exchanges[f]
  <2>1. \A f \in Flows : exchanges[f] \in {0, 1}
    BY DEF ConnectionInv, StateTypeOK
  <2> QED
    BY <1>1, <2>1 DEF ConnectionInv, RequestFact
<1>8. exchanges' \in [Flows -> {0, 1}]
  <2>1. ASSUME NEW f \in Flows PROVE exchanges'[f] \in {0, 1}
    BY <1>7 DEF ConnectionInv, StateTypeOK
  <2> QED
    BY <1>1, <2>1
<1>9. StateTypeOK'
    BY <1>1, <1>3, <1>4, <1>5, <1>8 DEF ConnectionInv, StateTypeOK
<1>10. ASSUME NEW d \in Clients PROVE RequestFact(d)'
  <2>1. CASE d = c
    BY <1>1, <1>4, <1>6, <2>1 DEF ConnectionInv, RequestFact, Known
  <2>2. CASE d # c
    <3>1. request'[d] = request[d] /\ RequestFact(d) /\ request[d] \in RequestRecords
      BY <1>6, <2>2 DEF ConnectionInv, StateTypeOK
    <3>2. request[d].at = "exchange" => \A f \in request[d].flow : f \in Flows /\ f \notin request[c].flow
      BY <1>1, <2>2, <3>1 DEF ConnectionInv, ClaimsApart, RequestRecords
    <3>3. request[d].at = "exchange" => \A f \in request[d].flow : flow'[f] = "consumed" /\ exchanges'[f] = 0
      BY <1>1, <1>7, <3>1, <3>2 DEF RequestFact
    <3> QED
      BY <1>1, <3>1, <3>3 DEF RequestFact, Known
  <2> QED
    BY <2>1, <2>2
<1>11. ClaimsApart'
    BY <1>4, <1>6 DEF ConnectionInv, ClaimsApart
<1>12. RecordFact'
    BY <1>1 DEF ConnectionInv, RecordFact, Known
<1>13. \A f \in Flows : flow'[f] # "consumed" => exchanges'[f] = 0
    BY <1>1, <1>7 DEF ConnectionInv
<1> QED
    BY <1>9, <1>10, <1>11, <1>12, <1>13 DEF ConnectionInv

\* A request begins, ends or moves without writing the record.
LEMMA QuietStepsKeepConnection ==
    ASSUME ConnectionInv, NEW c \in Clients,
           \/ LoadExisting(c) \/ BeginRead(c) \/ LoadToken(c) \/ TokenFresh(c) \/ RefreshToken(c)
           \/ RereadConnection(c) \/ AnswerRead(c) \/ BeginBind(c) \/ BeginActivate(c) \/ Abandon(c)
    PROVE  ConnectionInv'
<1>1. /\ request[c] \in RequestRecords /\ connection \in Record /\ Known(connection.bound) /\ Known(Unbound)
      /\ Known(request[c].conn.bound) /\ Known(request[c].base.bound) /\ Known(request[c].account)
      /\ issued \in 0..MaxTokens /\ phase \in {"starting", "up", "down"}
    BY DEF ConnectionInv, StateTypeOK, RecordFact, RequestFact, Known
<1>2. ASSUME NEW n \in Record, NEW s \in {"store", "call"}, Known(n.bound),
             request' = [request EXCEPT ![c].conn = n, ![c].at = s],
             UNCHANGED <<flow, connection, issued, served, baseline, phase, histories>>
      PROVE  ConnectionInv'
  <2>1. PICK r : r = [request[c] EXCEPT !.conn = n, !.at = s]
    OBVIOUS
  <2>2. /\ r \in RequestRecords /\ r.at = s /\ r.conn = n /\ r.base = request[c].base
        /\ r.account = request[c].account
    BY <1>1, <2>1 DEF RequestRecords, RequestSteps
  <2>3. request' = [request EXCEPT ![c] = r]
    BY <1>2, <2>1
  <2> QED
    BY <1>1, <1>2, <2>2, <2>3, QuietRequest DEF histories
<1>3. ASSUME NEW n \in 0..MaxTokens, NEW s \in {"loaded", "refreshed"},
             request' = [request EXCEPT ![c].token = n, ![c].at = s], issued' \in 0..MaxTokens,
             UNCHANGED <<flow, connection, served, baseline, phase, histories>>
      PROVE  ConnectionInv'
  <2>1. PICK r : r = [request[c] EXCEPT !.token = n, !.at = s]
    OBVIOUS
  <2>2. /\ r \in RequestRecords /\ r.at = s /\ r.conn = request[c].conn /\ r.base = request[c].base
        /\ r.account = request[c].account
    BY <1>1, <2>1 DEF RequestRecords, RequestSteps
  <2>3. request' = [request EXCEPT ![c] = r]
    BY <1>3, <2>1
  <2> QED
    BY <1>1, <1>3, <2>2, <2>3, QuietRequest DEF histories
<1>4. CASE LoadExisting(c)
  <2>1. PICK n \in {connection, NoConnection} : request' = [request EXCEPT ![c].conn = n, ![c].at = "store"]
    BY <1>4 DEF LoadExisting
  <2>2. n \in Record /\ Known(n.bound)
    BY <1>1, <2>1, NoRequestTyped
  <2> QED
    BY <1>2, <1>4, <2>1, <2>2 DEF LoadExisting
<1>5. CASE BeginActivate(c)
    BY <1>1, <1>2, <1>5 DEF BeginActivate
<1>6. CASE LoadToken(c)
  <2>1. connection.token \in 0..MaxTokens
    BY <1>1 DEF Record
  <2> QED
    BY <1>1, <1>3, <1>6, <2>1 DEF LoadToken
<1>7. CASE RefreshToken(c)
  <2>1. issued + 1 \in 0..MaxTokens
    BY <1>1, <1>7, ConnectionAssumption DEF RefreshToken
  <2> QED
    BY <1>3, <1>7, <2>1 DEF RefreshToken
<1>8. CASE TokenFresh(c)
  <2>1. PICK r : r = [request[c] EXCEPT !.at = "answered"]
    OBVIOUS
  <2>2. /\ r \in RequestRecords /\ r.at = "answered" /\ r.conn = request[c].conn /\ r.base = request[c].base
        /\ r.account = request[c].account
    BY <1>1, <2>1 DEF RequestRecords, RequestSteps
  <2>3. request' = [request EXCEPT ![c] = r]
    BY <1>8, <2>1 DEF TokenFresh, Moves
  <2> QED
    BY <1>1, <1>8, <2>2, <2>3, QuietRequest DEF TokenFresh, histories
<1>9. CASE RereadConnection(c)
  <2>1. PICK r : r = [request[c] EXCEPT !.base = connection, !.at = "saving"]
    OBVIOUS
  <2>2. /\ r \in RequestRecords /\ r.at = "saving" /\ r.conn = request[c].conn /\ r.base = connection
        /\ r.account = request[c].account
    BY <1>1, <2>1 DEF RequestRecords, RequestSteps
  <2>3. request' = [request EXCEPT ![c] = r]
    BY <1>9, <2>1 DEF RereadConnection
  <2> QED
    BY <1>1, <1>9, <2>2, <2>3, QuietRequest DEF RereadConnection, histories
<1>10. CASE BeginRead(c)
  <2>1. PICK r : r = [NoRequest EXCEPT !.kind = "read", !.at = "call"]
    OBVIOUS
  <2>2. /\ r \in RequestRecords /\ r.at = "call" /\ r.conn = NoConnection /\ r.base = NoConnection
        /\ r.account = Unbound
    BY <2>1, NoRequestTyped DEF RequestRecords, RequestKinds, RequestSteps
  <2>3. request' = [request EXCEPT ![c] = r]
    BY <1>10, <2>1 DEF BeginRead, Begins
  <2> QED
    BY <1>1, <1>10, <2>2, <2>3, NoRequestTyped, QuietRequest DEF BeginRead, histories
<1>11. CASE BeginBind(c)
  <2>1. PICK r : r = [NoRequest EXCEPT !.kind = "bind", !.at = "call", !.conn = connection]
    OBVIOUS
  <2>2. /\ r \in RequestRecords /\ r.at = "call" /\ r.conn = connection /\ r.base = NoConnection
        /\ r.account = Unbound
    BY <1>1, <2>1, NoRequestTyped DEF RequestRecords, RequestKinds, RequestSteps
  <2>3. request' = [request EXCEPT ![c] = r]
    BY <1>11, <2>1 DEF BeginBind, Begins
  <2> QED
    BY <1>1, <1>11, <2>2, <2>3, NoRequestTyped, QuietRequest DEF BeginBind, histories
<1>12. CASE AnswerRead(c) \/ Abandon(c)
  <2>1. /\ request' = [request EXCEPT ![c] = NoRequest] /\ phase' \in {"starting", "up", "down"}
        /\ UNCHANGED <<flow, connection, issued, served, baseline, histories>>
    BY <1>1, <1>12 DEF AnswerRead, Ends, Abandon
  <2> QED
    BY <1>1, <2>1, NoRequestTyped, QuietRequest DEF histories
<1> QED
    BY <1>4, <1>5, <1>6, <1>7, <1>8, <1>9, <1>10, <1>11, <1>12

\* A new authorization, a refreshed token or a binding replaces the record.
LEMMA WritersKeepConnection ==
    ASSUME ConnectionInv, NEW c \in Clients,
           StoreAuthorization(c) \/ SaveToken(c) \/ \E account \in Listed : StoreBinding(c, account)
    PROVE  ConnectionInv'
<1>1. /\ request[c] \in RequestRecords /\ Known(Unbound)
      /\ Known(request[c].conn.bound) /\ Known(request[c].base.bound) /\ Known(request[c].account)
      /\ issued \in 0..MaxTokens /\ phase \in {"starting", "up", "down"} /\ served \in Holder
      /\ baseline \in Holder /\ chosen \in Holder /\ newest \in 0..MaxTokens /\ confirmed \subseteq Listed
    BY DEF ConnectionInv, StateTypeOK, RequestFact, Known
<1>2. /\ request[c].conn \in Record /\ request[c].base \in Record /\ request[c].token \in 0..MaxTokens
      /\ request[c].conn.bound \in Holder /\ request[c].conn.token \in 0..MaxTokens
      /\ request[c].base.bound \in Holder
    BY <1>1 DEF RequestRecords, Record
<1>3. CASE StoreAuthorization(c)
  <2>1. PICK rec : rec = [token |-> request[c].token, bound |-> request[c].conn.bound]
    OBVIOUS
  <2>2. rec \in Record /\ rec.token = request[c].token /\ rec.bound = request[c].conn.bound
    BY <1>2, <2>1 DEF Record
  <2>3. /\ Puts(rec, request[c].conn) /\ newest' = request[c].token
        /\ request' = [request EXCEPT ![c] = NoRequest] /\ phase' \in {"starting", "up", "down"}
        /\ UNCHANGED <<flow, issued, served, baseline, chosen, confirmed, exchanges>>
    BY <1>1, <1>3, <2>1 DEF StoreAuthorization, BindingKept, Ends
  <2>4. Known(rec.bound)'
    BY <1>1, <2>2, <2>3 DEF Known
  <2>5. RecordFact' /\ crossed' \in BOOLEAN /\ connection' \in Record
    BY <1>2, <2>2, <2>3, <2>4, PutKeepsRecord
  <2>6. Known(NoRequest.conn.bound)' /\ Known(NoRequest.base.bound)' /\ Known(NoRequest.account)'
    BY NoRequestTyped DEF Known
  <2> QED
    BY <1>1, <1>2, <2>3, <2>5, <2>6, NoRequestTyped, RequestMoves
<1>4. CASE SaveToken(c)
  <2>1. PICK rec : rec = [request[c].base EXCEPT !.token = request[c].token]
    OBVIOUS
  <2>2. rec \in Record /\ rec.token = request[c].token /\ rec.bound = request[c].base.bound
    BY <1>2, <2>1 DEF Record
  <2>3. PICK r : r = [request[c] EXCEPT !.at = "answered"]
    OBVIOUS
  <2>4. /\ r \in RequestRecords /\ r.at = "answered" /\ r.conn = request[c].conn /\ r.base = request[c].base
        /\ r.account = request[c].account
    BY <1>1, <2>3 DEF RequestRecords, RequestSteps
  <2>5. /\ Puts(rec, request[c].base) /\ newest' = request[c].token /\ request' = [request EXCEPT ![c] = r]
        /\ UNCHANGED <<flow, issued, served, baseline, phase, chosen, confirmed, exchanges>>
    BY <1>4, <2>1, <2>3 DEF SaveToken, Moves
  <2>6. Known(rec.bound)' /\ Known(r.conn.bound)' /\ Known(r.base.bound)' /\ Known(r.account)'
    BY <1>1, <2>2, <2>4, <2>5 DEF Known
  <2>7. RecordFact' /\ crossed' \in BOOLEAN /\ connection' \in Record
    BY <1>2, <2>2, <2>5, <2>6, PutKeepsRecord
  <2> QED
    BY <1>1, <1>2, <2>4, <2>5, <2>6, <2>7, RequestMoves
<1>5. ASSUME NEW account \in Listed, StoreBinding(c, account) PROVE ConnectionInv'
  <2>1. PICK rec : rec = [request[c].conn EXCEPT !.bound = account]
    OBVIOUS
  <2>2. rec \in Record /\ rec.token = request[c].conn.token /\ rec.bound = account /\ account \in Holder
    BY <1>2, <2>1 DEF Record, Holder
  <2>3. PICK r : r = [NoRequest EXCEPT !.kind = "activate", !.at = "activate"]
    OBVIOUS
  <2>4. /\ r \in RequestRecords /\ r.at = "activate" /\ r.conn = NoConnection /\ r.base = NoConnection
        /\ r.account = Unbound
    BY <2>3, NoRequestTyped DEF RequestRecords, RequestKinds, RequestSteps
  <2>5. /\ Puts(rec, request[c].conn) /\ chosen' = account /\ confirmed' = confirmed \cup {account}
        /\ request' = [request EXCEPT ![c] = r]
        /\ UNCHANGED <<flow, issued, served, baseline, phase, newest, exchanges>>
    BY <1>5, <2>1, <2>3 DEF StoreBinding
  <2>6. Known(rec.bound)' /\ Known(r.conn.bound)' /\ Known(r.base.bound)' /\ Known(r.account)'
    BY <2>2, <2>4, <2>5, NoRequestTyped DEF Known
  <2>7. RecordFact' /\ crossed' \in BOOLEAN /\ connection' \in Record
    BY <1>2, <2>2, <2>5, <2>6, PutKeepsRecord
  <2>8. confirmed \subseteq confirmed' /\ confirmed' \subseteq Listed /\ chosen' \in Holder
    BY <1>1, <2>2, <2>5
  <2> QED
    BY <1>1, <2>4, <2>5, <2>6, <2>7, <2>8, RequestMoves
<1> QED
    BY <1>3, <1>4, <1>5

\* What is served or becomes the baseline was confirmed when it was read.
LEMMA ActivationKeepsConnection ==
    ASSUME ConnectionInv, NEW c \in Clients, ServeAccount(c) \/ CheckMarker(c) \/ ActivateM3A(c)
    PROVE  ConnectionInv'
<1>1. /\ request[c] \in RequestRecords /\ Known(Unbound) /\ Known(served) /\ Known(baseline)
      /\ Known(request[c].conn.bound) /\ Known(request[c].base.bound) /\ Known(request[c].account)
      /\ issued \in 0..MaxTokens /\ phase \in {"starting", "up", "down"} /\ served \in Holder
      /\ baseline \in Holder /\ chosen \in Holder /\ newest \in 0..MaxTokens /\ confirmed \subseteq Listed
      /\ connection \in Record /\ crossed \in BOOLEAN
    BY DEF ConnectionInv, StateTypeOK, RequestFact, RecordFact, Known
<1>2. request[c].conn.bound \in Holder /\ request[c].account \in Holder
    BY <1>1 DEF RequestRecords, Record
<1>3. CASE ServeAccount(c)
  <2>1. PICK r : r = [request[c] EXCEPT !.at = "marker"]
    OBVIOUS
  <2>2. /\ r \in RequestRecords /\ r.at = "marker" /\ r.conn = request[c].conn /\ r.base = request[c].base
        /\ r.account = request[c].account
    BY <1>1, <2>1 DEF RequestRecords, RequestSteps
  <2>3. /\ request' = [request EXCEPT ![c] = r] /\ served' = request[c].conn.bound
        /\ UNCHANGED <<flow, connection, issued, baseline, phase, newest, chosen, confirmed, crossed, exchanges>>
    BY <1>3, <2>1 DEF ServeAccount, Moves, histories
  <2>4. Known(r.conn.bound)' /\ Known(r.base.bound)' /\ Known(r.account)' /\ RecordFact'
    BY <1>1, <2>2, <2>3 DEF Known, ConnectionInv, RecordFact
  <2> QED
    BY <1>1, <1>2, <2>2, <2>3, <2>4, RequestMoves
<1>4. CASE CheckMarker(c)
  <2>1. CASE baseline # Unbound
    <3>1. /\ request' = [request EXCEPT ![c] = NoRequest] /\ phase' \in {"starting", "up", "down"}
          /\ UNCHANGED <<flow, connection, issued, served, baseline, histories>>
      BY <1>1, <1>4, <2>1 DEF CheckMarker, Ends
    <3> QED
      BY <1>1, <3>1, NoRequestTyped, QuietRequest DEF histories
  <2>2. CASE baseline = Unbound
    <3>1. PICK r : r = [request[c] EXCEPT !.account = served, !.at = "snapshot"]
      OBVIOUS
    <3>2. /\ r \in RequestRecords /\ r.at = "snapshot" /\ r.conn = request[c].conn /\ r.base = request[c].base
          /\ r.account = served
      BY <1>1, <3>1 DEF RequestRecords, RequestSteps
    <3>3. request' = [request EXCEPT ![c] = r] /\ UNCHANGED <<flow, connection, issued, served, baseline, phase, histories>>
      BY <1>4, <2>2, <3>1 DEF CheckMarker
    <3> QED
      BY <1>1, <3>2, <3>3, QuietRequest DEF histories
  <2> QED
    BY <2>1, <2>2
<1>5. CASE ActivateM3A(c)
  <2>1. /\ request' = [request EXCEPT ![c] = NoRequest] /\ phase' \in {"starting", "up", "down"}
        /\ baseline' \in {request[c].account, baseline}
        /\ UNCHANGED <<flow, connection, issued, served, newest, chosen, confirmed, crossed, exchanges>>
    BY <1>1, <1>5 DEF ActivateM3A, Ends, histories
  <2>2. /\ Known(NoRequest.conn.bound)' /\ Known(NoRequest.base.bound)' /\ Known(NoRequest.account)'
        /\ RecordFact' /\ baseline' \in Holder
    BY <1>1, <1>2, <2>1, NoRequestTyped DEF Known, ConnectionInv, RecordFact
  <2> QED
    BY <1>1, <2>1, <2>2, NoRequestTyped, RequestMoves
<1> QED
    BY <1>3, <1>4, <1>5

LEMMA ConnectionNextKeepsInv == ConnectionInv /\ [ConnectionNext]_connectionVars => ConnectionInv'
<1> SUFFICES ASSUME ConnectionInv, [ConnectionNext]_connectionVars PROVE ConnectionInv'
    OBVIOUS
<1>1. CASE UNCHANGED connectionVars
  <2>1. StateTypeOK' /\ RecordFact' /\ ClaimsApart'
    BY <1>1 DEF connectionVars, ConnectionInv, StateTypeOK, RecordFact, ClaimsApart, Known
  <2>2. \A c \in Clients : RequestFact(c)'
    BY <1>1 DEF connectionVars, ConnectionInv, RequestFact, Known
  <2> QED
    BY <1>1, <2>1, <2>2 DEF connectionVars, ConnectionInv
<1>2. ASSUME NEW c \in Clients, ConnectionStep(c) PROVE ConnectionInv'
    BY <1>2, ConsumeKeepsConnection, ExchangeKeepsConnection, QuietStepsKeepConnection, WritersKeepConnection,
       ActivationKeepsConnection DEF ConnectionStep
<1> QED
    BY <1>1, <1>2, FlowsKeepConnection, RestartKeepsConnection DEF ConnectionNext

\* A code is exchanged once however often and wherever its callback arrives, the
\* process serves only what a person confirmed, and writers that did not cross
\* leave the last token and the last account in the record (SaveOAuthToken,
\* postRobinhoodBind, getRobinhoodCallback).
THEOREM ConnectionIsSafe == ConnectionSpec => []ConnectionSafe
<1>1. ConnectionInv => ConnectionSafe
  <2> SUFFICES ASSUME ConnectionInv PROVE ConnectionSafe
    OBVIOUS
  <2>1. \A c \in Clients : request[c] \in RequestRecords
    BY DEF ConnectionInv, StateTypeOK
  <2>2. ConnectionTypeOK
    BY <2>1 DEF ConnectionInv, StateTypeOK, ConnectionTypeOK, RequestRecords, RequestKinds
  <2>3. \A f \in Flows : exchanges[f] <= 1
    BY DEF ConnectionInv, StateTypeOK
  <2>4. {served, baseline} \subseteq confirmed \cup {Unbound}
    BY DEF ConnectionInv, RecordFact, Known
  <2>5. crossed \/ (connection.token = newest /\ connection.bound = chosen)
    BY DEF ConnectionInv, RecordFact, StateTypeOK
  <2> QED
    BY <2>2, <2>3, <2>4, <2>5 DEF ConnectionSafe
<1> QED
    BY <1>1, ConnectionInitInv, ConnectionNextKeepsInv, PTL DEF ConnectionSpec

-----------------------------------------------------------------------------
(***************************************************************************)
(* The PnL breaker.                                                        *)
(***************************************************************************)


\* A row that says daily_loss was written as such on the day it is dated.
RowWasWritten == breaker.reason = "daily_loss" => breaker.updated \in stopped

\* On a day whose stop was written and not resumed, the row still halts the
\* ledger: as today's stop, or as a divergence that took it over.
StopIsHeld ==
    \/ day \notin stopped
    \/ \E reason \in {"daily_loss", "pnl_divergence"} : <<reason, day>> \in overrides
    \/ breaker.reason = "pnl_divergence"
    \/ breaker.reason = "daily_loss" /\ breaker.updated = day

BreakerInv ==
    /\ BreakerTypeOK
    /\ OverrideSuppresses
    /\ OverrideNeedsStop
    /\ DailyStopHolds
    /\ RowWasWritten
    /\ StopIsHeld

----------------------------------------------------------------------------
\* An evaluation never triggers for a reason that is overridden today.
LEMMA TriggerIsFree ==
    ASSUME BreakerTypeOK, NEW reading, NEW maximum
    PROVE  /\ Trigger(reading, maximum) \in Outcome
           /\ <<Trigger(reading, maximum), day>> \notin overrides
<1>1. <<"none", day>> \notin overrides
  BY DEF BreakerTypeOK, Reasons
<1>2. Diverged(local[day], reading) => <<"pnl_divergence", day>> \notin overrides
  BY DEF Diverged, BreakerOverridden
<1>3. DailyLossHit(MoreLossMaking(local[day], reading), maximum)
          => <<"daily_loss", day>> \notin overrides
  BY DEF DailyLossHit, BreakerOverridden
<1>4. LossStreakHit(MoreLossMaking(local[day], reading))
          => <<"loss_streak", day>> \notin overrides
  BY DEF LossStreakHit, BreakerOverridden
<1>5. QED
  BY <1>1, <1>2, <1>3, <1>4, Zenon DEF Trigger, Outcome, Reasons

\* What the transition leaves in the row, from any trigger that is free today.
LEMMA TransitionIsSound ==
    ASSUME BreakerInv, NEW trigger \in Outcome, <<trigger, day>> \notin overrides
    PROVE  LET next == TransitionBreaker(trigger) IN
           /\ next \in [reason : Outcome, updated : 1 .. day]
           /\ <<next.reason, day>> \notin overrides
           /\ next # breaker => next.updated = day
           /\ breaker.reason = "pnl_divergence" => next.reason = "pnl_divergence"
           /\ (breaker.reason = "daily_loss" /\ breaker.updated = day)
                => next.reason = "pnl_divergence" \/ next = breaker
<1> DEFINE next == TransitionBreaker(trigger)
<1>1. breaker \in [reason : Outcome, updated : 1 .. day] /\ day \in 1 .. day
  BY BreakerBounds DEF BreakerInv, BreakerTypeOK, Days
<1>2. <<breaker.reason, day>> \notin overrides
  BY DEF BreakerInv, OverrideSuppresses
<1>3. Latched(trigger) \in Outcome /\ <<Latched(trigger), day>> \notin overrides
  BY <1>1, <1>2 DEF Latched
<1>4. breaker.reason = "pnl_divergence" => Latched(trigger) = "pnl_divergence"
  BY <1>2 DEF Latched, BreakerOverridden
<1>5. (breaker.reason = "daily_loss" /\ breaker.updated = day)
        => Latched(trigger) = "daily_loss" \/ Latched(trigger) = "pnl_divergence"
  BY <1>2 DEF Latched, BreakerOverridden, StopIsKept
<1>6. CASE breaker.reason = Latched(trigger)
  BY <1>1, <1>2, <1>6 DEF TransitionBreaker
<1>7. CASE breaker.reason # Latched(trigger)
  <2>1. next = [reason |-> Latched(trigger), updated |-> day]
    BY <1>7 DEF TransitionBreaker
  <2>2. QED
    BY <2>1, <1>1, <1>3, <1>4, <1>5, <1>7
<1>8. QED
  BY <1>6, <1>7

LEMMA EvaluateKeepsInv ==
    ASSUME BreakerInv, NEW reading \in Readings, NEW equity \in Equities,
           EvaluateDayRisk(reading, equity)
    PROVE  /\ BreakerInv'
           /\ breaker.reason = "pnl_divergence" => breaker' = breaker
<1> DEFINE trigger == Trigger(reading, DailyLossLimit(dayOpen'[day]))
<1>1. trigger \in Outcome /\ <<trigger, day>> \notin overrides
  BY TriggerIsFree DEF BreakerInv
<1>2. /\ breaker' \in [reason : Outcome, updated : 1 .. day]
      /\ <<breaker'.reason, day>> \notin overrides
      /\ breaker' # breaker => breaker'.updated = day
      /\ breaker.reason = "pnl_divergence" => breaker'.reason = "pnl_divergence"
      /\ (breaker.reason = "daily_loss" /\ breaker.updated = day)
            => breaker'.reason = "pnl_divergence" \/ breaker' = breaker
  <2>1. breaker' = TransitionBreaker(trigger)
    BY DEF EvaluateDayRisk
  <2> HIDE DEF trigger
  <2>2. QED
    BY <1>1, <2>1, TransitionIsSound
<1>3. breaker.reason = "pnl_divergence" => breaker' = breaker
  <2> SUFFICES ASSUME breaker.reason = "pnl_divergence" PROVE breaker' = breaker
    OBVIOUS
  <2>1. ~BreakerOverridden(breaker.reason)
    BY DEF BreakerInv, OverrideSuppresses, BreakerOverridden
  <2>2. Latched(trigger) = breaker.reason
    BY <2>1 DEF Latched
  <2>3. QED
    BY <2>2 DEF EvaluateDayRisk, TransitionBreaker
<1>4. day' = day /\ local' = local /\ overrides' = overrides
  BY DEF EvaluateDayRisk
<1>5. verdict' = [day |-> day, reason |-> breaker'.reason]
  BY DEF EvaluateDayRisk
<1>6. /\ tripped' \subseteq tripped \cup {day}
      /\ stopped \subseteq stopped' /\ stopped' \subseteq stopped \cup {day}
      /\ (breaker' # breaker /\ breaker'.reason = "daily_loss") => day \in stopped'
      /\ (stopped' # stopped) => (breaker' # breaker /\ breaker'.reason = "daily_loss")
  BY DEF EvaluateDayRisk
<1>7. day \in Days /\ day \in 1 .. day
  BY BreakerBounds DEF BreakerInv, BreakerTypeOK, Days
<1>8. dayOpen' \in [Days -> Int \cup {Unknown}]
  BY <1>7, BreakerBounds DEF EvaluateDayRisk, InsertDayOpen, BreakerInv, BreakerTypeOK
<1>9. provider' \in [Days -> Int \cup {Unknown}]
  BY <1>7, BreakerBounds DEF EvaluateDayRisk, PersistDailyPnL, BreakerInv, BreakerTypeOK
<1>10. BreakerTypeOK'
  <2>1. verdict' \in [day : 1 .. day, reason : Outcome]
    BY <1>2, <1>5, <1>7
  <2>2. tripped' \subseteq 1 .. day /\ stopped' \subseteq 1 .. day
    BY <1>6, <1>7 DEF BreakerInv, BreakerTypeOK
  <2>3. QED
    BY <1>2, <1>4, <1>7, <1>8, <1>9, <2>1, <2>2 DEF BreakerInv, BreakerTypeOK
<1>11. OverrideSuppresses'
  BY <1>2, <1>4 DEF OverrideSuppresses
<1>12. OverrideNeedsStop'
  BY <1>4, <1>6 DEF BreakerInv, OverrideNeedsStop
<1>13. RowWasWritten'
  BY <1>2, <1>6 DEF BreakerInv, RowWasWritten
<1>14. StopIsHeld'
  <2>1. CASE day \in stopped
    BY <2>1, <1>2, <1>4 DEF BreakerInv, StopIsHeld
  <2>2. CASE day \notin stopped
    BY <2>2, <1>2, <1>4, <1>6 DEF StopIsHeld
  <2>3. QED
    BY <2>1, <2>2
<1>15. DailyStopHolds'
  BY <1>4, <1>5, <1>14 DEF StopIsHeld, DailyStopHolds
<1>16. QED
  BY <1>3, <1>10, <1>11, <1>12, <1>13, <1>14, <1>15 DEF BreakerInv

LEMMA ResumeKeepsInv ==
    ASSUME BreakerInv, NEW reason \in Reasons, ResumeBreaker(reason)
    PROVE  BreakerInv'
<1>1. /\ day' = day /\ local' = local /\ dayOpen' = dayOpen /\ provider' = provider
      /\ tripped' = tripped /\ stopped' = stopped
      /\ overrides' = overrides \cup {<<reason, day>>}
      /\ breaker' = [reason |-> "none", updated |-> day]
      /\ verdict' = [day |-> day, reason |-> "none"]
      /\ breaker.reason = reason
      /\ reason = "daily_loss" => breaker.updated = day
  BY DEF ResumeBreaker, ResumeAllowed
<1>2. day \in Days /\ day \in 1 .. day
  BY BreakerBounds DEF BreakerInv, BreakerTypeOK, Days
<1>3. BreakerTypeOK'
  BY <1>1, <1>2 DEF BreakerInv, BreakerTypeOK, Outcome
<1>4. OverrideSuppresses'
  BY <1>1 DEF BreakerInv, BreakerTypeOK, OverrideSuppresses, Reasons
<1>5. OverrideNeedsStop'
  BY <1>1 DEF BreakerInv, OverrideNeedsStop, RowWasWritten
<1>6. RowWasWritten'
  BY <1>1 DEF RowWasWritten
<1>7. StopIsHeld'
  BY <1>1 DEF BreakerInv, StopIsHeld, Reasons
<1>8. DailyStopHolds'
  BY <1>1, <1>7 DEF StopIsHeld, DailyStopHolds
<1>9. QED
  BY <1>3, <1>4, <1>5, <1>6, <1>7, <1>8 DEF BreakerInv

LEMMA MidnightKeepsInv ==
    ASSUME BreakerInv, Midnight
    PROVE  BreakerInv'
<1>1. /\ day' = day + 1 /\ day < MaxDay
      /\ UNCHANGED <<local, dayOpen, provider, breaker, overrides, verdict, tripped, stopped>>
  BY DEF Midnight
<1>2. day \in Days /\ day' \in Days /\ day' \notin 1 .. day /\ 1 .. day \subseteq 1 .. day'
  BY <1>1, BreakerBounds DEF BreakerInv, BreakerTypeOK, Days
<1>3. BreakerTypeOK'
  BY <1>1, <1>2 DEF BreakerInv, BreakerTypeOK
<1>4. OverrideSuppresses' /\ StopIsHeld'
  BY <1>1, <1>2 DEF BreakerInv, BreakerTypeOK, OverrideSuppresses, StopIsHeld
<1>5. OverrideNeedsStop' /\ DailyStopHolds' /\ RowWasWritten'
  BY <1>1 DEF BreakerInv, OverrideNeedsStop, DailyStopHolds, RowWasWritten
<1>6. QED
  BY <1>3, <1>4, <1>5 DEF BreakerInv

LEMMA ImportKeepsInv ==
    ASSUME BreakerInv, NEW d \in Days, NEW delta \in Deltas, ImportCloseFill(d, delta)
    PROVE  BreakerInv'
<1>1. local' \in [Days -> Int]
  BY BreakerBounds DEF BreakerInv, BreakerTypeOK, ImportCloseFill
<1>2. UNCHANGED <<day, dayOpen, provider, breaker, overrides, verdict, tripped, stopped>>
  BY DEF ImportCloseFill
<1>3. QED
  BY <1>1, <1>2 DEF BreakerInv, BreakerTypeOK, OverrideSuppresses, OverrideNeedsStop,
                    DailyStopHolds, RowWasWritten, StopIsHeld

LEMMA InitHoldsInv == BreakerInit => BreakerInv
<1> SUFFICES ASSUME BreakerInit PROVE BreakerInv
  OBVIOUS
<1>1. 1 \in Days
  BY BreakerBounds DEF Days
<1>2. BreakerTypeOK
  BY <1>1 DEF BreakerInit, BreakerTypeOK, Outcome
<1>3. QED
  BY <1>2 DEF BreakerInit, BreakerInv, OverrideSuppresses, OverrideNeedsStop,
              DailyStopHolds, RowWasWritten, StopIsHeld

LEMMA StepKeepsBreakerInv == BreakerInv /\ [BreakerNext]_vars => BreakerInv'
<1> SUFFICES ASSUME BreakerInv, [BreakerNext]_vars PROVE BreakerInv'
  OBVIOUS
<1>1. CASE UNCHANGED vars
  BY <1>1 DEF vars, BreakerInv, BreakerTypeOK, OverrideSuppresses, OverrideNeedsStop,
              DailyStopHolds, RowWasWritten, StopIsHeld
<1>2. CASE BreakerNext
  BY <1>2, EvaluateKeepsInv, ResumeKeepsInv, MidnightKeepsInv, ImportKeepsInv DEF BreakerNext
<1>3. QED
  BY <1>1, <1>2

LEMMA BreakerInvHolds == BreakerSpec => []BreakerInv
  BY InitHoldsInv, StepKeepsBreakerInv, PTL DEF BreakerSpec

----------------------------------------------------------------------------
\* The rows of the breaker keep their types and no row is dated in the future.
THEOREM BreakerTypeCorrect == BreakerSpec => []BreakerTypeOK
<1>1. BreakerInv => BreakerTypeOK
  BY DEF BreakerInv
<1>2. QED
  BY <1>1, BreakerInvHolds, PTL

\* An override lasts its whole day, whatever is evaluated after it.
THEOREM ResumeSuppresses == BreakerSpec => []OverrideSuppresses
<1>1. BreakerInv => OverrideSuppresses
  BY DEF BreakerInv
<1>2. QED
  BY <1>1, BreakerInvHolds, PTL

\* No daily stop is overridden before it is written.
THEOREM NoAdvanceOverride == BreakerSpec => []OverrideNeedsStop
<1>1. BreakerInv => OverrideNeedsStop
  BY DEF BreakerInv
<1>2. QED
  BY <1>1, BreakerInvHolds, PTL

\* A written daily stop ends before midnight only by an administrator.
THEOREM StopNeedsAdministrator == BreakerSpec => []DailyStopHolds
<1>1. BreakerInv => DailyStopHolds
  BY DEF BreakerInv
<1>2. QED
  BY <1>1, BreakerInvHolds, PTL

\* All the state properties of the breaker hold together.
THEOREM BreakerIsSafe == BreakerSpec => []BreakerSafe
<1>1. BreakerInv => BreakerSafe
  BY DEF BreakerInv, BreakerSafe
<1>2. QED
  BY <1>1, BreakerInvHolds, PTL

\* A divergence leaves the row only when it is resumed.
LEMMA DivergenceStep == BreakerInv /\ [BreakerNext]_vars => [DivergenceKept]_vars
  <1> SUFFICES ASSUME BreakerInv, BreakerNext, breaker.reason = "pnl_divergence",
                      breaker' # breaker
               PROVE  <<"pnl_divergence", day'>> \in overrides'
    BY DEF vars, DivergenceKept
  <1>1. PICK reason \in Reasons : ResumeBreaker(reason)
    BY EvaluateKeepsInv DEF BreakerNext, ImportCloseFill, Midnight
  <1>2. QED
    BY <1>1 DEF ResumeBreaker, ResumeAllowed

\* A divergence leaves the row only in the step that records its override.
THEOREM DivergenceNeedsAdministrator == BreakerSpec => DivergenceIsLatched
<1>1. QED
  BY DivergenceStep, BreakerInvHolds, PTL DEF BreakerSpec, DivergenceIsLatched

----------------------------------------------------------------------------
(* The losing streak                                                       *)

OpenedAfter(d) == {e \in d + 1 .. day - 1 : dayOpen[e] # Unknown}

\* A set of days before today that is not empty has a last one.
LEMMA LastDay ==
    ASSUME BreakerTypeOK, NEW B \in SUBSET (1 .. day - 1), B # {}
    PROVE  \E m \in B : \A e \in B : e <= m
<1>1. PICK D : D = {n \in Nat : day - n \in B}
  OBVIOUS
<1>2. day \in Nat
  BY BreakerBounds DEF BreakerTypeOK, Days
<1>3. ASSUME NEW e \in B PROVE e \in Nat /\ e < day /\ day - e \in D
  <2>1. e \in Nat /\ e < day
    BY <1>2
  <2>2. day - e \in Nat /\ day - (day - e) = e
    BY <1>2, <2>1
  <2>3. QED
    BY <1>1, <2>1, <2>2
<1>4. D \subseteq Nat /\ D # {}
  BY <1>1, <1>3
<1>5. PICK n \in D : \A k \in D : ~(<<k, n>> \in OpToRel(<, Nat))
  BY <1>4, WFMin, NatLessThanWellFounded
<1>6. ASSUME NEW e \in B PROVE e <= day - n
  <2>1. day - e \in D /\ e \in Nat /\ e < day
    BY <1>3
  <2>2. ~(day - e < n)
    BY <1>4, <1>5, <2>1 DEF OpToRel
  <2>3. \A a, b, c \in Nat : b < a /\ ~(a - b < c) => b <= a - c
    OBVIOUS
  <2>4. QED
    BY <1>2, <1>4, <2>1, <2>2, <2>3
<1>7. QED
  BY <1>1, <1>5, <1>6

\* The days the streak query returns either hold every opened day from f on, or they
\* are the last ConsecutiveLossDaysHalt of them.
LEMMA RecentIsEnough ==
    ASSUME BreakerTypeOK, NEW f \in 1 .. day - 1, dayOpen[f] # Unknown
    PROVE  \/ \A e \in f .. day - 1 : dayOpen[e] # Unknown => e \in RecentDays(ConsecutiveLossDaysHalt)
           \/ \E m \in f .. day - 1 :
                /\ OpenedAfter(m) \subseteq RecentDays(ConsecutiveLossDaysHalt)
                /\ ~(Cardinality(OpenedAfter(m)) < ConsecutiveLossDaysHalt)
<1>1. PICK B : B = {e \in f .. day - 1 : dayOpen[e] # Unknown /\ e \notin RecentDays(ConsecutiveLossDaysHalt)}
  OBVIOUS
<1>2. day \in Nat /\ f \in Nat /\ f >= 1
  BY BreakerBounds DEF BreakerTypeOK, Days
<1>3. CASE B = {}
  BY <1>1, <1>3
<1>4. CASE B # {}
  <2>1. B \subseteq 1 .. day - 1
    BY <1>1, <1>2
  <2>2. PICK m \in B : \A e \in B : e <= m
    BY <1>4, <2>1, LastDay
  <2>3. m \in f .. day - 1 /\ m \in 1 .. day - 1 /\ dayOpen[m] # Unknown
        /\ m \notin RecentDays(ConsecutiveLossDaysHalt)
    BY <1>1, <2>1
  <2>4. ~(Cardinality(OpenedAfter(m)) < ConsecutiveLossDaysHalt)
    BY <2>3 DEF RecentDays, OpenedAfter
  <2>5. ASSUME NEW e \in OpenedAfter(m) PROVE e \in RecentDays(ConsecutiveLossDaysHalt)
    <3>1. e \in m + 1 .. day - 1 /\ dayOpen[e] # Unknown
      BY DEF OpenedAfter
    <3>2. m \in Nat /\ f <= m
      BY <1>2, <2>3
    <3>3. e \in f .. day - 1 /\ ~(e <= m)
      BY <1>2, <3>1, <3>2
    <3>4. e \notin B
      BY <2>2, <3>3
    <3>5. QED
      BY <1>1, <3>1, <3>3, <3>4
  <2>6. QED
    BY <2>3, <2>4, <2>5
<1>5. QED
  BY <1>3, <1>4

\* A losing run is seen by the count.
LEMMA RunIsCounted ==
    ASSUME BreakerTypeOK, NEW reading \in Int \cup {Unknown}, LosingRun(reading)
    PROVE  /\ ConsecutiveLossDaysHalt > 0
           /\ ConsecutiveLossDays(MoreLossMaking(local[day], reading)) >= ConsecutiveLossDaysHalt
<1>1. PICK today : today = MoreLossMaking(local[day], reading)
  OBVIOUS
<1>2. PICK past : past = {d \in 1 .. day - 1 : dayOpen[d] # Unknown /\ EffectivePast(d) < 0}
  OBVIOUS
<1>3. PICK run \in SUBSET (past \cup (IF today < 0 THEN {day} ELSE {})) :
        /\ run # {} /\ Cardinality(run) = ConsecutiveLossDaysHalt
        /\ \A f \in run : \A d \in f .. day - 1 :
             dayOpen[d] # Unknown => d \in past \cup (IF today < 0 THEN {day} ELSE {})
  BY <1>1, <1>2 DEF LosingRun
<1>4. PICK recent : recent = RecentDays(ConsecutiveLossDaysHalt)
  OBVIOUS
<1>5. PICK losing : losing = {d \in recent : \A e \in recent : e >= d => EffectivePast(e) < 0}
  OBVIOUS
<1>6. day \in Nat /\ day \in Days /\ today \in Int /\ today <= 0
  BY <1>1, BreakerBounds DEF BreakerTypeOK, Days, LosingRun, MoreLossMaking
<1>7. IsFiniteSet(1 .. day - 1)
  BY <1>6, FS_Interval
<1>8. recent \subseteq 1 .. day - 1 /\ losing \subseteq 1 .. day - 1 /\ past \subseteq 1 .. day - 1
  BY <1>2, <1>4, <1>5 DEF RecentDays
<1>9. IsFiniteSet(losing) /\ IsFiniteSet(past) /\ Cardinality(losing) \in Nat
  BY <1>7, <1>8, FS_Subset, FS_CardinalityType
<1>10. IsFiniteSet(run)
  <2>1. IsFiniteSet(past \cup {day}) /\ run \subseteq past \cup {day}
    BY <1>3, <1>9, FS_AddElement
  <2>2. QED
    BY <2>1, FS_Subset
<1>11. ConsecutiveLossDaysHalt \in Nat /\ ConsecutiveLossDaysHalt > 0
  BY <1>3, <1>10, FS_EmptySet, FS_CardinalityType, BreakerLimits
<1>12. PICK P : P = run \ {day}
  OBVIOUS
<1>13. IsFiniteSet(P) /\ Cardinality(P) = IF day \in run THEN ConsecutiveLossDaysHalt - 1
                                            ELSE ConsecutiveLossDaysHalt
  BY <1>3, <1>10, <1>12, FS_RemoveElement
<1>14. day \notin 1 .. day - 1
  BY <1>6
<1>15. day \in run => today < 0
  BY <1>3, <1>8, <1>14
<1>16. ASSUME NEW f \in P
       PROVE  /\ f \in past /\ f \in 1 .. day - 1 /\ dayOpen[f] # Unknown
              /\ \A d \in f .. day - 1 : dayOpen[d] # Unknown => EffectivePast(d) < 0
  <2>1. f \in past /\ f \in 1 .. day - 1
    BY <1>3, <1>8, <1>12
  <2>2. ASSUME NEW d \in f .. day - 1, dayOpen[d] # Unknown PROVE EffectivePast(d) < 0
    <3>1. d # day
      BY <1>6
    <3>2. d \in past
      BY <1>3, <1>12, <2>2, <3>1
    <3>3. QED
      BY <1>2, <3>2
  <2>3. QED
    BY <1>2, <2>1, <2>2
<1>17. Cardinality(P) <= Cardinality(losing)
  <2>1. CASE P \subseteq recent
    <3>1. ASSUME NEW f \in P, NEW e \in recent, e >= f PROVE EffectivePast(e) < 0
      <4>1. e \in 1 .. day - 1 /\ dayOpen[e] # Unknown
        BY <1>4 DEF RecentDays
      <4>2. e \in f .. day - 1
        BY <1>6, <1>16, <3>1, <4>1
      <4>3. QED
        BY <1>16, <4>1, <4>2
    <3>2. P \subseteq losing
      BY <1>5, <2>1, <3>1
    <3>3. QED
      BY <1>9, <3>2, FS_Subset
  <2>2. ASSUME NEW f \in P, f \notin recent PROVE Cardinality(P) <= Cardinality(losing)
    <3>1. f \in 1 .. day - 1 /\ f \in f .. day - 1 /\ dayOpen[f] # Unknown
      BY <1>6, <1>16
    <3>2. PICK m \in f .. day - 1 :
            OpenedAfter(m) \subseteq recent /\ ~(Cardinality(OpenedAfter(m)) < ConsecutiveLossDaysHalt)
      BY <1>4, <2>2, <3>1, RecentIsEnough
    <3>3. f \in Nat /\ m \in Nat /\ f <= m
      BY <1>6, <3>1
    <3>4. ASSUME NEW d \in OpenedAfter(m), NEW e \in recent, e >= d PROVE EffectivePast(e) < 0
      <4>1. e \in 1 .. day - 1 /\ dayOpen[e] # Unknown
        BY <1>4 DEF RecentDays
      <4>2. d \in m + 1 .. day - 1
        BY DEF OpenedAfter
      <4>3. e \in f .. day - 1
        BY <1>6, <3>3, <3>4, <4>1, <4>2
      <4>4. QED
        BY <1>16, <4>1, <4>3
    <3>5. OpenedAfter(m) \subseteq losing
      BY <1>5, <3>2, <3>4
    <3>6. /\ Cardinality(OpenedAfter(m)) <= Cardinality(losing)
          /\ Cardinality(OpenedAfter(m)) \in Nat /\ Cardinality(P) \in Nat
      BY <1>9, <1>13, <3>5, FS_Subset, FS_CardinalityType
    <3>7. \A a, b, c \in Nat : ~(a < b) /\ a <= c => b <= c /\ b - 1 <= c
      OBVIOUS
    <3>8. QED
      BY <1>9, <1>11, <1>13, <3>2, <3>6, <3>7
  <2>3. QED
    BY <2>1, <2>2
<1>18. ConsecutiveLossDays(today) = (IF today < 0 THEN 1 ELSE 0) + Cardinality(losing)
  <2>1. ~(ConsecutiveLossDaysHalt = 0 \/ today > 0)
    BY <1>6, <1>11
  <2>2. QED
    BY <1>4, <1>5, <2>1 DEF ConsecutiveLossDays
<1>19. (IF today < 0 THEN 1 ELSE 0) + Cardinality(losing) >= ConsecutiveLossDaysHalt
  <2>1. \A a, b \in Nat : /\ a > 0 /\ a - 1 <= b => 1 + b >= a
                          /\ a <= b => 1 + b >= a /\ 0 + b >= a
    OBVIOUS
  <2>2. CASE day \in run
    BY <1>9, <1>11, <1>13, <1>15, <1>17, <2>1, <2>2
  <2>3. CASE day \notin run
    BY <1>9, <1>11, <1>13, <1>17, <2>1, <2>3
  <2>4. QED
    BY <2>2, <2>3
<1>20. QED
  BY <1>1, <1>11, <1>18, <1>19

\* An evaluation that counts a streak leaves the ledger halted.
LEMMA StreakHalts ==
    ASSUME BreakerTypeOK, NEW reading \in Readings, NEW equity \in Equities,
           EvaluateDayRisk(reading, equity), LosingRun(reading), ~BreakerOverridden("loss_streak")
    PROVE  breaker'.reason # "none"
<1>1. PICK maximum : maximum = DailyLossLimit(dayOpen'[day])
  OBVIOUS
<1>2. LossStreakHit(MoreLossMaking(local[day], reading))
  BY RunIsCounted, BreakerBounds DEF LossStreakHit
<1>3. Trigger(reading, maximum) # "none"
  BY <1>2 DEF Trigger
<1>4. PICK trigger : trigger = Trigger(reading, maximum) /\ trigger # "none"
  BY <1>3
<1>5. breaker' = TransitionBreaker(trigger)
  BY <1>1, <1>4 DEF EvaluateDayRisk
<1>6. Latched(trigger) # "none"
  BY <1>4 DEF Latched, StopIsKept
<1>7. QED
  BY <1>5, <1>6 DEF TransitionBreaker

\* Whatever the limits, the readings and the gaps between market days: a divergence
\* stays until an administrator overrides it, and a losing run of the configured
\* length halts the ledger whenever it is evaluated (EvaluateDayRisk).
THEOREM StopsAlwaysHold == BreakerSpec => StopsHold
<1>1. BreakerInv /\ [BreakerNext]_vars => [DivergenceKept]_vars
  BY DivergenceStep
<1>2. BreakerInv => [StreakStops]_vars
  BY StreakHalts DEF BreakerInv, StreakStops
<1>3. BreakerInv /\ [BreakerNext]_vars => [DivergenceKept /\ StreakStops]_vars
  BY <1>1, <1>2
<1>4. QED
  BY <1>3, BreakerInvHolds, PTL DEF BreakerSpec, StopsHold

-----------------------------------------------------------------------------
(* The price walk                                                          *)

Sane(i) == i \in [tick : Nat, below : Nat, cutoff : Nat] /\ PrecisionSane(i)

\* The tick of a price is positive.
LEMMA TickPositive ==
    ASSUME NEW i, Sane(i), NEW p \in Nat
    PROVE  TickForPrice(i, p) \in Nat \ {0}
  BY DEF Sane, PrecisionSane, TickForPrice

\* A remainder is a natural number below its divisor.
LEMMA Remainder ==
    ASSUME NEW v \in Nat, NEW t \in Nat \ {0}
    PROVE  v % t \in 0..(t - 1) /\ v % t <= v
  OBVIOUS

\* Rounding down gives no price or a supported one that is not above the input.
LEMMA FloorIsBelow ==
    ASSUME NEW i, Sane(i), NEW v \in Nat
    PROVE  /\ FloorPrice(i, v) \in 0..v
           /\ FloorPrice(i, v) # Error => SupportsPrice(i, FloorPrice(i, v))
  <1> DEFINE t == TickForPrice(i, v)
             f == FloorPriceToTick(v, t)
  <1>1. t \in Nat \ {0}
    BY TickPositive
  <1> HIDE DEF t
  <1>r. v % t \in 0..(t - 1) /\ v % t <= v
    BY <1>1, Remainder
  <1>2. f \in 0..v
    BY <1>1, <1>r DEF FloorPriceToTick
  <1> HIDE DEF f
  <1>3. FloorPrice(i, v) = IF SupportsPrice(i, f) THEN f ELSE Error
    BY DEF FloorPrice, f, t
  <1> QED
    BY <1>2, <1>3 DEF Error

\* Rounding up gives no price or a supported one that is not below the input.
LEMMA CeilIsAbove ==
    ASSUME NEW i, Sane(i), NEW v \in 0..MaxMicros
    PROVE  CeilPrice(i, v) # Error =>
             /\ CeilPrice(i, v) \in Prices /\ CeilPrice(i, v) >= v
             /\ SupportsPrice(i, CeilPrice(i, v))
  <1> DEFINE t == TickForPrice(i, v)
             c == CeilPriceToTick(v, t)
  <1>0. v \in Nat /\ MaxMicros \in Nat
    BY MaxMicrosAssumption
  <1>1. t \in Nat \ {0}
    BY <1>0, TickPositive
  <1> HIDE DEF t
  <1>r. v % t \in 0..(t - 1) /\ v % t <= v
    BY <1>0, <1>1, Remainder
  <1>2. c \in Nat /\ (c # Error => c >= v /\ c <= MaxMicros)
    BY <1>0, <1>1, <1>r DEF CeilPriceToTick, Error
  <1> HIDE DEF c
  <1>3. CeilPrice(i, v) = IF SupportsPrice(i, c) THEN c ELSE Error
    BY DEF CeilPrice, c, t
  <1> QED
    BY <1>0, <1>2, <1>3 DEF Error, Prices

\* Half of a distance, rounded up, is at most the distance.
LEMMA HalfIsLess ==
    ASSUME NEW d \in Nat
    PROVE  HalfUp(d) \in 0..d
  BY DEF HalfUp

\* A replacement of a buy is no price at all, or a supported one up to the cap.
LEMMA NextBuyIsCapped ==
    ASSUME NEW i, Sane(i), NEW previous \in Prices, NEW ask \in Prices, NEW cap \in Prices,
           NextBuyLimit(previous, ask, cap, i) # Error
    PROVE  /\ NextBuyLimit(previous, ask, cap, i) \in Prices
           /\ NextBuyLimit(previous, ask, cap, i) <= cap
           /\ SupportsPrice(i, NextBuyLimit(previous, ask, cap, i))
  <1> DEFINE a == CeilPrice(i, ask)
             f == FloorPrice(i, cap)
             target == BuyTarget(ask, cap, i)
             mid == previous + HalfUp(target - previous)
             next == CeilPrice(i, mid)
             result == NextBuyLimit(previous, ask, cap, i)
  <1>0. /\ MaxMicros \in Nat /\ ask \in 0..MaxMicros /\ cap \in Nat
        /\ previous \in Nat /\ previous <= MaxMicros /\ cap <= MaxMicros
    BY MaxMicrosAssumption DEF Prices
  <1>1. target = IF a = Error \/ f = Error THEN Error ELSE Lesser(a, f)
    BY DEF BuyTarget
  <1>2. result = IF target = Error THEN Error
                 ELSE IF target <= previous THEN target
                 ELSE IF next = Error THEN Error ELSE Lesser(next, target)
    BY DEF NextBuyLimit
  <1>3. a # Error => a \in Prices /\ SupportsPrice(i, a)
    BY <1>0, CeilIsAbove
  <1>4. f \in 0..cap /\ (f # Error => SupportsPrice(i, f))
    BY <1>0, FloorIsBelow
  <1> HIDE DEF a, f
  <1>5. target # Error /\ result # Error
    BY <1>2 DEF result
  <1>6. target \in Prices /\ target <= cap /\ SupportsPrice(i, target)
    BY <1>0, <1>1, <1>3, <1>4, <1>5 DEF Lesser, Prices, Error
  <1> HIDE DEF target
  <1>7. CASE target <= previous
    BY <1>2, <1>5, <1>6, <1>7 DEF result
  <1>8. CASE ~(target <= previous)
    <2>1. target \in Nat /\ target <= MaxMicros /\ target - previous \in Nat
      BY <1>0, <1>6, <1>8 DEF Prices
    <2>2. HalfUp(target - previous) \in 0..(target - previous)
      BY <2>1, HalfIsLess
    <2>3. mid \in 0..MaxMicros
      BY <1>0, <2>1, <2>2
    <2> HIDE DEF mid
    <2>4. next # Error => next \in Prices /\ SupportsPrice(i, next)
      BY <2>3, CeilIsAbove
    <2> HIDE DEF next
    <2>5. next # Error /\ result = Lesser(next, target)
      BY <1>2, <1>5, <1>8
    <2> HIDE DEF result
    <2>6. result \in {next, target} /\ result <= target
      BY <1>0, <2>1, <2>4, <2>5 DEF Lesser, Prices
    <2>7. result \in Prices /\ result <= cap /\ SupportsPrice(i, result)
      BY <1>0, <1>6, <2>1, <2>4, <2>5, <2>6 DEF Prices
    <2> QED
      BY <2>7 DEF result
  <1> QED
    BY <1>7, <1>8

\* A replacement of a sell is no price at all, or a supported one from the minimum up.
LEMMA NextSellIsFloored ==
    ASSUME NEW i, Sane(i), NEW previous \in Prices, NEW bid \in Prices, NEW minimum \in Prices,
           NextSellLimit(previous, bid, minimum, i) # Error
    PROVE  /\ NextSellLimit(previous, bid, minimum, i) \in Prices
           /\ NextSellLimit(previous, bid, minimum, i) >= minimum
           /\ SupportsPrice(i, NextSellLimit(previous, bid, minimum, i))
  <1> DEFINE b == FloorPrice(i, bid)
             m == CeilPrice(i, minimum)
             target == SellTarget(bid, minimum, i)
             mid == previous - HalfUp(previous - target)
             next == FloorPrice(i, mid)
             result == NextSellLimit(previous, bid, minimum, i)
  <1>0. /\ MaxMicros \in Nat /\ minimum \in 0..MaxMicros /\ minimum \in Nat \ {0}
        /\ bid \in Nat /\ bid <= MaxMicros
        /\ previous \in Nat /\ previous <= MaxMicros
    BY MaxMicrosAssumption DEF Prices
  <1>1. target = IF m = Error THEN Error ELSE Greater(b, m)
    BY DEF SellTarget
  <1>2. result = IF target = Error THEN Error
                 ELSE IF target >= previous THEN target ELSE Greater(next, target)
    BY DEF NextSellLimit
  <1>3. m # Error => m \in Prices /\ m >= minimum /\ SupportsPrice(i, m)
    BY <1>0, CeilIsAbove
  <1>4. b \in 0..bid /\ (b # Error => SupportsPrice(i, b))
    BY <1>0, FloorIsBelow
  <1> HIDE DEF b, m
  <1>5. target # Error /\ result # Error
    BY <1>2 DEF result
  <1>6. target \in Prices /\ target >= minimum /\ SupportsPrice(i, target)
    BY <1>0, <1>1, <1>3, <1>4, <1>5 DEF Greater, Prices, Error
  <1> HIDE DEF target
  <1>7. CASE target >= previous
    BY <1>2, <1>5, <1>6, <1>7 DEF result
  <1>8. CASE ~(target >= previous)
    <2>1. target \in Nat /\ previous - target \in Nat
      BY <1>0, <1>6, <1>8 DEF Prices
    <2>2. HalfUp(previous - target) \in 0..(previous - target)
      BY <2>1, HalfIsLess
    <2>3. mid \in Nat /\ mid <= MaxMicros
      BY <1>0, <2>1, <2>2
    <2> HIDE DEF mid
    <2>4. next \in 0..mid /\ (next # Error => SupportsPrice(i, next))
      BY <2>3, FloorIsBelow
    <2> HIDE DEF next
    <2>5. result = Greater(next, target)
      BY <1>2, <1>5, <1>8
    <2> HIDE DEF result
    <2>6. result \in {next, target} /\ result >= target /\ result <= MaxMicros
      BY <1>0, <1>6, <2>1, <2>3, <2>4, <2>5 DEF Greater, Prices
    <2>7. result \in Prices /\ result >= minimum /\ SupportsPrice(i, result)
      BY <1>0, <1>5, <1>6, <2>1, <2>3, <2>4, <2>6 DEF Prices, Error
    <2> QED
      BY <2>7 DEF result
  <1> QED
    BY <1>7, <1>8

-----------------------------------------------------------------------------
\* What PricingSpec maintains: prices of the instrument, inside the bound.
PricingInv == PricingTypeOK /\ NeverCrossesBound

LEMMA StepKeepsInv ==
    ASSUME PricingInv, [PricingNext]_pricingVars
    PROVE  PricingInv'
  <1> USE DEF PricingInv, PricingTypeOK, NeverCrossesBound, InBound
  <1>i. Sane(inst)
    BY InstrumentsAssumption DEF Sane
  <1>1. CASE QuoteMoves
    BY <1>1 DEF QuoteMoves
  <1>2. CASE RepriceStep
    <2>0. /\ limit' = NextLimit /\ NextLimit # Error
          /\ side' = side /\ inst' = inst /\ bound' = bound /\ market' = market
      BY <1>2 DEF RepriceStep
    <2>1. CASE side = "buy"
      <3>1. NextLimit = NextBuyLimit(limit, market, bound, inst)
        BY <2>1 DEF NextLimit
      <3>2. limit' \in Prices /\ limit' <= bound /\ SupportsPrice(inst, limit')
        BY <1>i, <2>0, <3>1, NextBuyIsCapped
      <3> QED
        BY <2>0, <2>1, <3>2
    <2>2. CASE side = "sell"
      <3>1. NextLimit = NextSellLimit(limit, market, bound, inst)
        BY <2>2 DEF NextLimit
      <3>2. limit' \in Prices /\ limit' >= bound /\ SupportsPrice(inst, limit')
        BY <1>i, <2>0, <3>1, NextSellIsFloored
      <3> QED
        BY <2>0, <2>2, <3>2
    <2> QED
      BY <2>1, <2>2
  <1>3. CASE UNCHANGED pricingVars
    BY <1>3 DEF pricingVars
  <1> QED
    BY <1>1, <1>2, <1>3 DEF PricingNext

\* For every tick schedule and every sequence of quotes, the limit of a managed
\* order stands on its instrument's tick (SupportsPrice).
THEOREM PricesStaySupported == PricingSpec => []PricingTypeOK
  <1>1. PricingInit => PricingInv
    BY DEF PricingInit, PricingInv, PricingTypeOK, NeverCrossesBound
  <1>2. PricingInv /\ [PricingNext]_pricingVars => PricingInv'
    BY StepKeepsInv
  <1>3. PricingInv => PricingTypeOK
    BY DEF PricingInv
  <1> QED
    BY <1>1, <1>2, <1>3, PTL DEF PricingSpec

\* For every tick schedule and every sequence of quotes, no replacement crosses
\* the bound the operation was approved with (nextBoundedBuyLimitForInstrument,
\* nextBoundedSellLimitForInstrument).
THEOREM BoundIsNeverCrossed == PricingSpec => []NeverCrossesBound
  <1>1. PricingInit => PricingInv
    BY DEF PricingInit, PricingInv, PricingTypeOK, NeverCrossesBound
  <1>2. PricingInv /\ [PricingNext]_pricingVars => PricingInv'
    BY StepKeepsInv
  <1>3. PricingInv => NeverCrossesBound
    BY DEF PricingInv
  <1> QED
    BY <1>1, <1>2, <1>3, PTL DEF PricingSpec

\* Ticks and bound together, for every tick schedule and every sequence of quotes
\* (boundedReplacementLimit).
THEOREM PricingIsSafe == PricingSpec => []PricingSafe
  <1>1. PricingTypeOK /\ NeverCrossesBound => PricingSafe
    BY DEF PricingSafe
  <1> QED
    BY <1>1, PricesStaySupported, BoundIsNeverCrossed, PTL

-----------------------------------------------------------------------------
(* The walk covers half of the way, and does not stick                     *)

\* Arithmetic of ticks: a price is a number of ticks and a remainder.
LEMMA Division ==
    ASSUME NEW v \in Nat, NEW t \in Nat \ {0}
    PROVE  v \div t \in Nat /\ v = t * (v \div t) + (v % t)
  OBVIOUS

LEMMA Quotient ==
    ASSUME NEW v \in Nat, NEW t \in Nat \ {0}
    PROVE  \E q \in Nat : v = t * q + (v % t)
  BY Division

LEMMA Divided ==
    ASSUME NEW v \in Nat, NEW t \in Nat \ {0}, v % t = 0
    PROVE  \E q \in Nat : v = t * q
  <1>1. PICK q \in Nat : v = t * q + (v % t)
    BY Quotient
  <1>2. t * q \in Nat
    OBVIOUS
  <1>3. v = t * q
    BY <1>1, <1>2
  <1> QED
    BY <1>3

\* A multiple of the tick has no remainder.
LEMMA MultipleHasNone ==
    ASSUME NEW q \in Nat, NEW t \in Nat \ {0}
    PROVE  (t * q) % t = 0
  OBVIOUS

LEMMA TimesMonotone ==
    ASSUME NEW t \in Nat, NEW p \in Nat, NEW q \in Nat, p < q
    PROVE  t * p + t <= t * q
  <1>1. PICK d \in Nat : q = p + 1 + d
    <2>1. q - p - 1 \in Nat /\ q = p + 1 + (q - p - 1)
      OBVIOUS
    <2> QED
      BY <2>1
  <1>2. t * q = t * p + t + t * d /\ t * d \in Nat /\ t * p \in Nat
    BY <1>1
  <1> QED
    BY <1>2

\* A multiple of a multiple is a multiple.
LEMMA MultipleOfMultiple ==
    ASSUME NEW a \in Nat, NEW b \in Nat \ {0}, NEW c \in Nat \ {0}, a % b = 0, b % c = 0
    PROVE  a % c = 0
  <1>1. PICK p \in Nat : a = b * p
    BY Divided
  <1>2. PICK q \in Nat : b = c * q
    BY Divided
  <1>3. a = c * (q * p) /\ q * p \in Nat
    BY <1>1, <1>2
  <1> QED
    BY <1>3, MultipleHasNone

\* Rounding up stands on the tick and does not pass a price on the tick.
LEMMA CeilStaysBelow ==
    ASSUME NEW v \in Nat, NEW t \in Nat \ {0}, NEW w \in Nat, v <= w, w % t = 0, v % t # 0
    PROVE  v + (t - (v % t)) <= w /\ (v + (t - (v % t))) % t = 0
  <1>1. PICK q \in Nat : v = t * q + (v % t)
    BY Quotient
  <1>2. PICK k \in Nat : w = t * k
    BY Divided
  <1>3. PICK r \in 1..(t - 1) : r = v % t
    BY Remainder
  <1>4. q < k
    <2>1. CASE k < q
      <3>1. t * k + t <= t * q
        BY <2>1, TimesMonotone
      <3>2. t * q \in Nat /\ t * k \in Nat
        OBVIOUS
      <3> QED
        BY <1>1, <1>2, <1>3, <3>1, <3>2
    <2>2. CASE k = q
      <3>1. t * q \in Nat
        OBVIOUS
      <3> QED
        BY <1>1, <1>2, <1>3, <2>2, <3>1
    <2> QED
      BY <2>1, <2>2
  <1>5. t * q + t <= t * k
    BY <1>4, TimesMonotone
  <1>6. v + (t - r) = t * (q + 1) /\ v + (t - r) = t * q + t
    BY <1>1, <1>3
  <1>7. (t * (q + 1)) % t = 0
    BY MultipleHasNone
  <1> QED
    BY <1>2, <1>3, <1>5, <1>6, <1>7

-----------------------------------------------------------------------------
(* How far a step goes                                                     *)

\* A price of the instrument is its own rounding.
LEMMA SupportedIsFixed ==
    ASSUME NEW i, Sane(i), NEW v \in Prices, SupportsPrice(i, v)
    PROVE  CeilPrice(i, v) = v /\ FloorPrice(i, v) = v
  <1>1. v \in Nat
    BY MaxMicrosAssumption DEF Prices
  <1>2. v % TickForPrice(i, v) = 0
    BY DEF SupportsPrice
  <1>3. CeilPriceToTick(v, TickForPrice(i, v)) = v
    BY <1>2 DEF CeilPriceToTick
  <1>4. FloorPriceToTick(v, TickForPrice(i, v)) = v
    BY <1>1, <1>2 DEF FloorPriceToTick
  <1>5. CeilPrice(i, v) = v
    BY <1>3 DEF CeilPrice
  <1>6. FloorPrice(i, v) = v
    BY <1>4 DEF FloorPrice
  <1> QED
    BY <1>5, <1>6

\* Where the ticks meet at the cutoff, rounding up never fails on the way to a
\* price of the instrument, and does not pass it.
LEMMA CeilReaches ==
    ASSUME NEW i, Sane(i), Aligned(i), NEW v \in Prices, NEW w \in Prices, v <= w, SupportsPrice(i, w)
    PROVE  CeilPrice(i, v) \in v..w
  <1> DEFINE t == TickForPrice(i, v)
             c == CeilPriceToTick(v, t)
  <1>0. v \in Nat /\ v > 0 /\ w \in Nat /\ w <= MaxMicros /\ MaxMicros \in Nat
    BY MaxMicrosAssumption DEF Prices
  <1>1. /\ i.tick \in Nat \ {0} /\ i.below \in Nat /\ i.cutoff \in Nat
        /\ i.below # 0 => i.cutoff # 0
    BY DEF Sane, PrecisionSane
  <1>2. t \in Nat \ {0} /\ t = (IF i.below > 0 /\ i.cutoff > 0 /\ v <= i.cutoff THEN i.below ELSE i.tick)
    BY <1>0, TickPositive DEF TickForPrice
  <1>3. w % (IF i.below > 0 /\ i.cutoff > 0 /\ w <= i.cutoff THEN i.below ELSE i.tick) = 0
    BY DEF SupportsPrice, TickForPrice
  <1> HIDE DEF t
  <1>4. CASE v % t = 0
    <2>1. SupportsPrice(i, v)
      BY <1>0, <1>4 DEF SupportsPrice, Sane, t
    <2> QED
      BY <1>0, <2>1, SupportedIsFixed
  <1>5. CASE v % t # 0
    <2>1. c = (IF v + (t - (v % t)) > MaxMicros THEN Error ELSE v + (t - (v % t)))
      BY <1>5 DEF CeilPriceToTick
    <2>2. CASE i.below > 0 /\ v <= i.cutoff
      <3>1. t = i.below /\ i.tick % i.below = 0 /\ i.cutoff % i.tick = 0
        BY <1>1, <1>2, <2>2 DEF Aligned
      <3>2. i.cutoff % t = 0
        BY <1>1, <1>2, <3>1, MultipleOfMultiple
      <3>3. v + (t - (v % t)) <= i.cutoff /\ (v + (t - (v % t))) % t = 0
        BY <1>0, <1>1, <1>2, <1>5, <2>2, <3>2, CeilStaysBelow
      <3>4. v + (t - (v % t)) <= w
        <4>1. CASE w <= i.cutoff
          <5>1. w % t = 0
            BY <1>1, <1>3, <2>2, <3>1, <4>1
          <5> QED
            BY <1>0, <1>2, <1>5, <5>1, CeilStaysBelow
        <4>2. CASE ~(w <= i.cutoff)
          <5>1. PICK r \in 0..(t - 1) : r = v % t
            BY <1>0, <1>2, Remainder
          <5> QED
            BY <1>0, <1>1, <1>2, <3>3, <4>2, <5>1
        <4> QED
          BY <4>1, <4>2
      <3>5. PICK r \in 1..(t - 1) : r = v % t
        <4>1. PICK r \in 0..(t - 1) : r = v % t
          BY <1>0, <1>2, Remainder
        <4> QED
          BY <1>2, <1>5, <4>1
      <3>6. c = v + (t - r) /\ c \in v..w /\ c <= i.cutoff /\ c % t = 0
        BY <1>0, <1>2, <2>1, <3>3, <3>4, <3>5
      <3> HIDE DEF c
      <3>7. SupportsPrice(i, c)
        BY <1>0, <1>1, <2>2, <3>1, <3>6 DEF SupportsPrice, TickForPrice, Sane
      <3>8. CeilPrice(i, v) = c
        BY <3>7 DEF CeilPrice, c, t
      <3> QED
        BY <3>6, <3>8
    <2>3. CASE ~(i.below > 0 /\ v <= i.cutoff)
      <3>1. t = i.tick /\ w % t = 0
        BY <1>0, <1>1, <1>2, <1>3, <2>3
      <3>2. v + (t - (v % t)) <= w /\ (v + (t - (v % t))) % t = 0
        BY <1>0, <1>2, <1>5, <3>1, CeilStaysBelow
      <3>3. PICK r \in 1..(t - 1) : r = v % t
        <4>1. PICK r \in 0..(t - 1) : r = v % t
          BY <1>0, <1>2, Remainder
        <4> QED
          BY <1>2, <1>5, <4>1
      <3>4. c = v + (t - r) /\ c \in v..w /\ c > v /\ c % t = 0
        BY <1>0, <1>2, <2>1, <3>2, <3>3
      <3> HIDE DEF c
      <3>5. SupportsPrice(i, c)
        BY <1>0, <1>1, <2>3, <3>1, <3>4 DEF SupportsPrice, TickForPrice, Sane
      <3>6. CeilPrice(i, v) = c
        BY <3>5 DEF CeilPrice, c, t
      <3> QED
        BY <3>4, <3>6
    <2> QED
      BY <2>2, <2>3
  <1> QED
    BY <1>4, <1>5

\* Half of a distance, rounded up, moves and is at least half.
LEMMA HalfIsEnough ==
    ASSUME NEW d \in Nat \ {0}
    PROVE  HalfUp(d) \in 1..d /\ 2 * HalfUp(d) >= d
  BY DEF HalfUp

\* What a step of a buy does on the way to its target.
LEMMA BuyStepHalves ==
    ASSUME NEW i, Sane(i), NEW previous \in Prices, NEW ask \in Prices, NEW cap \in Prices,
           NEW target, target = BuyTarget(ask, cap, i),
           NEW result, result = NextBuyLimit(previous, ask, cap, i), result # Error
    PROVE  /\ target \in Prices /\ result \in Prices
           /\ previous < target =>
                result > previous /\ result <= target /\ 2 * (result - previous) >= target - previous
           /\ previous >= target => result = target
  <1>0. /\ MaxMicros \in Nat /\ ask \in 0..MaxMicros /\ cap \in Nat
        /\ previous \in Nat /\ previous <= MaxMicros /\ cap <= MaxMicros
    BY MaxMicrosAssumption DEF Prices
  <1>1. PICK next : next = CeilPrice(i, previous + HalfUp(target - previous))
    OBVIOUS
  <1>2. result = IF target = Error THEN Error
                 ELSE IF target <= previous THEN target
                 ELSE IF next = Error THEN Error ELSE Lesser(next, target)
    BY <1>1 DEF NextBuyLimit
  <1>3. target # Error /\ result \in Prices
    BY <1>2, NextBuyIsCapped
  <1>4. target \in Prices
    <2>1. PICK a : a = CeilPrice(i, ask) /\ (a # Error => a \in Prices)
      BY <1>0, CeilIsAbove
    <2>2. PICK f : f = FloorPrice(i, cap) /\ f \in 0..cap
      BY <1>0, FloorIsBelow
    <2>3. target = IF a = Error \/ f = Error THEN Error ELSE Lesser(a, f)
      BY <2>1, <2>2 DEF BuyTarget
    <2> QED
      BY <1>0, <1>3, <2>1, <2>2, <2>3 DEF Lesser, Prices, Error
  <1>5. ASSUME previous < target
        PROVE  result > previous /\ result <= target /\ 2 * (result - previous) >= target - previous
    <2>1. target - previous \in Nat \ {0} /\ target \in Nat /\ target <= MaxMicros
      BY <1>0, <1>4, <1>5 DEF Prices
    <2>2. PICK h : h = HalfUp(target - previous) /\ h \in 1..(target - previous) /\ 2 * h >= target - previous
      BY <2>1, HalfIsEnough
    <2>3. previous + h \in 0..MaxMicros
      BY <1>0, <2>1, <2>2
    <2>4. next # Error /\ result = Lesser(next, target)
      BY <1>0, <1>2, <1>3, <1>5, <2>1
    <2>5. next \in Prices /\ next >= previous + h
      BY <1>1, <2>2, <2>3, <2>4, CeilIsAbove
    <2>6. next \in Nat
      BY <1>0, <2>5 DEF Prices
    <2> QED
      BY <1>0, <1>5, <2>1, <2>2, <2>4, <2>5, <2>6 DEF Lesser
  <1>6. previous >= target => result = target
    BY <1>0, <1>2, <1>3, <1>4 DEF Prices
  <1> QED
    BY <1>3, <1>4, <1>5, <1>6

\* What a step of a sell does; a sell with a target always has a next price.
LEMMA SellStepHalves ==
    ASSUME NEW i, Sane(i), NEW previous \in Prices, NEW bid \in Prices, NEW minimum \in Prices,
           NEW target, target = SellTarget(bid, minimum, i), target # Error,
           NEW result, result = NextSellLimit(previous, bid, minimum, i)
    PROVE  /\ target \in Prices /\ result \in Prices
           /\ previous > target =>
                result < previous /\ result >= target /\ 2 * (previous - result) >= previous - target
           /\ previous <= target => result = target
  <1>0. /\ MaxMicros \in Nat /\ minimum \in 0..MaxMicros /\ bid \in Nat /\ bid <= MaxMicros
        /\ previous \in Nat /\ previous <= MaxMicros /\ previous # 0
    BY MaxMicrosAssumption DEF Prices
  <1>1. PICK next : next = FloorPrice(i, previous - HalfUp(previous - target))
    OBVIOUS
  <1>2. result = IF target >= previous THEN target ELSE Greater(next, target)
    BY <1>1 DEF NextSellLimit
  <1>3. target \in Prices
    <2>1. PICK m : m = CeilPrice(i, minimum) /\ (m # Error => m \in Prices)
      BY <1>0, CeilIsAbove
    <2>2. PICK b : b = FloorPrice(i, bid) /\ b \in 0..bid
      BY <1>0, FloorIsBelow
    <2>3. target = IF m = Error THEN Error ELSE Greater(b, m)
      BY <2>1, <2>2 DEF SellTarget
    <2> QED
      BY <1>0, <2>1, <2>2, <2>3 DEF Greater, Prices, Error
  <1>4. target \in Nat /\ target >= 1 /\ target <= MaxMicros
    BY <1>0, <1>3 DEF Prices
  <1>5. ASSUME previous > target
        PROVE  result \in Prices /\ result < previous /\ result >= target /\ 2 * (previous - result) >= previous - target
    <2>1. previous - target \in Nat \ {0}
      BY <1>0, <1>4, <1>5
    <2>2. PICK h : h = HalfUp(previous - target) /\ h \in 1..(previous - target) /\ 2 * h >= previous - target
      BY <2>1, HalfIsEnough
    <2>3. previous - h \in Nat
      BY <1>0, <1>4, <2>1, <2>2
    <2>4. next \in 0..(previous - h)
      BY <1>1, <2>2, <2>3, FloorIsBelow
    <2>5. result = Greater(next, target)
      BY <1>0, <1>2, <1>4, <1>5
    <2> QED
      BY <1>0, <1>4, <1>5, <2>1, <2>2, <2>4, <2>5 DEF Greater, Prices
  <1>6. previous <= target => result = target
    BY <1>2, <1>4, <1>0
  <1> QED
    BY <1>0, <1>3, <1>4, <1>5, <1>6

LEMMA StepHalves ==
    ASSUME PricingInv, [PricingNext]_pricingVars, limit' # limit
    PROVE  IF limit < Target
             THEN limit' > limit /\ limit' <= Target /\ 2 * (limit' - limit) >= Target - limit
             ELSE limit' < limit /\ limit' >= Target /\ 2 * (limit - limit') >= limit - Target
  <1>1. NextLimit # Error /\ limit' = NextLimit
    BY DEF PricingNext, QuoteMoves, RepriceStep, pricingVars
  <1>2. /\ Sane(inst) /\ side \in {"buy", "sell"} /\ MaxMicros \in Nat
        /\ limit \in Prices /\ market \in Prices /\ bound \in Prices
    BY InstrumentsAssumption, MaxMicrosAssumption DEF PricingInv, PricingTypeOK, Sane
  <1>3. PICK target : target = Target
    OBVIOUS
  <1>4. CASE side = "buy"
    <2>1. limit' = NextBuyLimit(limit, market, bound, inst) /\ target = BuyTarget(market, bound, inst)
      BY <1>1, <1>3, <1>4 DEF NextLimit, Target
    <2>2. /\ target \in Prices /\ limit' \in Prices
          /\ limit < target => limit' > limit /\ limit' <= target /\ 2 * (limit' - limit) >= target - limit
          /\ limit >= target => limit' = target
      BY <1>1, <1>2, <2>1, BuyStepHalves
    <2>3. limit \in Nat /\ limit' \in Nat /\ target \in Nat
      BY <1>2, <2>2 DEF Prices
    <2>4. CASE limit < target
      BY <1>3, <2>2, <2>3, <2>4
    <2>5. CASE ~(limit < target)
      <3>1. limit >= target /\ limit' = target /\ limit' # limit
        BY <2>2, <2>3, <2>5
      <3> QED
        BY <1>3, <2>3, <2>5, <3>1
    <2> QED
      BY <2>4, <2>5
  <1>5. CASE side = "sell"
    <2>1. limit' = NextSellLimit(limit, market, bound, inst) /\ target = SellTarget(market, bound, inst)
      BY <1>1, <1>3, <1>5 DEF NextLimit, Target
    <2>2. target # Error
      BY <1>1, <2>1 DEF NextSellLimit
    <2>3. /\ target \in Prices /\ limit' \in Prices
          /\ limit > target => limit' < limit /\ limit' >= target /\ 2 * (limit - limit') >= limit - target
          /\ limit <= target => limit' = target
      BY <1>2, <2>1, <2>2, SellStepHalves
    <2>4. limit \in Nat /\ limit' \in Nat /\ target \in Nat
      BY <1>2, <2>3 DEF Prices
    <2>5. CASE limit > target
      <3>1. limit' < limit /\ limit' >= target /\ 2 * (limit - limit') >= limit - target
        BY <2>3, <2>5
      <3>2. ~(limit < target)
        BY <2>4, <2>5
      <3> QED
        BY <1>3, <3>1, <3>2
    <2>6. CASE ~(limit > target)
      <3>1. limit <= target /\ limit' = target /\ limit' # limit
        BY <2>3, <2>4, <2>6
      <3> QED
        BY <1>3, <2>4, <3>1
    <2> QED
      BY <2>5, <2>6
  <1> QED
    BY <1>2, <1>4, <1>5

\* Each replacement moves towards the market without passing it and covers at
\* least half of the way (nextBoundedBuyLimitForInstrument,
\* nextBoundedSellLimitForInstrument).
THEOREM StepsHalveTheDistance == PricingSpec => HalvesTheDistance
  <1>1. PricingInit => PricingInv
    BY DEF PricingInit, PricingInv, PricingTypeOK, NeverCrossesBound
  <1>2. PricingInv /\ [PricingNext]_pricingVars => PricingInv'
    BY StepKeepsInv
  <1>3. PricingInv /\ [PricingNext]_pricingVars
          => [limit' # limit =>
                IF limit < Target
                  THEN limit' > limit /\ limit' <= Target /\ 2 * (limit' - limit) >= Target - limit
                  ELSE limit' < limit /\ limit' >= Target /\ 2 * (limit - limit') >= limit - Target]_pricingVars
    BY StepHalves
  <1> QED
    BY <1>1, <1>2, <1>3, PTL DEF PricingSpec, HalvesTheDistance

LEMMA NextLimitExists ==
    ASSUME PricingInv, Aligned(inst), SupportsPrice(inst, market), SupportsPrice(inst, bound)
    PROVE  NextLimit # Error /\ (limit # Target => NextLimit # limit)
  <1>1. /\ Sane(inst) /\ side \in {"buy", "sell"} /\ MaxMicros \in Nat
        /\ limit \in Prices /\ market \in Prices /\ bound \in Prices
    BY InstrumentsAssumption, MaxMicrosAssumption DEF PricingInv, PricingTypeOK, Sane
  <1>2. /\ CeilPrice(inst, market) = market /\ FloorPrice(inst, market) = market
        /\ CeilPrice(inst, bound) = bound /\ FloorPrice(inst, bound) = bound
    BY <1>1, SupportedIsFixed
  <1>3. market # Error /\ bound # Error
    BY <1>1 DEF Prices, Error
  <1>4. CASE side = "buy"
    <2>1. PICK target : target = BuyTarget(market, bound, inst) /\ target = Target
      BY <1>4 DEF Target
    <2>2. target \in Prices /\ target # Error /\ SupportsPrice(inst, target)
      BY <1>1, <1>2, <1>3, <2>1 DEF BuyTarget, Lesser
    <2>3. PICK result : result = NextLimit /\ result = NextBuyLimit(limit, market, bound, inst)
      BY <1>4 DEF NextLimit
    <2>4. result # Error
      <3>1. CASE target <= limit
        BY <2>1, <2>2, <2>3, <3>1 DEF NextBuyLimit
      <3>2. CASE ~(target <= limit)
        <4>1. target - limit \in Nat \ {0} /\ limit \in Nat /\ limit >= 1 /\ target \in Nat /\ target <= MaxMicros
          BY <1>1, <2>2, <3>2 DEF Prices
        <4>2. PICK h : h = HalfUp(target - limit) /\ h \in 1..(target - limit)
          BY <4>1, HalfIsEnough
        <4>3. limit + h \in Prices /\ limit + h <= target
          BY <1>1, <4>1, <4>2 DEF Prices
        <4>4. PICK next : next = CeilPrice(inst, limit + h) /\ next \in (limit + h)..target
          BY <1>1, <2>2, <4>3, CeilReaches
        <4>5. next # Error /\ Lesser(next, target) # Error
          BY <2>2, <4>1, <4>2, <4>4 DEF Lesser, Error
        <4> QED
          BY <2>1, <2>2, <2>3, <3>2, <4>2, <4>4, <4>5 DEF NextBuyLimit
      <3> QED
        BY <3>1, <3>2
    <2>5. /\ target \in Prices /\ result \in Prices
          /\ limit < target => result > limit /\ result <= target /\ 2 * (result - limit) >= target - limit
          /\ limit >= target => result = target
      <3>1. target = BuyTarget(market, bound, inst)
        BY <2>1
      <3>2. result = NextBuyLimit(limit, market, bound, inst)
        BY <2>3
      <3> QED
        BY <1>1, <2>4, <3>1, <3>2, BuyStepHalves
    <2>6. limit # target => result # limit
      BY <1>1, <2>2, <2>5 DEF Prices
    <2> QED
      BY <2>1, <2>3, <2>4, <2>6
  <1>5. CASE side = "sell"
    <2>1. PICK target : target = SellTarget(market, bound, inst) /\ target = Target
      BY <1>5 DEF Target
    <2>2. target \in Prices /\ target # Error
      BY <1>1, <1>2, <1>3, <2>1 DEF SellTarget, Greater
    <2>3. PICK result : result = NextLimit /\ result = NextSellLimit(limit, market, bound, inst)
      BY <1>5 DEF NextLimit
    <2>4. /\ target \in Prices /\ result \in Prices
          /\ limit > target => result < limit /\ result >= target /\ 2 * (limit - result) >= limit - target
          /\ limit <= target => result = target
      <3>1. target = SellTarget(market, bound, inst)
        BY <2>1
      <3>2. result = NextSellLimit(limit, market, bound, inst)
        BY <2>3
      <3> QED
        BY <1>1, <2>2, <3>1, <3>2, SellStepHalves
    <2>5. result # Error /\ (limit # target => result # limit)
      BY <1>1, <2>2, <2>4 DEF Prices, Error
    <2> QED
      BY <2>1, <2>3, <2>5
  <1> QED
    BY <1>1, <1>4, <1>5

\* Where the ticks meet at the cutoff, a cancelled order always gets its next
\* price (boundedReplacementLimit): rounding up neither fails nor overflows on
\* the way to a target on the tick.
THEOREM RepricingNeverSticks == PricingSpec => []NeverStuck
  <1>1. PricingInit => PricingInv
    BY DEF PricingInit, PricingInv, PricingTypeOK, NeverCrossesBound
  <1>2. PricingInv /\ [PricingNext]_pricingVars => PricingInv'
    BY StepKeepsInv
  <1>3. PricingInv => NeverStuck
    BY NextLimitExists DEF NeverStuck
  <1> QED
    BY <1>1, <1>2, <1>3, PTL DEF PricingSpec

-----------------------------------------------------------------------------
(* The opening order: arithmetic                                           *)

\* Division with rounding up: not below, and less than one above.
LEMMA CeilDivBounds ==
    ASSUME NEW a \in Nat, NEW b \in Nat \ {0}
    PROVE  CeilDiv(a, b) \in Nat /\ b * CeilDiv(a, b) >= a /\ b * CeilDiv(a, b) <= a + b - 1
  <1>1. PICK c \in Nat : c = a + b - 1
    OBVIOUS
  <1>2. PICK q \in Nat : q = c \div b /\ c = b * q + (c % b)
    BY Division
  <1>3. PICK r \in 0..(b - 1) : r = c % b
    BY Remainder
  <1>4. CeilDiv(a, b) = q
    BY <1>1, <1>2 DEF CeilDiv
  <1>5. b * q \in Nat
    OBVIOUS
  <1> QED
    BY <1>1, <1>2, <1>3, <1>4, <1>5

LEMMA TimesKeepsOrder ==
    ASSUME NEW c \in Nat, NEW a \in Nat, NEW b \in Nat, a <= b
    PROVE  c * a <= c * b
  <1>1. CASE a = b
    BY <1>1
  <1>2. CASE a < b
    <2>1. c * a + c <= c * b /\ c * a \in Nat /\ c * b \in Nat
      BY <1>2, TimesMonotone
    <2> QED
      BY <2>1
  <1> QED
    BY <1>1, <1>2

LEMMA CancelFactor ==
    ASSUME NEW c \in Nat \ {0}, NEW a \in Nat, NEW b \in Nat, c * a <= c * b
    PROVE  a <= b
  <1> SUFFICES ASSUME b < a PROVE FALSE
    OBVIOUS
  <1>1. c * b + c <= c * a /\ c * a \in Nat /\ c * b \in Nat
    BY TimesMonotone
  <1> QED
    BY <1>1

LEMMA CeilOfMultiple ==
    ASSUME NEW a \in Nat, NEW b \in Nat \ {0}
    PROVE  CeilDiv(a * b, b) = a
  <1>1. PICK m \in Nat : m = a * b /\ m = b * a
    OBVIOUS
  <1>2. PICK c \in Nat : c = CeilDiv(m, b) /\ b * c >= m /\ b * c <= m + b - 1
    BY CeilDivBounds
  <1>3. a <= c
    BY <1>1, <1>2, CancelFactor
  <1>4. ~(a < c)
    <2> SUFFICES ASSUME a < c PROVE FALSE
      OBVIOUS
    <2>1. b * a + b <= b * c /\ b * a \in Nat /\ b * c \in Nat
      BY TimesMonotone
    <2> QED
      BY <1>1, <1>2, <2>1
  <1> QED
    BY <1>1, <1>2, <1>3, <1>4

\* Sums of money are natural numbers of the scale's size.
LEMMA AmountBounds ==
    ASSUME NEW n \in Nat, NEW p \in Nat, NEW m \in Nat
    PROVE  /\ MulQtyPrice(n, p, m) \in Nat
           /\ Scale * MulQtyPrice(n, p, m) >= n * p * m
           /\ Scale * MulQtyPrice(n, p, m) <= n * p * m + Scale - 1
  <1>1. n * p * m \in Nat /\ Scale \in Nat \ {0}
    BY OpenAssumption
  <1> QED
    BY <1>1, CeilDivBounds DEF MulQtyPrice

\* A reservation that holds its share of the authorised cash covers what may
\* still fill, and with the cost so far exceeds the cash only by rounding.
LEMMA ShareCovers ==
    ASSUME NEW qty \in Nat \ {0}, NEW rest \in 0..qty, NEW cash \in Nat, NEW each \in Nat,
           NEW cost \in Nat, NEW fills \in Nat, NEW share \in Nat,
           qty * each <= Scale * cash, share = CeilDiv(cash * rest, qty),
           Scale * cost <= (qty - rest) * each + 2 * Scale * fills
    PROVE  /\ share * Scale >= rest * each
           /\ cost + share <= cash + 2 * fills + 1
  <1>0. Scale \in Nat \ {0} /\ rest \in Nat /\ qty - rest \in Nat
    BY OpenAssumption
  <1>1. PICK part \in Nat : part = cash * rest
    BY <1>0
  <1>2. qty * share >= part /\ qty * share <= part + qty - 1
    BY <1>1, CeilDivBounds
  <1>3. share * Scale >= rest * each
    <2>1. rest * (qty * each) <= rest * (Scale * cash)
      BY <1>0, TimesKeepsOrder
    <2>2. Scale * part <= Scale * (qty * share)
      BY <1>0, <1>2, TimesKeepsOrder
    <2>3. qty * (rest * each) = rest * (qty * each) /\ rest * (Scale * cash) = Scale * part
      BY <1>0, <1>1
    <2>4. Scale * (qty * share) = qty * (share * Scale)
      BY <1>0
    <2>5. /\ rest * each \in Nat /\ share * Scale \in Nat
          /\ rest * (qty * each) \in Nat /\ rest * (Scale * cash) \in Nat /\ Scale * (qty * share) \in Nat
      BY <1>0
    <2>6. qty * (rest * each) <= qty * (share * Scale)
      BY <2>1, <2>2, <2>3, <2>4, <2>5
    <2> QED
      BY <2>5, <2>6, CancelFactor
  <1>4. cost + share <= cash + 2 * fills + 1
    <2>1. qty * (Scale * cost) <= qty * ((qty - rest) * each + 2 * Scale * fills)
      <3>1. Scale * cost \in Nat /\ (qty - rest) * each + 2 * Scale * fills \in Nat
        BY <1>0
      <3> QED
        BY <3>1, TimesKeepsOrder
    <2>2. (qty - rest) * (qty * each) <= (qty - rest) * (Scale * cash)
      <3>1. qty * each \in Nat /\ Scale * cash \in Nat
        BY <1>0
      <3> QED
        BY <1>0, <3>1, TimesKeepsOrder
    <2>3. Scale * (qty * share) <= Scale * (part + qty - 1)
      <3>1. qty * share \in Nat /\ part + qty - 1 \in Nat
        BY <1>0
      <3> QED
        BY <1>0, <1>2, <3>1, TimesKeepsOrder
    <2>4. qty * ((qty - rest) * each + 2 * Scale * fills)
            = (qty - rest) * (qty * each) + (qty * Scale) * (2 * fills)
      BY <1>0
    <2>5. Scale * (part + qty - 1) <= Scale * part + qty * Scale
      BY <1>0
    <2>6. Scale * part + (qty - rest) * (Scale * cash) = (qty * Scale) * cash
      BY <1>0, <1>1
    <2>7. (qty * Scale) * (cost + share) = qty * (Scale * cost) + Scale * (qty * share)
      BY <1>0
    <2>8. (qty * Scale) * (cash + 2 * fills + 1) = (qty * Scale) * cash + (qty * Scale) * (2 * fills) + qty * Scale
      BY <1>0
    <2>9. /\ qty * (Scale * cost) \in Nat /\ Scale * (qty * share) \in Nat /\ Scale * part \in Nat
          /\ (qty - rest) * (qty * each) \in Nat /\ (qty - rest) * (Scale * cash) \in Nat
          /\ (qty * Scale) * (2 * fills) \in Nat /\ (qty * Scale) * cash \in Nat /\ qty * Scale \in Nat \ {0}
          /\ Scale * (part + qty - 1) \in Nat /\ cost + share \in Nat /\ cash + 2 * fills + 1 \in Nat
          /\ qty * ((qty - rest) * each + 2 * Scale * fills) \in Nat
      BY <1>0
    <2>10. (qty * Scale) * (cost + share) <= (qty * Scale) * (cash + 2 * fills + 1)
      BY <2>1, <2>2, <2>3, <2>4, <2>5, <2>6, <2>7, <2>8, <2>9
    <2> QED
      BY <2>9, <2>10, CancelFactor
  <1> QED
    BY <1>3, <1>4

-----------------------------------------------------------------------------
(* The opening order: its terms                                            *)

OpenOrders == [type : OrderTypes, kind : {"equity", "option"}, shadow : BOOLEAN, inst : Instruments,
               qty : Nat, lim : Nat, stop : Nat, budget : Nat,
               cap : Nat, working : Nat, cash : Nat, reject : BOOLEAN]

Fees(op, policy) == MulQtyPrice(op.qty, policy.fee, 1)

\* What one micro-unit of the order may cost, with its fee.
Each(op, policy) == op.cap * Multipliers[op.kind] + policy.fee

\* The terms are those the declaration and the policy determine.
TermsStand(op, policy) ==
    /\ op.cap > 0
    /\ IF op.type \in Unpriced
         THEN /\ op.budget - Fees(op, policy) \in Nat
              /\ op.cap = (op.budget - Fees(op, policy)) \div (op.qty \div Scale)
              /\ op.cash = op.budget
         ELSE /\ OnTick(op, op.cap) = op.cap
              /\ op.cash = MulQtyPrice(op.qty, op.cap, Multipliers[op.kind]) + Fees(op, policy)

\* A price on the tick is its own rounding.
LEMMA OnTickTwice ==
    ASSUME NEW op \in OpenOrders, NEW p \in Nat, OnTick(op, p) # Error
    PROVE  OnTick(op, OnTick(op, p)) = OnTick(op, p)
  <1>1. CASE Precise(op)
    <2>1. Sane(op.inst)
      BY InstrumentsAssumption DEF OpenOrders, Sane
    <2>2. PICK f : f = FloorPrice(op.inst, p) /\ f # Error
      BY <1>1 DEF OnTick
    <2>3. f \in Nat /\ SupportsPrice(op.inst, f)
      BY <2>1, <2>2, FloorIsBelow
    <2>4. f % TickForPrice(op.inst, f) = 0
      BY <2>3 DEF SupportsPrice
    <2>5. FloorPriceToTick(f, TickForPrice(op.inst, f)) = f
      BY <2>3, <2>4 DEF FloorPriceToTick
    <2>6. FloorPrice(op.inst, f) = f
      BY <2>3, <2>5 DEF FloorPrice
    <2> QED
      BY <1>1, <2>2, <2>6 DEF OnTick
  <1>2. CASE ~Precise(op)
    BY <1>2 DEF OnTick
  <1> QED
    BY <1>1, <1>2

LEMMA OnTickTyped ==
    ASSUME NEW op \in OpenOrders, NEW p \in Nat
    PROVE  OnTick(op, p) \in Nat /\ OnTick(op, p) <= p
  <1>1. Sane(op.inst)
    BY InstrumentsAssumption DEF OpenOrders, Sane
  <1>2. FloorPrice(op.inst, p) \in Nat /\ FloorPrice(op.inst, p) <= p
    BY <1>1, FloorIsBelow
  <1> QED
    BY <1>2 DEF OnTick

LEMMA FeesTyped ==
    ASSUME NEW op \in OpenOrders, NEW policy \in Policies
    PROVE  /\ Fees(op, policy) \in Nat /\ Scale * Fees(op, policy) >= op.qty * policy.fee
           /\ policy.fee \in Nat /\ Multipliers[op.kind] \in Nat /\ Each(op, policy) \in Nat
  <1>1. policy.fee \in Nat /\ Multipliers[op.kind] \in Nat /\ op.qty \in Nat /\ op.cap \in Nat
    BY OpenAssumption DEF OpenOrders
  <1>2. PICK qty \in Nat, fee \in Nat : qty = op.qty /\ fee = policy.fee
    BY <1>1
  <1>3. MulQtyPrice(qty, fee, 1) \in Nat /\ Scale * MulQtyPrice(qty, fee, 1) >= qty * fee * 1
    BY AmountBounds
  <1>4. qty * fee * 1 = qty * fee
    OBVIOUS
  <1>5. Each(op, policy) \in Nat
    BY <1>1 DEF Each
  <1> QED
    BY <1>1, <1>2, <1>3, <1>4, <1>5 DEF Fees

\* Terms that stand hold enough cash for the whole order at its cap.
LEMMA TermsCover ==
    ASSUME NEW op \in OpenOrders, NEW policy \in Policies, ValidOpen(op), TermsStand(op, policy)
    PROVE  op.qty \in Nat \ {0} /\ op.qty * Each(op, policy) <= Scale * op.cash
  <1>0. /\ Scale \in Nat \ {0} /\ op.qty \in Nat \ {0} /\ op.cap \in Nat /\ op.cash \in Nat
        /\ op.budget \in Nat /\ op.kind \in {"equity", "option"} /\ op.type \in OrderTypes
    BY OpenAssumption DEF OpenOrders, ValidOpen
  <1>1. PICK fees \in Nat, fee \in Nat, mult \in Nat :
          /\ fees = Fees(op, policy) /\ fee = policy.fee /\ mult = Multipliers[op.kind]
          /\ Scale * fees >= op.qty * fee
    BY FeesTyped
  <1>2. CASE op.type \in Unpriced
    <2>1. op.kind = "equity" /\ mult = 1 /\ op.qty % Scale = 0
      BY <1>0, <1>1, <1>2, OpenAssumption DEF ValidOpen, Unpriced, Whole
    <2>2. PICK n \in Nat : n = op.qty \div Scale /\ op.qty = Scale * n
      <3>1. op.qty \div Scale \in Nat /\ op.qty = Scale * (op.qty \div Scale) + (op.qty % Scale)
        BY <1>0, Division
      <3>2. Scale * (op.qty \div Scale) \in Nat
        BY <1>0, <3>1
      <3>3. op.qty = Scale * (op.qty \div Scale)
        BY <2>1, <3>1, <3>2
      <3> QED
        BY <3>1, <3>3
    <2>3. n # 0
      BY <1>0, <2>2
    <2>4. PICK free \in Nat : free = op.budget - fees /\ op.cap = free \div n /\ op.cash = free + fees
      BY <1>0, <1>1, <1>2, <2>2 DEF TermsStand
    <2>5. n * op.cap <= free
      <3>1. PICK r \in 0..(n - 1) : r = free % n
        BY <2>3, Remainder
      <3>2. free = n * (free \div n) + (free % n)
        BY <2>3
      <3>3. n * op.cap \in Nat
        BY <1>0
      <3> QED
        BY <2>4, <3>1, <3>2, <3>3
    <2>6. Scale * (n * op.cap) <= Scale * free
      <3>1. n * op.cap \in Nat
        BY <1>0
      <3> QED
        BY <1>0, <2>5, <3>1, TimesKeepsOrder
    <2>7. op.qty * (op.cap * 1 + fee) = Scale * (n * op.cap) + op.qty * fee
      BY <1>0, <2>2
    <2>8. Scale * op.cash = Scale * free + Scale * fees
      BY <1>0, <2>4
    <2>9. /\ Scale * (n * op.cap) \in Nat /\ Scale * free \in Nat /\ Scale * fees \in Nat
          /\ op.qty * fee \in Nat
      BY <1>0
    <2>10. op.qty * (op.cap * 1 + fee) <= Scale * op.cash
      BY <1>1, <2>6, <2>7, <2>8, <2>9
    <2> QED
      BY <1>0, <1>1, <2>1, <2>10 DEF Each
  <1>3. CASE op.type \notin Unpriced
    <2>1. PICK amount \in Nat : /\ amount = MulQtyPrice(op.qty, op.cap, mult)
                                /\ Scale * amount >= op.qty * op.cap * mult
      <3>1. PICK qty \in Nat, cap \in Nat : qty = op.qty /\ cap = op.cap
        BY <1>0
      <3>2. MulQtyPrice(qty, cap, mult) \in Nat /\ Scale * MulQtyPrice(qty, cap, mult) >= qty * cap * mult
        BY AmountBounds
      <3> QED
        BY <3>1, <3>2
    <2>2. op.cash = amount + fees
      BY <1>1, <1>3, <2>1 DEF TermsStand
    <2>3. op.qty * (op.cap * mult + fee) = op.qty * op.cap * mult + op.qty * fee
      BY <1>0
    <2>4. Scale * op.cash = Scale * amount + Scale * fees
      BY <1>0, <2>2
    <2>5. op.qty * op.cap * mult \in Nat /\ op.qty * fee \in Nat /\ Scale * amount \in Nat /\ Scale * fees \in Nat
      BY <1>0
    <2>6. op.qty * (op.cap * mult + fee) <= Scale * op.cash
      BY <1>1, <2>1, <2>3, <2>4, <2>5
    <2> QED
      BY <1>0, <1>1, <2>6 DEF Each
  <1> QED
    BY <1>2, <1>3

SameRequest(a, b) ==
    /\ a.type = b.type /\ a.kind = b.kind /\ a.shadow = b.shadow /\ a.inst = b.inst
    /\ a.qty = b.qty /\ a.stop = b.stop /\ a.budget = b.budget

\* An order without a limit price is for whole shares.
Shares(op) == op.type \in Unpriced => op.qty \div Scale \in Nat \ {0}

LEMMA ValidHasShares ==
    ASSUME NEW op \in OpenOrders, ValidOpen(op)
    PROVE  Shares(op)
  <1> SUFFICES ASSUME op.type \in Unpriced PROVE op.qty \div Scale \in Nat \ {0}
    BY DEF Shares
  <1>1. Scale \in Nat \ {0} /\ op.qty \in Nat /\ op.qty > 0 /\ op.qty % Scale = 0
    BY OpenAssumption DEF OpenOrders, ValidOpen, Unpriced, Whole
  <1>2. PICK n \in Nat : n = op.qty \div Scale /\ op.qty = Scale * n + (op.qty % Scale)
    BY <1>1, Division
  <1>3. n # 0
    <2> SUFFICES ASSUME n = 0 PROVE FALSE
      OBVIOUS
    <2>1. Scale * n = 0
      BY <1>1
    <2>2. op.qty = 0 + 0
      BY <1>1, <1>2, <2>1
    <2> QED
      BY <1>1, <2>2
  <1> QED
    BY <1>2, <1>3

LEMMA UnpricedDerived ==
    ASSUME NEW op \in OpenOrders, NEW q \in Quotes, NEW policy \in Policies,
           op.type \in Unpriced, Shares(op),
           NEW d, d = UnpricedTerms(op, q, policy)
    PROVE  /\ d \in OpenOrders /\ SameRequest(d, op) /\ d.lim = op.lim
           /\ (d.reject /\ d.cap = op.cap /\ d.cash = op.cash) \/ TermsStand(d, policy)
           /\ ~d.reject => TermsStand(d, policy)
  <1>1. PICK fees \in Nat : fees = MulQtyPrice(op.qty, policy.fee, 1) /\ fees = Fees(op, policy)
    BY FeesTyped DEF Fees
  <1>2. PICK shares \in Nat \ {0} : shares = op.qty \div Scale
    BY DEF Shares
  <1>3. PICK cap : cap = (op.budget - fees) \div shares
    OBVIOUS
  <1>4. op.budget \in Nat /\ q.ask \in Nat
    BY OpenAssumption DEF OpenOrders
  <1>5. CASE d = [op EXCEPT !.reject = TRUE]
    BY <1>5 DEF OpenOrders, SameRequest
  <1>6. CASE d # [op EXCEPT !.reject = TRUE]
    <2>0. PICK refused \in BOOLEAN :
            refused = (\/ op.budget <= fees \/ cap <= 0
                       \/ op.type = "stop_market" /\ cap < op.stop
                       \/ MulQtyPrice(op.qty, q.ask, 1) + fees > op.budget)
      OBVIOUS
    <2>1a. d = IF refused THEN [op EXCEPT !.reject = TRUE]
               ELSE [op EXCEPT !.cap = cap, !.working = q.ask, !.cash = op.budget]
      BY <1>1, <1>2, <1>3, <2>0 DEF UnpricedTerms
    <2>1b. ~refused /\ d = [op EXCEPT !.cap = cap, !.working = q.ask, !.cash = op.budget]
      BY <1>6, <2>1a
    <2>1c. ~(op.budget <= fees) /\ ~(cap <= 0)
      BY <2>0, <2>1b
    <2>1. /\ op.budget > fees /\ ~(cap <= 0)
          /\ d = [op EXCEPT !.cap = cap, !.working = q.ask, !.cash = op.budget]
      BY <1>4, <2>1b, <2>1c
    <2>2. op.budget - fees \in Nat
      BY <1>4, <2>1
    <2>3. cap \in Nat
      BY <1>2, <1>3, <2>2, Division
    <2>4. d \in OpenOrders /\ SameRequest(d, op) /\ d.lim = op.lim /\ d.cap = cap /\ d.cash = op.budget
      BY <1>4, <2>1, <2>3 DEF OpenOrders, SameRequest
    <2>5. Fees(d, policy) = fees /\ d.type \in Unpriced /\ d.qty = op.qty /\ d.budget = op.budget
      BY <1>1, <2>4 DEF Fees, SameRequest
    <2>6. TermsStand(d, policy)
      BY <1>2, <1>3, <2>1, <2>2, <2>3, <2>4, <2>5 DEF TermsStand
    <2> QED
      BY <2>4, <2>6
  <1> QED
    BY <1>5, <1>6

LEMMA PricedDerived ==
    ASSUME NEW op \in OpenOrders, NEW q \in Quotes, NEW policy \in Policies,
           op.type \notin Unpriced, q.usable \/ op.lim # Omitted,
           NEW d, d = PricedTerms(op, q, policy)
    PROVE  /\ d \in OpenOrders /\ SameRequest(d, op) /\ d.lim = op.lim
           /\ (d.reject /\ d.cap = op.cap /\ d.cash = op.cash) \/ TermsStand(d, policy)
           /\ ~d.reject => TermsStand(d, policy) /\ d.working <= d.cap
           /\ op.lim # Omitted /\ ~(d.reject /\ d.cap = op.cap /\ d.cash = op.cash) => d.cap = OnTick(op, op.lim)
  <1>1. PICK authorized : authorized = IF op.lim # Omitted THEN op.lim ELSE q.ask
    OBVIOUS
  <1>2. PICK start : start = IF op.type = "stop_limit" \/ ~q.usable THEN authorized
                             ELSE IF policy.startAt = "mid" THEN Mid(q) ELSE q.ask
    OBVIOUS
  <1>3. PICK cap : cap = OnTick(op, authorized)
    OBVIOUS
  <1>4. PICK working : working = OnTick(op, Lesser(start, authorized))
    OBVIOUS
  <1>5. PICK amount : amount = MulQtyPrice(op.qty, cap, Multipliers[op.kind])
    OBVIOUS
  <1>6. PICK fees \in Nat : fees = MulQtyPrice(op.qty, policy.fee, 1) /\ fees = Fees(op, policy)
    BY FeesTyped DEF Fees
  <1>7. op.lim \in Nat /\ q.ask \in Nat /\ q.bid \in Nat /\ (q.usable => q.ask > q.bid)
    BY OpenAssumption DEF OpenOrders
  <1>8. authorized \in Nat
    BY <1>1, <1>7
  <1>9. start \in Nat
    <2>1. q.usable => Mid(q) \in Nat
      <3> SUFFICES ASSUME q.usable PROVE Mid(q) \in Nat
        OBVIOUS
      <3>1. PICK gap \in Nat : gap = q.ask - q.bid
        BY <1>7
      <3>2. gap \div 2 \in Nat
        OBVIOUS
      <3> QED
        BY <1>7, <3>1, <3>2 DEF Mid
    <2> QED
      BY <1>2, <1>7, <1>8, <2>1
  <1>10. cap \in Nat
    BY <1>3, <1>8, OnTickTyped
  <1>11. working \in Nat
    <2>1. Lesser(start, authorized) \in Nat
      BY <1>8, <1>9 DEF Lesser
    <2> QED
      BY <1>4, <2>1, OnTickTyped
  <1>12. amount \in Nat
    <2>1. op.qty \in Nat /\ Multipliers[op.kind] \in Nat
      BY OpenAssumption DEF OpenOrders
    <2> QED
      BY <1>5, <1>10, <2>1, AmountBounds
  <1>13. CASE d = [op EXCEPT !.reject = TRUE]
    BY <1>13 DEF OpenOrders, SameRequest
  <1>14. CASE d # [op EXCEPT !.reject = TRUE]
    <2>1. /\ cap # Error
          /\ d = [op EXCEPT !.cap = cap, !.working = Lesser(working, cap), !.cash = amount + fees]
      BY <1>1, <1>2, <1>3, <1>4, <1>5, <1>6, <1>14 DEF PricedTerms
    <2>2. Lesser(working, cap) \in Nat /\ Lesser(working, cap) <= cap
      BY <1>10, <1>11 DEF Lesser
    <2>3. amount + fees \in Nat
      BY <1>12
    <2>4. /\ d \in OpenOrders /\ SameRequest(d, op) /\ d.lim = op.lim /\ d.cap = cap
          /\ d.cash = amount + fees /\ d.working = Lesser(working, cap)
      BY <1>10, <2>1, <2>2, <2>3 DEF OpenOrders, SameRequest
    <2>5. Fees(d, policy) = fees /\ d.type \notin Unpriced /\ d.qty = op.qty /\ d.kind = op.kind
      BY <1>6, <2>4 DEF Fees, SameRequest
    <2>6. OnTick(d, cap) = cap
      <3>1. OnTick(op, cap) = cap
        BY <1>3, <1>8, <2>1, OnTickTwice
      <3>2. d.inst = op.inst /\ d.shadow = op.shadow /\ d.kind = op.kind
        BY <2>4 DEF SameRequest
      <3> QED
        BY <3>1, <3>2 DEF OnTick, Precise
    <2>7. d.cap > 0
      BY <1>10, <2>1, <2>4 DEF Error
    <2>8. TermsStand(d, policy)
      BY <1>5, <2>4, <2>5, <2>6, <2>7 DEF TermsStand
    <2>9. op.lim # Omitted => d.cap = OnTick(op, op.lim)
      BY <1>1, <1>3, <2>4
    <2> QED
      BY <2>2, <2>4, <2>8, <2>9
  <1> QED
    BY <1>13, <1>14

\* What the derivation does to any order: it keeps the request, and either it
\* turns the order away with the terms it had or the terms stand.
LEMMA Derived ==
    ASSUME NEW op \in OpenOrders, NEW q \in Quotes, NEW policy \in Policies, Shares(op),
           NEW d, d = Derive(op, q, policy)
    PROVE  /\ d \in OpenOrders /\ SameRequest(d, op) /\ d.lim = op.lim
           /\ (d.reject /\ d.cap = op.cap /\ d.cash = op.cash) \/ TermsStand(d, policy)
           /\ ~d.reject => TermsStand(d, policy) /\ (op.type \notin Unpriced => d.working <= d.cap)
           /\ op.type \notin Unpriced /\ op.lim # Omitted /\ ~(d.reject /\ d.cap = op.cap /\ d.cash = op.cash)
                => d.cap = OnTick(op, op.lim)
  <1>1. CASE Refusable(op, q)
    <2>1. d = [op EXCEPT !.reject = TRUE]
      BY <1>1 DEF Derive
    <2> QED
      BY <2>1 DEF OpenOrders, SameRequest
  <1>2. CASE ~Refusable(op, q) /\ op.type \in Unpriced
    <2>1. d = UnpricedTerms(op, q, policy)
      BY <1>2 DEF Derive
    <2> QED
      BY <1>2, <2>1, UnpricedDerived
  <1>3. CASE ~Refusable(op, q) /\ op.type \notin Unpriced
    <2>1. d = PricedTerms(op, q, policy)
      BY <1>3 DEF Derive
    <2>2. q.usable \/ op.lim # Omitted
      BY <1>3 DEF Refusable, PriceBounded
    <2> QED
      BY <1>3, <2>1, <2>2, PricedDerived
  <1> QED
    BY <1>1, <1>2, <1>3

\* Standing terms are derived again whatever the quote: the cap stands on the
\* tick, and what an unpriced order may pay follows from its declaration.
LEMMA DerivedAgain ==
    ASSUME NEW op \in OpenOrders, NEW q \in Quotes, NEW policy \in Policies, Shares(op),
           TermsStand(op, policy),
           NEW d, d = Derive([op EXCEPT !.lim = op.cap], q, policy)
    PROVE  d \in OpenOrders /\ d.cap = op.cap /\ d.cash = op.cash
  <1>1. PICK o : o = [op EXCEPT !.lim = op.cap]
    OBVIOUS
  <1>2. o \in OpenOrders /\ SameRequest(o, op) /\ o.lim = op.cap /\ o.cap = op.cap /\ o.cash = op.cash
    BY <1>1 DEF OpenOrders, SameRequest
  <1>3. Shares(o) /\ Fees(o, policy) = Fees(op, policy) /\ (o.type \in Unpriced) = (op.type \in Unpriced)
    BY <1>2 DEF Shares, Fees, SameRequest
  <1>4. d = Derive(o, q, policy)
    BY <1>1
  <1>5. CASE d.reject /\ d.cap = o.cap /\ d.cash = o.cash
    BY <1>2, <1>3, <1>4, <1>5, Derived
  <1>6. CASE ~(d.reject /\ d.cap = o.cap /\ d.cash = o.cash)
    <2>1. d \in OpenOrders /\ SameRequest(d, o) /\ TermsStand(d, policy)
      BY <1>2, <1>3, <1>4, <1>6, Derived
    <2>2. SameRequest(d, op) /\ Fees(d, policy) = Fees(op, policy)
      BY <1>2, <2>1 DEF SameRequest, Fees
    <2>3. CASE op.type \in Unpriced
      BY <2>1, <2>2, <2>3 DEF TermsStand, SameRequest
    <2>4. CASE op.type \notin Unpriced
      <3>1. o.lim # Omitted
        BY <1>2 DEF TermsStand, Omitted
      <3>2. d.cap = OnTick(o, o.lim)
        BY <1>2, <1>3, <1>4, <1>6, <2>4, <3>1, Derived
      <3>3. OnTick(o, op.cap) = op.cap
        BY <1>2, <2>4 DEF TermsStand, OnTick, Precise, SameRequest
      <3>4. d.cap = op.cap
        BY <1>2, <3>2, <3>3
      <3> QED
        BY <2>1, <2>2, <2>4, <3>4 DEF TermsStand, SameRequest
    <2> QED
      BY <2>3, <2>4
  <1> QED
    BY <1>5, <1>6

-----------------------------------------------------------------------------
(* The opening order: its way to the fills                                 *)

\* The terms on the way: an order that was not turned away holds the terms of
\* its declaration and of the policy it is bound to.
TermsHold ==
    /\ openOrder \in OpenOrders /\ boundPolicy \in Policies /\ activePolicy \in Policies
    /\ stage # "asked" => ValidOpen(openOrder)
    /\ stage \in {"pending_review", "pending", "working"} => TermsStand(openOrder, boundPolicy)

\* Nothing is bought before the attempt is sent; from then on the reservation
\* is the rest's share of the authorised cash, and the lots have cost what
\* their shares may cost, but for two roundings a fill.
BooksHold ==
    /\ stage \in {"asked", "pending_review", "pending"} => entryCost = 0 /\ fillCount = 0
    /\ stage \in {"pending", "working"} =>
         /\ attemptLimit \in Nat /\ attemptLimit <= openOrder.cap
         /\ remainingQty \in 0..openOrder.qty
         /\ remainingCash = CeilDiv(openOrder.cash * remainingQty, openOrder.qty)
         /\ entryCost \in Nat /\ fillCount \in Nat
         /\ Scale * entryCost <=
              (openOrder.qty - remainingQty) * Each(openOrder, boundPolicy) + 2 * Scale * fillCount
    /\ stage = "pending" => remainingQty = openOrder.qty

OpenInv == TermsHold /\ BooksHold

LEMMA OpenInvInit == OpenInit => OpenInv
  <1> SUFFICES ASSUME OpenInit PROVE OpenInv
    OBVIOUS
  <1>1. PICK r \in OpenRequests : openOrder = NewOperation(r)
    BY DEF OpenInit
  <1>2. openOrder \in OpenOrders
    BY <1>1, OpenAssumption DEF NewOperation, OpenOrders
  <1> QED
    BY <1>2 DEF OpenInit, OpenInv, TermsHold, BooksHold

\* A transaction that stages the attempt leaves books in order.
LEMMA StagedBooks ==
    ASSUME NEW price \in Nat, openOrder' \in OpenOrders, openOrder'.qty \in Nat \ {0},
           openOrder.qty = openOrder'.qty, boundPolicy' \in Policies,
           price <= openOrder'.cap, entryCost = 0, fillCount = 0,
           Staged(price, openOrder'.cash)
    PROVE  BooksHold'
  <1>1. /\ stage' = "pending" /\ attemptLimit' = price
        /\ remainingQty' = openOrder'.qty /\ remainingCash' = openOrder'.cash
        /\ entryCost' = 0 /\ fillCount' = 0
    BY DEF Staged
  <1>2. CeilDiv(openOrder'.cash * openOrder'.qty, openOrder'.qty) = openOrder'.cash
    <2>1. openOrder'.cash \in Nat
      BY DEF OpenOrders
    <2> QED
      BY <2>1, CeilOfMultiple
  <1>3. Scale * 0 <= (openOrder'.qty - openOrder'.qty) * Each(openOrder', boundPolicy') + 2 * Scale * 0
    <2>1. Each(openOrder', boundPolicy') \in Nat /\ Scale \in Nat
      BY FeesTyped, OpenAssumption
    <2> QED
      BY <2>1
  <1>4. openOrder'.qty \in 0..openOrder'.qty
    OBVIOUS
  <1> QED
    BY <1>1, <1>2, <1>3, <1>4 DEF BooksHold

LEMMA KeptByProposal ==
    ASSUME OpenInv, NEW q \in Quotes, ProposeOpen(q)
    PROVE  OpenInv'
  <1>1. PICK op : op = Derive(openOrder, q, activePolicy)
    OBVIOUS
  <1>2. /\ stage = "asked" /\ ValidOpen(openOrder) /\ openOrder' = op /\ boundPolicy' = activePolicy
        /\ activePolicy' = activePolicy
        /\ \/ stage' = "rejected" /\ NotStaged
           \/ Classified(op, q) /\ Staged(ExecutionLimit(op, q), op.cash)
           \/ Classified(op, q) /\ stage' = "pending_review" /\ NotStaged
    BY <1>1 DEF ProposeOpen
  <1>3. openOrder \in OpenOrders /\ activePolicy \in Policies /\ entryCost = 0 /\ fillCount = 0
    BY <1>2 DEF OpenInv, TermsHold, BooksHold
  <1>4. /\ op \in OpenOrders /\ SameRequest(op, openOrder) /\ op.lim = openOrder.lim
        /\ ~op.reject => TermsStand(op, activePolicy) /\ (openOrder.type \notin Unpriced => op.working <= op.cap)
    BY <1>1, <1>2, <1>3, ValidHasShares, Derived
  <1>5. ValidOpen(op) /\ op.qty \in Nat \ {0} /\ op.qty = openOrder.qty
    BY <1>2, <1>3, <1>4 DEF ValidOpen, SameRequest, OpenOrders
  <1>6. Classified(op, q) => TermsStand(op, activePolicy)
    BY <1>4 DEF Classified
  <1>7. stage' \in {"rejected", "pending", "pending_review"} /\ (stage' # "rejected" => Classified(op, q))
    BY <1>2 DEF Staged
  <1>8. TermsHold'
    BY <1>2, <1>3, <1>4, <1>5, <1>6, <1>7 DEF TermsHold
  <1>9. BooksHold'
    <2>1. CASE NotStaged /\ stage' \in {"rejected", "pending_review"}
      BY <1>3, <2>1 DEF NotStaged, BooksHold
    <2>2. CASE Classified(op, q) /\ Staged(ExecutionLimit(op, q), op.cash)
      <3>1. PICK price : price = ExecutionLimit(op, q)
        OBVIOUS
      <3>2. price \in Nat /\ price <= op.cap
        <4>1. op.cap \in Nat /\ op.working \in Nat /\ q.ask \in Nat
          BY <1>4, OpenAssumption DEF OpenOrders
        <4>2. op.type \notin Unpriced => op.working <= op.cap
          BY <1>4, <2>2 DEF Classified, SameRequest
        <4> QED
          BY <3>1, <4>1, <4>2 DEF ExecutionLimit, Lesser
      <3>3. Staged(price, openOrder'.cash)
        BY <1>2, <2>2, <3>1
      <3> QED
        BY <1>2, <1>3, <1>4, <1>5, <3>2, <3>3, StagedBooks
    <2> QED
      BY <1>2, <2>1, <2>2
  <1> QED
    BY <1>8, <1>9 DEF OpenInv

LEMMA KeptByReview ==
    ASSUME OpenInv, NEW q \in Quotes, ReviewOpen(q)
    PROVE  OpenInv'
  <1>1. PICK again : again = Prepared(q)
    OBVIOUS
  <1>2. PICK op : op = [again EXCEPT !.lim = openOrder.lim]
    OBVIOUS
  <1>3. /\ stage = "pending_review" /\ ~Mismatch(q) /\ ~op.reject
        /\ op.working > 0 /\ op.working <= op.cap /\ Staged(op.working, op.cash)
        /\ openOrder' = openOrder /\ boundPolicy' = boundPolicy /\ activePolicy' = activePolicy
    BY <1>1, <1>2 DEF ReviewOpen, Classified
  <1>4. /\ openOrder \in OpenOrders /\ boundPolicy \in Policies /\ activePolicy \in Policies
        /\ ValidOpen(openOrder) /\ TermsStand(openOrder, boundPolicy) /\ entryCost = 0 /\ fillCount = 0
    BY <1>3 DEF OpenInv, TermsHold, BooksHold
  <1>5. PICK derived : derived = Again(q, boundPolicy)
    OBVIOUS
  <1>6. derived \in OpenOrders /\ derived.cap = openOrder.cap /\ derived.cash = openOrder.cash
    BY <1>4, <1>5, ValidHasShares, DerivedAgain DEF Again
  <1>7. again = derived \/ again = [derived EXCEPT !.working = Lesser(q.ask, openOrder.cap)]
    BY <1>1, <1>5 DEF Prepared
  <1>8. op.cap = openOrder.cap /\ op.cash = openOrder.cash /\ op.working \in Nat
    <2>1. q.ask \in Nat /\ openOrder.cap \in Nat
      BY <1>4, OpenAssumption DEF OpenOrders
    <2>2. Lesser(q.ask, openOrder.cap) \in Nat
      BY <2>1 DEF Lesser
    <2>3. again \in OpenOrders /\ again.cap = openOrder.cap /\ again.cash = openOrder.cash
      BY <1>6, <1>7, <2>2 DEF OpenOrders
    <2> QED
      BY <1>2, <2>3 DEF OpenOrders
  <1>9. stage' = "pending"
    BY <1>3 DEF Staged
  <1>10. TermsHold'
    BY <1>3, <1>4, <1>9 DEF TermsHold
  <1>11. openOrder.qty \in Nat \ {0}
    BY <1>4 DEF OpenOrders, ValidOpen
  <1>12. BooksHold'
    <2>1. Staged(op.working, openOrder'.cash) /\ op.working <= openOrder'.cap
      BY <1>3, <1>8
    <2>2. openOrder' \in OpenOrders /\ openOrder'.qty \in Nat \ {0} /\ boundPolicy' \in Policies
      BY <1>3, <1>4, <1>11
    <2> QED
      BY <1>3, <1>4, <1>8, <2>1, <2>2, StagedBooks
  <1> QED
    BY <1>10, <1>12 DEF OpenInv

\* The steps that change neither the terms nor the books.
LEMMA KeptByRest ==
    ASSUME OpenInv, openOrder' = openOrder, boundPolicy' = boundPolicy, activePolicy' \in Policies,
           stage' = stage \/ stage' \in {"rejected", "failed", "done", "halted"} \/ (stage = "pending" /\ stage' = "working"),
           stage' # stage => stage # "asked",
           attemptLimit' = attemptLimit, remainingQty' = remainingQty, remainingCash' = remainingCash,
           entryCost' = entryCost, fillCount' = fillCount
    PROVE  OpenInv'
  <1>1. TermsHold'
    BY DEF OpenInv, TermsHold
  <1>2. CASE stage' = stage
    BY <1>1, <1>2 DEF OpenInv, BooksHold
  <1>3. CASE stage' \in {"rejected", "failed", "done", "halted"}
    BY <1>1, <1>3 DEF OpenInv, BooksHold
  <1>4. CASE stage = "pending" /\ stage' = "working"
    BY <1>1, <1>4 DEF OpenInv, BooksHold
  <1> QED
    BY <1>2, <1>3, <1>4

LEMMA KeptByRecovery ==
    ASSUME OpenInv, NEW q \in Quotes, RecoverPending(q)
    PROVE  OpenInv'
  <1>1. CASE Fails
    <2>1. stage = "pending"
      BY DEF RecoverPending
    <2> QED
      BY <1>1, <2>1, KeptByRest DEF Fails, NotStaged, OpenInv, TermsHold
  <1>2. CASE ~Fails
    <2>1. PICK then : then = Again(q, boundPolicy)
      OBVIOUS
    <2>2. PICK now : now = Again(q, activePolicy)
      OBVIOUS
    <2>3. PICK working : working = Lesser(then.working, now.working)
      OBVIOUS
    <2>4. /\ stage = "pending" /\ stage' = stage
          /\ attemptLimit' = IF openOrder.shadow THEN attemptLimit ELSE Lesser(attemptLimit, working)
          /\ openOrder' = openOrder /\ boundPolicy' = boundPolicy /\ activePolicy' = activePolicy
          /\ remainingQty' = remainingQty /\ remainingCash' = remainingCash
          /\ entryCost' = entryCost /\ fillCount' = fillCount
      BY <1>2, <2>1, <2>2, <2>3 DEF RecoverPending
    <2>5. /\ openOrder \in OpenOrders /\ boundPolicy \in Policies /\ activePolicy \in Policies
          /\ ValidOpen(openOrder) /\ attemptLimit \in Nat /\ attemptLimit <= openOrder.cap
      BY <2>4 DEF OpenInv, TermsHold, BooksHold
    <2>6. PICK o : o = [openOrder EXCEPT !.lim = openOrder.cap]
      OBVIOUS
    <2>7. o \in OpenOrders /\ Shares(o)
      <3>1. o \in OpenOrders /\ o.type = openOrder.type /\ o.qty = openOrder.qty
        BY <2>5, <2>6 DEF OpenOrders
      <3>2. Shares(openOrder)
        BY <2>5, ValidHasShares
      <3> QED
        BY <3>1, <3>2 DEF Shares
    <2>8. then \in OpenOrders /\ now \in OpenOrders
      BY <2>1, <2>2, <2>5, <2>6, <2>7, Derived DEF Again
    <2>9. working \in Nat
      BY <2>3, <2>8 DEF OpenOrders, Lesser
    <2>10. attemptLimit' \in Nat /\ attemptLimit' <= openOrder.cap
      <3>1. openOrder.cap \in Nat
        BY <2>5 DEF OpenOrders
      <3> QED
        BY <2>4, <2>5, <2>9, <3>1 DEF Lesser
    <2>11. TermsHold'
      BY <2>4 DEF OpenInv, TermsHold
    <2>12. BooksHold'
      BY <2>4, <2>10 DEF OpenInv, BooksHold
    <2> QED
      BY <2>11, <2>12 DEF OpenInv
  <1> QED
    BY <1>1, <1>2

\* A lot costs what its shares may cost, but for two roundings.
LEMMA LotCosts ==
    ASSUME NEW n \in Nat, NEW p \in Nat, NEW cap \in Nat, p <= cap, NEW mult \in Nat, NEW each \in Nat,
           NEW charge \in Nat, each = cap * mult + charge,
           NEW fee \in {0, MulQtyPrice(n, charge, 1)}
    PROVE  /\ MulQtyPrice(n, p, mult) + fee \in Nat
           /\ Scale * (MulQtyPrice(n, p, mult) + fee) <= n * each + 2 * Scale
  <1>0. Scale \in Nat \ {0}
    BY OpenAssumption
  <1>1. PICK lot \in Nat : lot = MulQtyPrice(n, p, mult) /\ Scale * lot <= n * p * mult + Scale - 1
    BY AmountBounds
  <1>2. PICK most \in Nat : most = MulQtyPrice(n, charge, 1) /\ Scale * most <= n * charge * 1 + Scale - 1
    BY AmountBounds
  <1>3. fee \in Nat /\ Scale * fee <= n * charge + Scale
    <2>1. n * charge * 1 = n * charge /\ n * charge \in Nat
      OBVIOUS
    <2>2. CASE fee = 0
      <3>1. Scale * 0 = 0
        BY <1>0
      <3> QED
        BY <1>0, <2>1, <2>2, <3>1
    <2>3. CASE fee = most
      <3>1. PICK all \in Nat : all = n * charge /\ all = n * charge * 1
        BY <2>1
      <3>2. Scale * most <= all + Scale - 1
        BY <1>2, <3>1
      <3>3. Scale * most \in Nat
        BY <1>0
      <3>4. Scale * most <= all + Scale
        BY <1>0, <3>2, <3>3
      <3> QED
        BY <2>3, <3>1, <3>4
    <2> QED
      BY <1>2, <2>2, <2>3
  <1>4. n * p * mult <= n * cap * mult
    <2>1. n * mult * p <= n * mult * cap
      <3>1. n * mult \in Nat
        OBVIOUS
      <3> QED
        BY <3>1, TimesKeepsOrder
    <2>2. n * mult * p = n * p * mult /\ n * mult * cap = n * cap * mult
      OBVIOUS
    <2> QED
      BY <2>1, <2>2
  <1>5. n * each = n * cap * mult + n * charge
    OBVIOUS
  <1>6. Scale * (lot + fee) = Scale * lot + Scale * fee
    BY <1>0, <1>3
  <1>7. /\ Scale * lot \in Nat /\ Scale * fee \in Nat /\ n * p * mult \in Nat /\ n * cap * mult \in Nat
        /\ n * charge \in Nat /\ n * each \in Nat
    BY <1>0, <1>3
  <1>8. Scale * (lot + fee) <= n * each + 2 * Scale
    BY <1>0, <1>1, <1>3, <1>4, <1>5, <1>6, <1>7
  <1> QED
    BY <1>1, <1>3, <1>8

LEMMA KeptByBooks ==
    ASSUME OpenInv, stage \in {"pending", "working"}, NEW n \in 1..remainingQty,
           NEW p \in Nat, p <= attemptLimit, activePolicy' \in Policies,
           NEW fee \in {0, MulQtyPrice(n, boundPolicy.fee, 1)}, Books(n, p, fee)
    PROVE  OpenInv'
  <1>1. /\ openOrder \in OpenOrders /\ boundPolicy \in Policies
        /\ ValidOpen(openOrder) /\ TermsStand(openOrder, boundPolicy)
        /\ attemptLimit \in Nat /\ attemptLimit <= openOrder.cap
        /\ remainingQty \in 0..openOrder.qty /\ entryCost \in Nat /\ fillCount \in Nat
        /\ Scale * entryCost <=
             (openOrder.qty - remainingQty) * Each(openOrder, boundPolicy) + 2 * Scale * fillCount
    BY DEF OpenInv, TermsHold, BooksHold
  <1>2. PICK mult \in Nat, charge \in Nat, each \in Nat :
          /\ mult = Multipliers[openOrder.kind] /\ charge = boundPolicy.fee
          /\ each = Each(openOrder, boundPolicy)
    BY <1>1, FeesTyped
  <1>3. each = openOrder.cap * mult + charge
    BY <1>2 DEF Each
  <1>4. PICK cap \in Nat, qty \in Nat \ {0}, rest \in Nat :
          cap = openOrder.cap /\ qty = openOrder.qty /\ rest = remainingQty /\ rest <= qty
    BY <1>1 DEF OpenOrders, ValidOpen
  <1>5. PICK lot : lot = MulQtyPrice(n, p, mult) + fee
    OBVIOUS
  <1>6. n \in Nat /\ n <= rest /\ n # 0 /\ p <= cap
    BY <1>1, <1>4
  <1>7. lot \in Nat /\ Scale * lot <= n * each + 2 * Scale
    <2>1. each = cap * mult + charge /\ fee \in {0, MulQtyPrice(n, charge, 1)}
      BY <1>2, <1>3, <1>4
    <2> QED
      BY <1>5, <1>6, <2>1, LotCosts
  <1>8. /\ remainingQty' = rest - n
        /\ remainingCash' = CeilDiv(openOrder.cash * (rest - n), qty)
        /\ entryCost' = entryCost + lot /\ fillCount' = fillCount + 1
        /\ stage' \in {"done", "working"}
        /\ openOrder' = openOrder /\ boundPolicy' = boundPolicy /\ attemptLimit' = attemptLimit
    <2>1. entryCost' = entryCost + MulQtyPrice(n, p, mult) + fee
      BY <1>2 DEF Books
    <2>2. MulQtyPrice(n, p, mult) \in Nat /\ fee \in Nat
      <3>1. MulQtyPrice(n, p, mult) \in Nat /\ MulQtyPrice(n, charge, 1) \in Nat
        BY <1>6, AmountBounds
      <3> QED
        BY <1>2, <3>1
    <2>3. entryCost' = entryCost + lot
      BY <1>1, <1>5, <2>1, <2>2
    <2> QED
      BY <1>4, <2>3 DEF Books, Proportional
  <1>9. Scale * (entryCost + lot) <= (qty - (rest - n)) * each + 2 * Scale * (fillCount + 1)
    <2>0. Scale \in Nat \ {0}
      BY OpenAssumption
    <2>1. PICK cost \in Nat, fills \in Nat, used \in Nat :
            /\ cost = entryCost /\ fills = fillCount /\ used = qty - rest
            /\ Scale * cost <= used * each + 2 * Scale * fills
      BY <1>1, <1>2, <1>4
    <2>2. Scale * (cost + lot) = Scale * cost + Scale * lot
      BY <1>7, <2>0
    <2>3. (used + n) * each = used * each + n * each
      BY <1>6
    <2>4. 2 * Scale * (fills + 1) = 2 * Scale * fills + 2 * Scale
      BY <2>0
    <2>5. /\ Scale * cost \in Nat /\ Scale * lot \in Nat /\ used * each \in Nat /\ n * each \in Nat
          /\ 2 * Scale * fills \in Nat
      BY <1>6, <1>7, <2>0
    <2>6. Scale * (cost + lot) <= (used + n) * each + 2 * Scale * (fills + 1)
      BY <1>7, <2>0, <2>1, <2>2, <2>3, <2>4, <2>5
    <2>7. qty - (rest - n) = used + n
      BY <1>6, <2>1
    <2> QED
      BY <2>1, <2>6, <2>7
  <1>10. rest - n \in 0..qty
    BY <1>4, <1>6
  <1>11. TermsHold'
    BY <1>1, <1>8 DEF TermsHold
  <1>12. BooksHold'
    <2>1. Each(openOrder, boundPolicy)' = each
      BY <1>2, <1>8 DEF Each
    <2>2. entryCost' \in Nat /\ fillCount' \in Nat
      BY <1>1, <1>7, <1>8
    <2>3. openOrder'.qty = qty /\ openOrder'.cap = cap /\ openOrder'.cash = openOrder.cash
      BY <1>4, <1>8
    <2>4. Scale * entryCost' <= (openOrder'.qty - remainingQty') * Each(openOrder', boundPolicy') + 2 * Scale * fillCount'
      BY <1>8, <1>9, <2>1, <2>3
    <2> QED
      BY <1>1, <1>4, <1>8, <1>10, <2>2, <2>3, <2>4 DEF BooksHold
  <1> QED
    BY <1>11, <1>12 DEF OpenInv

LEMMA OpenInvStep == OpenInv /\ [OpenNext]_openVars => OpenInv'
  <1> SUFFICES ASSUME OpenInv, [OpenNext]_openVars PROVE OpenInv'
    OBVIOUS
  <1>0. openOrder \in OpenOrders /\ boundPolicy \in Policies /\ activePolicy \in Policies
    BY DEF OpenInv, TermsHold
  <1>1. ASSUME NEW q \in Quotes, ProposeOpen(q) PROVE OpenInv'
    BY <1>1, KeptByProposal
  <1>2. ASSUME NEW q \in Quotes, ReviewOpen(q) PROVE OpenInv'
    BY <1>2, KeptByReview
  <1>3. ASSUME NEW q \in Quotes, RecoverPending(q) PROVE OpenInv'
    BY <1>3, KeptByRecovery
  <1>4. ASSUME NEW q \in Quotes, PaperExecutes(q) PROVE OpenInv'
    <2>1. CASE Fails
      BY <1>0, <1>4, <2>1, KeptByRest DEF Fails, NotStaged, PaperExecutes
    <2>2. CASE ~Fails
      <3>1. stage = "pending" /\ q.ask <= attemptLimit /\ Books(openOrder.qty, q.ask, 0)
        BY <1>4, <2>2 DEF PaperExecutes
      <3>2. remainingQty = openOrder.qty /\ openOrder.qty \in 1..remainingQty /\ q.ask \in Nat
        BY <3>1, OpenAssumption DEF OpenInv, TermsHold, BooksHold, ValidOpen, OpenOrders
      <3>3. activePolicy' \in Policies
        BY <1>0, <3>1 DEF Books
      <3> QED
        BY <3>1, <3>2, <3>3, KeptByBooks
    <2> QED
      BY <2>1, <2>2
  <1>5. CASE RejectOpen
    BY <1>0, <1>5, KeptByRest DEF RejectOpen, NotStaged
  <1>6. CASE PolicyChanges
    BY <1>0, <1>6, KeptByRest DEF PolicyChanges, NotStaged
  <1>7. CASE SendOpen
    BY <1>0, <1>7, KeptByRest DEF SendOpen, Fails, NotStaged
  <1>8. CASE OpenEnds
    BY <1>0, <1>8, KeptByRest DEF OpenEnds, NotStaged
  <1>9. ASSUME NEW n \in 1..remainingQty, NEW p \in FillPrices, OpenFill(n, p) PROVE OpenInv'
    <2>1. p \in Nat /\ stage = "working"
      BY <1>9, OpenAssumption DEF OpenFill
    <2>2. PICK fee \in {0, MulQtyPrice(n, boundPolicy.fee, 1)} : ApplyOpenFill(n, p, fee)
      BY <1>9 DEF OpenFill
    <2>3. CASE p > attemptLimit
      BY <1>0, <2>1, <2>2, <2>3, KeptByRest DEF ApplyOpenFill, FillRefused
    <2>4. CASE ~(p > attemptLimit)
      <3>1. Books(n, p, fee)
        BY <2>2, <2>4 DEF ApplyOpenFill
      <3>2. attemptLimit \in Nat
        BY <2>1 DEF OpenInv, BooksHold
      <3>3. p <= attemptLimit
        BY <2>1, <2>4, <3>2
      <3>4. activePolicy' \in Policies
        BY <1>0, <3>1 DEF Books
      <3> QED
        BY <2>1, <3>1, <3>3, <3>4, KeptByBooks
    <2> QED
      BY <2>3, <2>4
  <1>10. CASE UNCHANGED openVars
    BY <1>0, <1>10, KeptByRest DEF openVars
  <1> QED
    BY <1>1, <1>2, <1>3, <1>4, <1>5, <1>6, <1>7, <1>8, <1>9, <1>10 DEF OpenNext

LEMMA OpenInvSafe == OpenInv => OpenSafe
  <1> SUFFICES ASSUME OpenInv PROVE CashCovers /\ ReviewReproduces
    BY DEF OpenSafe
  <1>1. openOrder \in OpenOrders /\ boundPolicy \in Policies /\ activePolicy \in Policies
    BY DEF OpenInv, TermsHold
  <1>2. CashCovers
    <2> SUFFICES ASSUME stage \in {"pending", "working"}
                 PROVE  /\ remainingCash * Scale >=
                             remainingQty * (openOrder.cap * Multipliers[openOrder.kind] + boundPolicy.fee)
                        /\ entryCost + remainingCash <= openOrder.cash + 2 * fillCount + 1
      BY DEF CashCovers
    <2>1. /\ ValidOpen(openOrder) /\ TermsStand(openOrder, boundPolicy)
          /\ remainingQty \in 0..openOrder.qty
          /\ remainingCash = CeilDiv(openOrder.cash * remainingQty, openOrder.qty)
          /\ entryCost \in Nat /\ fillCount \in Nat
          /\ Scale * entryCost <=
               (openOrder.qty - remainingQty) * Each(openOrder, boundPolicy) + 2 * Scale * fillCount
      BY DEF OpenInv, TermsHold, BooksHold
    <2>2. openOrder.qty \in Nat \ {0} /\ openOrder.qty * Each(openOrder, boundPolicy) <= Scale * openOrder.cash
      BY <1>1, <2>1, TermsCover
    <2>3. PICK qty \in Nat \ {0}, cash \in Nat, each \in Nat, rest \in Nat :
            /\ qty = openOrder.qty /\ cash = openOrder.cash /\ each = Each(openOrder, boundPolicy)
            /\ rest = remainingQty /\ rest <= qty
      BY <1>1, <2>1, <2>2, FeesTyped DEF OpenOrders
    <2>4. remainingCash = CeilDiv(cash * rest, qty) /\ remainingCash \in Nat
      <3>1. cash * rest \in Nat
        BY <2>3
      <3> QED
        BY <2>1, <2>3, <3>1, CeilDivBounds
    <2>5. remainingCash * Scale >= rest * each /\ entryCost + remainingCash <= cash + 2 * fillCount + 1
      BY <2>1, <2>2, <2>3, <2>4, ShareCovers
    <2> QED
      BY <2>3, <2>5 DEF Each
  <1>3. ReviewReproduces
    <2>1. ASSUME stage \in {"pending_review", "pending"}, NEW q \in Quotes
          PROVE  openOrder.cap > 0 /\ SameTerms(Again(q, boundPolicy))
      <3>1. ValidOpen(openOrder) /\ TermsStand(openOrder, boundPolicy)
        BY <2>1 DEF OpenInv, TermsHold
      <3>2. SameTerms(Again(q, boundPolicy))
        BY <1>1, <3>1, ValidHasShares, DerivedAgain DEF Again, SameTerms
      <3> QED
        BY <3>1, <3>2 DEF TermsStand
    <2>2. ASSUME stage = "pending_review", NEW q \in Quotes
          PROVE  ~Mismatch(q)
      <3>1. PICK again : again = Again(q, boundPolicy)
        OBVIOUS
      <3>2. openOrder.cap > 0 /\ again.cap = openOrder.cap /\ again.cash = openOrder.cash
        BY <2>1, <2>2, <3>1 DEF SameTerms
      <3>3. Prepared(q) = again \/ Prepared(q) = [again EXCEPT !.working = Lesser(q.ask, openOrder.cap)]
        BY <3>1 DEF Prepared
      <3>4. again \in OpenOrders
        <4>1. ValidOpen(openOrder) /\ TermsStand(openOrder, boundPolicy)
          BY <2>2 DEF OpenInv, TermsHold
        <4> QED
          BY <1>1, <3>1, <4>1, ValidHasShares, DerivedAgain DEF Again
      <3>5. SameTerms(Prepared(q))
        BY <3>2, <3>3, <3>4 DEF SameTerms, OpenOrders
      <3> QED
        BY <3>2, <3>5 DEF Mismatch
    <2> QED
      BY <2>1, <2>2 DEF ReviewReproduces
  <1> QED
    BY <1>2, <1>3

\* The cash an opening order holds pays for what may still fill, whatever its
\* type, the roundings and the partial fills; and the order a person reviews is
\* derived again with the very cap and cash that were proposed
\* (deriveOpenOperationWithLimits, prepareApprovedOpenWithLimits, applyOpenExposureFill).
THEOREM OpenOrdersStaySafe == OpenSpec => []OpenSafe
  <1>1. OpenSpec => []OpenInv
    BY OpenInvInit, OpenInvStep, PTL DEF OpenSpec
  <1> QED
    BY <1>1, OpenInvSafe, PTL
=============================================================================
