---------------------------- MODULE MCControls ----------------------------
\* Controls of the Kernel that share no state here, side by side: the initial
\* state chooses the one whose steps a behaviour takes.
EXTENDS Breaker, Exposure, OpenOrder, Reprice, BrokerConnection

CONSTANTS o1, c1, c2, c9

VARIABLE component

controlVars == <<vars, exposureVars, pricingVars, openVars, repriceVars, connectionVars, component>>

\* Breaker: losses and gains of two units.
MCDeltas == {-2, 2}
MCReadings == {-2, Unknown}

\* Exposure: own shares and two closes; own and other shares and two closes; the
\* same with one close and more people; an opening order that fills while a close
\* larger than any position looks, reconciles and is refused; one that fills while
\* two closes sell what it opened.
MCOrderQty == [o \in Orders |-> CASE o \in {c1, o1} -> 1 [] o = c9 -> 9 [] OTHER -> 2]
Holding(own, other, orders, people) ==
    [tracked |-> own, external |-> other, orders |-> orders,
     buys |-> people[1], sells |-> people[2], looks |-> people[3]]
MCHoldings == { Holding(2, 0, {c1, c2}, <<0, 1, 0>>),
                Holding(1, 1, {c1, c2}, <<1, 1, 0>>),
                Holding(2, 1, {c2}, <<2, 3, 1>>),
                Holding(0, 1, {o1, c9}, <<1, 1, 1>>),
                Holding(1, 0, {o1, c1, c2}, <<0, 0, 0>>) }

\* Pricing: one tick, aligned ticks around a cutoff, ticks that do not meet there.
OneTick == [tick |-> 3, below |-> 0, cutoff |-> 0]
Nickels == [tick |-> 5, below |-> 1, cutoff |-> 10]
MCInstruments == {OneTick, Nickels, [tick |-> 4, below |-> 2, cutoff |-> 12],
                  [tick |-> 5, below |-> 2, cutoff |-> 7]}

\* OpenOrder: every order type, budgets that cover the order and that do not.
MCMultipliers == [equity |-> 1, option |-> 3]
MCOpenRequests ==
    {r \in [type : {"limit", "market", "stop_market", "stop_limit"}, kind : {"equity", "option"},
            shadow : BOOLEAN, inst : {OneTick, Nickels}, qty : {2, 3, 4}, lim : {0, 9, 15},
            stop : {0, 9}, budget : {0, 19, 33}] :
       ValidOpen(r) /\ (r.type \notin Unpriced => r.budget = 0)}
Quoted(bid, ask, usable, known) == [bid |-> bid, ask |-> ask, usable |-> usable, known |-> known]
MCQuotes == {Quoted(5, 8, TRUE, TRUE), Quoted(7, 10, TRUE, TRUE), Quoted(10, 13, TRUE, TRUE),
             Quoted(5, 8, FALSE, TRUE), Quoted(5, 8, TRUE, FALSE)}
MCPolicies == {[fee |-> 1, startAt |-> "mid"], [fee |-> 2, startAt |-> "ask"]}

\* Reprice: a live open, a simulated close.
LiveOpen == [action |-> "open", live |-> TRUE]
MCModes == {LiveOpen, [action |-> "close", live |-> FALSE]}

\* The components that do not move start from one state each.
MCInit ==
    /\ component \in {"breaker", "exposure", "pricing", "open", "reprice", "connection"}
    /\ IF component = "exposure" THEN TRUE ELSE start = Holding(2, 0, {c1, c2}, <<0, 1, 0>>)
    /\ IF component = "pricing" THEN TRUE
       ELSE inst = OneTick /\ side = "buy" /\ bound = 15 /\ limit = 15 /\ market = 15
    /\ IF component = "open" THEN TRUE
       ELSE /\ openOrder = NewOperation(CHOOSE r \in OpenRequests : TRUE)
            /\ activePolicy = CHOOSE p \in Policies : TRUE
    /\ IF component = "reprice" THEN TRUE ELSE mode = LiveOpen
    /\ IF component = "connection" THEN TRUE ELSE request = Startup(CHOOSE c \in Clients : TRUE)
    /\ BreakerInit /\ ExposureInit /\ PricingInit /\ OpenInit /\ RepriceInit /\ ConnectionInit

MCNext ==
    /\ \/ /\ component = "breaker" /\ BreakerNext
          /\ UNCHANGED <<exposureVars, pricingVars, openVars, repriceVars, connectionVars>>
       \/ /\ component = "exposure" /\ ExposureNext
          /\ UNCHANGED <<vars, pricingVars, openVars, repriceVars, connectionVars>>
       \/ /\ component = "pricing" /\ PricingNext
          /\ UNCHANGED <<vars, exposureVars, openVars, repriceVars, connectionVars>>
       \/ /\ component = "open" /\ OpenNext
          /\ UNCHANGED <<vars, exposureVars, pricingVars, repriceVars, connectionVars>>
       \/ /\ component = "reprice" /\ RepriceNext
          /\ UNCHANGED <<vars, exposureVars, pricingVars, openVars, connectionVars>>
       \/ /\ component = "connection" /\ ConnectionNext
          /\ UNCHANGED <<vars, exposureVars, pricingVars, openVars, repriceVars>>
    /\ UNCHANGED component

MCSpec == MCInit /\ [][MCNext]_controlVars


=============================================================================
