------------------------------- MODULE Pricing -------------------------------
(***************************************************************************)
(* Replacement prices of a managed order (cmd/kernel/repricer.go): a limit *)
(* walks towards the market by half the distance, on the instrument's      *)
(* ticks and inside the bound the operation was approved with.  An         *)
(* instrument may have a finer tick up to a cutoff.                        *)
(*                                                                         *)
(* A Go error is the price 0: no valid price is 0.                         *)
(***************************************************************************)
EXTENDS Integers

CONSTANTS
    MaxMicros,    \* largest price: units.Add refuses a larger sum
    Instruments   \* [tick, below, cutoff] records; below = cutoff = 0: one tick

ASSUME MaxMicrosAssumption == MaxMicros \in Nat \ {0}

\* Instrument.PrecisionSane
PrecisionSane(i) ==
    /\ i.tick > 0
    /\ i.below # 0 \/ i.cutoff # 0 => i.below > 0 /\ i.cutoff > 0

ASSUME InstrumentsAssumption ==
    /\ Instruments \subseteq [tick : Nat, below : Nat, cutoff : Nat]
    /\ \A i \in Instruments : PrecisionSane(i)

Error == 0
Prices == 1..MaxMicros

TickForPrice(i, p) == IF i.below > 0 /\ i.cutoff > 0 /\ p <= i.cutoff THEN i.below ELSE i.tick

SupportsPrice(i, p) == PrecisionSane(i) /\ p > 0 /\ p % TickForPrice(i, p) = 0

\* ceilPriceToTick, with the overflow check of units.Add
CeilPriceToTick(v, t) ==
    LET up == v + (t - (v % t))
    IN  IF v % t = 0 THEN v ELSE IF up > MaxMicros THEN Error ELSE up

FloorPriceToTick(v, t) == v - (v % t)

\* ceilPriceForInstrument, floorPriceForInstrument: rounding may cross the
\* cutoff, and the result must stand on the tick of where it lands
CeilPrice(i, v) ==
    LET c == CeilPriceToTick(v, TickForPrice(i, v)) IN IF SupportsPrice(i, c) THEN c ELSE Error

\* Mutant of FloorPrice: the result is not checked against the tick it lands on.
FloorUnchecked(i, v) == FloorPriceToTick(v, TickForPrice(i, v))

FloorPrice(i, v) ==
    LET f == FloorPriceToTick(v, TickForPrice(i, v)) IN IF SupportsPrice(i, f) THEN f ELSE Error

Lesser(a, b) == IF a < b THEN a ELSE b
Greater(a, b) == IF a > b THEN a ELSE b

\* half of a distance, rounded up
HalfUp(d) == (d \div 2) + (d % 2)

\* Mutant of BuyTarget: the cap is forgotten.
BuyTargetUncapped(ask, cap, i) ==
    IF CeilPrice(i, ask) = Error \/ FloorPrice(i, cap) = Error THEN Error ELSE CeilPrice(i, ask)

\* where a buy limit is heading
BuyTarget(ask, cap, i) ==
    IF CeilPrice(i, ask) = Error \/ FloorPrice(i, cap) = Error THEN Error
    ELSE Lesser(CeilPrice(i, ask), FloorPrice(i, cap))

\* Mutant of NextBuyLimit: the half step is rounded down to the tick.
NextBuyFloored(previous, ask, cap, i) ==
    LET target == BuyTarget(ask, cap, i)
    IN  IF target = Error THEN Error
        ELSE IF target <= previous THEN target
        ELSE FloorPrice(i, previous + ((target - previous) \div 2))

\* Mutant of NextBuyLimit: a quarter of the distance instead of half.
NextBuyTimid(previous, ask, cap, i) ==
    LET target == BuyTarget(ask, cap, i)
        next == CeilPrice(i, previous + HalfUp(HalfUp(target - previous)))
    IN  IF target = Error THEN Error
        ELSE IF target <= previous THEN target
        ELSE IF next = Error THEN Error ELSE Lesser(next, target)

\* nextBoundedBuyLimitForInstrument
NextBuyLimit(previous, ask, cap, i) ==
    LET target == BuyTarget(ask, cap, i)
        next == CeilPrice(i, previous + HalfUp(target - previous))
    IN  IF target = Error THEN Error
        ELSE IF target <= previous THEN target
        ELSE IF next = Error THEN Error ELSE Lesser(next, target)

\* where a sell limit is heading; a bid without a valid floor counts as 0
SellTarget(bid, minimum, i) ==
    IF CeilPrice(i, minimum) = Error THEN Error
    ELSE Greater(FloorPrice(i, bid), CeilPrice(i, minimum))

\* nextBoundedSellLimitForInstrument
NextSellLimit(previous, bid, minimum, i) ==
    LET target == SellTarget(bid, minimum, i)
        next == FloorPrice(i, previous - HalfUp(previous - target))
    IN  IF target = Error THEN Error
        ELSE IF target >= previous THEN target ELSE Greater(next, target)

-----------------------------------------------------------------------------
(* The walk of one order                                                   *)

VARIABLES
    side,    \* "buy" or "sell"
    inst,    \* the instrument
    bound,   \* approved_price_bound: a maximum for a buy, a minimum for a sell
    limit,   \* the working order's limit
    market   \* the ask for a buy, the bid for a sell

pricingVars == <<side, inst, bound, limit, market>>

Target == IF side = "buy" THEN BuyTarget(market, bound, inst) ELSE SellTarget(market, bound, inst)

NextLimit ==
    IF side = "buy" THEN NextBuyLimit(limit, market, bound, inst)
                    ELSE NextSellLimit(limit, market, bound, inst)

InBound(p) == IF side = "buy" THEN p <= bound ELSE p >= bound

PricingInit ==
    /\ side \in {"buy", "sell"} /\ inst \in Instruments
    /\ bound \in Prices /\ limit \in Prices /\ market \in Prices
    /\ SupportsPrice(inst, limit) /\ InBound(limit)

QuoteMoves ==
    /\ market' \in Prices
    /\ UNCHANGED <<side, inst, bound, limit>>

\* boundedReplacementLimit: only for a quote and a limit on the tick
RepriceStep ==
    /\ SupportsPrice(inst, market) /\ SupportsPrice(inst, limit)
    /\ NextLimit # Error
    /\ limit' = NextLimit
    /\ UNCHANGED <<side, inst, bound, market>>

PricingNext == QuoteMoves \/ RepriceStep

PricingSpec == PricingInit /\ [][PricingNext]_pricingVars

-----------------------------------------------------------------------------
(* Properties                                                              *)

\* Prices stay prices of their instrument: every replacement stands on the tick
\* of the price band it falls in, on either side of the cutoff (SupportsPrice).
PricingTypeOK ==
    /\ side \in {"buy", "sell"} /\ inst \in Instruments
    /\ bound \in Prices /\ market \in Prices /\ limit \in Prices
    /\ SupportsPrice(inst, limit)

\* However the quote moves, no replacement crosses the approved bound
\* (nextBoundedBuyLimitForInstrument, nextBoundedSellLimitForInstrument).
NeverCrossesBound == InBound(limit)

\* Every limit the repricer leaves behind is a price of its instrument within the
\* approved bound (nextBoundedBuyLimitForInstrument, nextBoundedSellLimitForInstrument).
PricingSafe == PricingTypeOK /\ NeverCrossesBound

\* A step never passes the market it steps towards, and it covers at least half
\* of the way to it: a walk needs only logarithmically many replacements.
HalvesTheDistance ==
    [][limit' # limit =>
         IF limit < Target
           THEN limit' > limit /\ limit' <= Target /\ 2 * (limit' - limit) >= Target - limit
           ELSE limit' < limit /\ limit' >= Target /\ 2 * (limit - limit') >= limit - Target]_pricingVars

\* an instrument whose ticks meet at the cutoff
Aligned(i) == i.below = 0 \/ (i.tick % i.below = 0 /\ i.cutoff % i.tick = 0)

\* With aligned ticks and facts that passed the checks, repricing never fails
\* half way: there is a target, and a limit away from it always moves
\* (an error here would leave the cancelled order without replacement).
NeverStuck ==
    Aligned(inst) /\ SupportsPrice(inst, market) /\ SupportsPrice(inst, bound) =>
        NextLimit # Error /\ (limit # Target => NextLimit # limit)
=============================================================================
