SPECIFICATION MCSpec
CONSTANTS
    MaxDay = 3
    MaxPnL = 2
    Deltas <- MCDeltas
    Readings <- MCReadings
    Equities = {5}
    Unknown = Unknown
    MaxDailyLossPct = 40
    ConsecutiveLossDaysHalt = 2
    PnLReconciliationLimit = 1
    o1 = o1
    c1 = c1
    c2 = c2
    c9 = c9
    None = None
    Opens = {o1}
    Closes = {c1, c2, c9}
    OrderQty <- MCOrderQty
    Holdings <- MCHoldings
    MaxMicros = 26
    Instruments <- MCInstruments
    Scale = 2
    Multipliers <- MCMultipliers
    OpenRequests <- MCOpenRequests
    Quotes <- MCQuotes
    Policies <- MCPolicies
    FillPrices = {7, 9, 10, 15}
    Qty = 2
    MaxReprices = 1
    Modes <- MCModes
    Clients = {k1, k2}
    Listed = {a1}
    Flows = {f1, f2}
    MaxTokens = 2
    Unbound = Unbound
INVARIANTS BreakerSafe ExposureSafe PricingSafe NeverStuck OpenSafe RepriceSafe ConnectionSafe
PROPERTIES StopsHold HalvesTheDistance WithinPolicy
CHECK_DEADLOCK FALSE
