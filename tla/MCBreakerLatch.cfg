SPECIFICATION BreakerSpec
CONSTANTS
    MaxDay = 2
    MaxPnL = 2
    Deltas <- MCDeltas
    Readings <- MCShadowReadings
    Equities = {0, 5}
    Unknown = Unknown
    MaxDailyLossPct = 40
    ConsecutiveLossDaysHalt = 2
    PnLReconciliationLimit = 1
INVARIANTS DailyStopStaysLatched
