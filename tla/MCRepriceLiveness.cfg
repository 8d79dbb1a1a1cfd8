SPECIFICATION RepriceLiveSpec
CONSTANTS
    Qty = 1
    MaxReprices = 1
    Modes <- MCModes
PROPERTIES RepriceSettles
CHECK_DEADLOCK FALSE
