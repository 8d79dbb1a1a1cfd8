SPECIFICATION LiveSpec
CONSTANTS
    single = single
    canceling = canceling
    twin1 = twin1
    twin2 = twin2
    w1 = w1
    w2 = w2
    NoAttempt = NoAttempt
    Attempts = {single, canceling}
    Workers = {w1}
    Kind <- MCKind
    Target <- MCTarget
    Alike = {}
    Legacy = {}
    Qty = 1
    MaxToken = 2
    ReplayVerified = {single}
INVARIANTS CancelSettled
PROPERTIES StoreSpec ClaimRecovered BooksConverge
CHECK_DEADLOCK FALSE
