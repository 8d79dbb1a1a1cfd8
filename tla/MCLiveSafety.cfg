SPECIFICATION Spec
CONSTANTS
    single = single
    canceling = canceling
    twin1 = twin1
    twin2 = twin2
    w1 = w1
    w2 = w2
    NoAttempt = NoAttempt
    Attempts = {single, twin1, twin2}
    Workers = {w1, w2}
    Kind <- MCKind
    Target <- MCTarget
    Alike <- MCAlike
    Legacy = {}
    Qty = 2
    MaxToken = 4
    ReplayVerified = {single}
ACTION_CONSTRAINT OneOrTwins
SYMMETRY MCSymmetry
INVARIANTS EffectsBacked BooksMatchBroker HaltCut OrderIsItsOwn StoreSafe
PROPERTIES ResumeSettled
CHECK_DEADLOCK FALSE
