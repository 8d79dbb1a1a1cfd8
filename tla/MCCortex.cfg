SPECIFICATION CortexSpec
CONSTANTS
    w1 = w1
    w2 = w2
    n1 = n1
    n2 = n2
    Workers = {w1, w2}
    Process <- MCProcess
    Nodes = {n1, n2}
    ToolNodes = {}
    MinSuccess = 1
    GraphParallel = 2
    RunParallel = 2
    MaxRounds = 2
    Budgets <- MCBudgets
    MaxCrashes = 1
    Choices = {"commit", "scout", "graph", "proposal", "memo", "round"}
SYMMETRY MCSymmetry
CHECK_DEADLOCK FALSE
INVARIANT RecordsAgree
PROPERTY LateAnswerNeverAccepted
PROPERTY ImplementsContract
