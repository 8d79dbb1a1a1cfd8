CONSTANTS
  Keys = {"k1", "k2"}
  Requests <- MCRequests
  Transactions = {t1, t2}
  TransactionKinds = {"propose", "approve", "reject", "revise", "attest", "policy", "reconcile"}
  Policies <- MCPolicies
  InitialPolicy <- Loose
  Authorities <- MCAuthorities
  InitialAuthority <- Narrow
  BuyingPower = 2
  LastDay = 2
  Quotes = {"aging"}
  GovernanceBound = 1
SPECIFICATION AdmissionSpec
INVARIANT NeverOverspent
PROPERTIES GrantsWithinCanary DecisionsAreFinal BoundToActivePolicy WideningEarned
CHECK_DEADLOCK FALSE
SYMMETRY Connections
