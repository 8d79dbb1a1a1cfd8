---- MODULE MCAdmission ----
EXTENDS Admission, TLC
MCRequests == {[key |-> "k1", risk |-> 1, unit |-> TRUE], [key |-> "k2", risk |-> 2, unit |-> FALSE]}
Strict == [perTrade |-> 1, perDay |-> 2, lax |-> FALSE]
Loose == [perTrade |-> 1, perDay |-> 2, lax |-> TRUE]
MCPolicies == {Strict, Loose}
Narrow == [cap |-> 2, clean |-> 1]
Wide == [cap |-> 3, clean |-> 1]
Connections == Permutations(Transactions)
MCAuthorities == {Narrow, Wide}
====
