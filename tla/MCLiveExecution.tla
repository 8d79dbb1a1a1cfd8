--------------------------- MODULE MCLiveExecution ---------------------------
(* Instances of LiveExecution: a placement alone, with a cancel aimed at it,  *)
(* or two placements that the broker shows alike and does not deduplicate.    *)
EXTENDS LiveExecution, TLC

CONSTANTS single, canceling, twin1, twin2, w1, w2

MCKind == [a \in Attempts |-> IF a = canceling THEN "cancel" ELSE "open"]
MCTarget == [a \in Cancels |-> single]
MCAlike == {<<twin1, twin2>>, <<twin2, twin1>>}
MCSymmetry == Permutations(Workers) \union Permutations({twin1, twin2})

\* Action constraint: either the single placement or the twins; these with one
\* worker at a time, four claims between them and fills of one of them.
OneOrTwins ==
  \/ state'[twin1] = "none" /\ state'[twin2] = "none"
  \/ /\ state'[single] = "none"
     /\ \E w \in Workers : worker'[w] = Idle
     /\ token'[twin1] + token'[twin2] <= MaxToken
     /\ \E a \in {twin1, twin2} : brokerOrder'[a].filled = 0
=============================================================================
