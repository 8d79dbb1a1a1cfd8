------------------------------ MODULE MCCortex ------------------------------
(* Instances of CortexRuntime: two lanes in two processes.                  *)
EXTENDS CortexRuntime, TLC
\* Enough calls for a graph to its end, or a retry and fewer calls.
MCBudgets == {[retries |-> 0, calls |-> 5], [retries |-> 1, calls |-> 3]}
MCProcess == [w \in Workers |-> w]
MCSymmetry == Permutations(Workers) \cup Permutations(Nodes \ ToolNodes)
=============================================================================
