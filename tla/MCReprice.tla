------------------------------ MODULE MCReprice ------------------------------
(* Instances of Reprice for TLC: live and simulated trading, opens and closes. *)
EXTENDS Reprice, TLC

MCModes == {[action |-> "open", live |-> TRUE], [action |-> "close", live |-> FALSE]}
=============================================================================
