------------------------------ MODULE MCBreaker ------------------------------
(* Breaker on two market days without a provider, losses and gains of two.    *)
EXTENDS Breaker, TLC

MCDeltas == {-2, 2}
MCShadowReadings == {Unknown}
=============================================================================
