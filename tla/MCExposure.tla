------------------------------ MODULE MCExposure ------------------------------
(* Exposure from an account with an opening order and a close.                   *)
EXTENDS Exposure, TLC

CONSTANTS o1, c1

MCOrderQty == [o \in Orders |-> IF o = c1 THEN 1 ELSE 2]

MCOpening == { [tracked |-> 0, external |-> 0, orders |-> {o1, c1},
                buys |-> 0, sells |-> 0, looks |-> 1] }
=============================================================================
