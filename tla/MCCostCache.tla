---------------------------- MODULE MCCostCache ----------------------------
(* Keys whose probes overlap in a table of four slots.                     *)
EXTENDS CostCache, TLC

CONSTANTS h1, h2, h3, t1, t2, none

ThreeKeys == {h1, h2, h3}
TwoThreads == {t1, t2}

(* h1 and h2 start at the last slot and go on with h3's first.             *)
HomeSlots == [h \in Hashes |-> IF h \in {h1, h2} THEN 3 ELSE 0]
PriceList == [h \in Hashes |-> <<"price of", h>>]
===========================================================================
