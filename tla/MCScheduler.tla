---------------------------- MODULE MCScheduler ----------------------------
(* Instances of Scheduler: a scraped widget with a leftover window, which the *)
(* second configuration drops, and a native one that both have.              *)
EXTENDS Scheduler

CONSTANTS x, n, g1, g2

MCDefines == [g \in {g1, g2} |-> IF g = g1 THEN {x, n} ELSE {n}]
MCBothModes == BOOLEAN
=============================================================================
