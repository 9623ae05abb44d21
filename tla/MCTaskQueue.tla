---------------------------- MODULE MCTaskQueue ----------------------------
(* Model values for checking TaskQueue.                        *)
EXTENDS TaskQueue

CONSTANTS w1, w2, w3, gate, other

TwoWorkers == {w1, w2}
ThreeWorkers == {w1, w2, w3}
OneSlot  == {gate}
TwoSlots == {gate, other}
=============================================================================
