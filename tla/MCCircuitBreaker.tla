-------------------------- MODULE MCCircuitBreaker --------------------------
(* Model values for checking CircuitBreaker: two worker loops of one process *)
(* and two operators.                                                        *)
EXTENDS CircuitBreaker

CONSTANTS w1, w2, o1, o2, control

OneProc  == {control}
TwoWorkers == {w1, w2}
TwoOperators == {o1, o2}
InProcess  == [w \in Workers |-> control]
=============================================================================
