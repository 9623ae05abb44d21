---------------------------- MODULE MCAgentStep ----------------------------
(* Model values for checking AgentStep.                                     *)
EXTENDS AgentStep

CONSTANTS w1, w2, run1, run2

TwoWorkers   == {w1, w2}
OneRun  == {run1}
TwoRuns == {run1, run2}

\* A live worker of run1 may be reaped before it asks whether it owns the claim.
BeforeTheCheck == [s \in Slots |-> IF s = run1 THEN {"claimed", "working"} ELSE {}]
=============================================================================
