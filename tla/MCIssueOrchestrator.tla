------------------------ MODULE MCIssueOrchestrator ------------------------
(* Two issues, the second depends on the first. *)
EXTENDS IssueOrchestrator

Chain == [n \in Issues |-> IF n = 2 THEN {1} ELSE {}]
=============================================================================
